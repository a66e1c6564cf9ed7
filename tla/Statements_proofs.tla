--------------------------- MODULE Statements_proofs ---------------------------
(***************************************************************************)
(* Proofs about the browser's SQL console (SQLConsole, as MCStatements     *)
(* instantiates it), for any number of requests, any rights, any number of *)
(* failing audit writes and any number of lapses of the idle deadline.     *)
(*                                                                         *)
(* What the audit says of a statement is not inductive: that a row marked  *)
(* a success belongs to a statement with an effect is known only together  *)
(* with where its handler stands, what it was permitted by, and which      *)
(* audit writes it has behind it (Accounted).                              *)
(***************************************************************************)
EXTENDS MCStatements, TLAPS

-----------------------------------------------------------------------------
PCs == {"idle", "authorize", "load", "file", "session", "query", "lock", "run",
        "complete", "finish", "replied"}
Rights == SUBSET {"query", "execute"}
Session == [state : {"none", "connecting", "open", "gone"}, conn : {"none", "open", "closed"},
            armed : BOOLEAN, fired : BOOLEAN, due : BOOLEAN]
Request == [pc : PCs, stmt : {"read", "covert", "write", "refused"}, confirm : BOOLEAN,
            rights : Rights, ok : BOOLEAN]
AuditRows == [session : {"none", "active", "failed", "succeeded"},
              query : {"none", "unknown", "success", "error"}, file : BOOLEAN]
EffectSet == {"none", "read", "changed"}

(* A handler past sessionForActor runs a statement inspectSQLStatement     *)
(* takes, confirmed when it writes; past Authorize it has the right to it. *)
Judged == {"authorize", "load", "file", "session", "query", "lock", "run", "complete", "finish"}
Permitted == Judged \ {"authorize"}
Filed == {"session", "query", "lock", "run", "complete", "finish"}
Entered == {"lock", "run", "complete", "finish"}
Ran == {"complete", "finish", "replied"}

(* The request q, its audit rows a and its effect e agree.                 *)
Accounted(q, a, e) ==
    /\ q.pc \in Judged => q.stmt # "refused" /\ (q.stmt = "write" => q.confirm)
    /\ q.pc \in Permitted =>
          (IF q.stmt \in {"read", "covert"} THEN "query" ELSE "execute") \in q.rights
    /\ q.pc \in Filed => a.file
    /\ q.pc \in Entered => a.query # "none"
    /\ e # "none" => q.pc \in Ran /\ a.query # "none" /\ a.file
    /\ e = "changed" => "execute" \in q.rights /\ q.confirm
    /\ q.ok => q.pc \in Ran /\ e # "none"
    /\ q.pc = "finish" /\ q.ok => a.query = "success"
    /\ q.pc = "replied" /\ q.ok => a.session = "succeeded"
    /\ a.query = "success" => q.pc \in {"finish", "replied"} /\ e # "none"
    /\ a.session = "succeeded" => q.pc = "replied" /\ a.query = "success"

(* The connection of a session is held by somebody who will close it, and  *)
(* a session is taken out of the map by one goroutine only.                *)
SessionHeld ==
    /\ sess.state \in {"none", "connecting"} => ~closer
    /\ sess.state = "none" => sess.conn = "none"
    /\ sess.conn = "open" =>
          \/ sess.state = "connecting" \/ closer
          \/ sess.state = "open" /\ (sess.armed \/ sess.fired)

ConsoleTyped ==
    /\ account \in [usable : BOOLEAN, rights : Rights]
    /\ sess \in Session
    /\ closer \in BOOLEAN
    /\ req \in [Req -> Request]
    /\ aud \in [Req -> AuditRows]
    /\ effect \in [Req -> EffectSet]

ConsoleInv ==
    /\ ConsoleTyped
    /\ \A r \in Req : Accounted(req[r], aud[r], effect[r])
    /\ SessionHeld

-----------------------------------------------------------------------------
(* A step of one request: its record becomes q, its rows a, its effect e.  *)
Moved(r, q, a, e) ==
    /\ req' = [req EXCEPT ![r] = q]
    /\ aud' = [aud EXCEPT ![r] = a]
    /\ effect' = [effect EXCEPT ![r] = e]

(* Such a step keeps the invariant when what it leaves of its own request  *)
(* is accounted and the session is still held.                             *)
LEMMA MovedKeeps ==
    ASSUME ConsoleInv, NEW r \in Req, NEW q \in Request, NEW a \in AuditRows, NEW e \in EffectSet,
           Moved(r, q, a, e), Accounted(q, a, e),
           account' = account, sess' \in Session, closer' \in BOOLEAN, SessionHeld'
    PROVE  ConsoleInv'
<1>1. ConsoleTyped'
    BY DEF ConsoleInv, ConsoleTyped, Moved
<1>2. ASSUME NEW s \in Req
      PROVE  Accounted(req'[s], aud'[s], effect'[s])
    <2>1. CASE s = r
        <3>1. req'[s] = q /\ aud'[s] = a /\ effect'[s] = e
            BY <2>1 DEF Moved, ConsoleInv, ConsoleTyped
        <3>. QED
            BY <3>1
    <2>2. CASE s # r
        <3>1. req'[s] = req[s] /\ aud'[s] = aud[s] /\ effect'[s] = effect[s]
            BY <2>2 DEF Moved, ConsoleInv, ConsoleTyped
        <3>. QED
            BY <3>1 DEF ConsoleInv
    <2>. QED
        BY <2>1, <2>2
<1>. QED
    BY <1>1, <1>2 DEF ConsoleInv

(* The same for a step that leaves the session alone.                      *)
LEMMA RequestKeeps ==
    ASSUME ConsoleInv, NEW r \in Req, NEW q \in Request, NEW a \in AuditRows, NEW e \in EffectSet,
           Moved(r, q, a, e), Accounted(q, a, e), UNCHANGED <<account, sess, closer>>
    PROVE  ConsoleInv'
<1>1. SessionHeld' /\ sess' \in Session /\ closer' \in BOOLEAN
    BY DEF ConsoleInv, ConsoleTyped, SessionHeld
<1>. QED
    BY <1>1, MovedKeeps

(* What r has, in the types.                                               *)
LEMMA RequestOf ==
    ASSUME ConsoleInv, NEW r \in Req
    PROVE  /\ req[r] \in Request /\ aud[r] \in AuditRows /\ effect[r] \in EffectSet
           /\ Accounted(req[r], aud[r], effect[r])
BY DEF ConsoleInv, ConsoleTyped

-----------------------------------------------------------------------------
(* Steps of the session                                                    *)

LEMMA SessionStepKeeps ==
    ASSUME ConsoleInv,
           \/ Console!Connect \/ Console!CreateSession \/ Console!CloseSession
           \/ Console!IdleTimePasses \/ Console!TimerFires \/ Console!ExpireSession
           \/ Console!CloseConnection \/ Console!Metadata
    PROVE  ConsoleInv'
<1>1. UNCHANGED <<account, req, aud, effect>>
    BY DEF Console!Connect, Console!CreateSession, Console!CloseSession, Console!IdleTimePasses,
           Console!TimerFires, Console!ExpireSession, Console!CloseConnection, Console!Metadata
<1>2. sess \in Session /\ closer \in BOOLEAN
    BY DEF ConsoleInv, ConsoleTyped
<1>3. SessionHeld
    BY DEF ConsoleInv
<1>4. sess' \in Session /\ closer' \in BOOLEAN /\ SessionHeld'
    <2>1. CASE Console!Connect
        BY <1>2, <1>3, <2>1 DEF Console!Connect, SessionHeld, Session
    <2>2. CASE Console!CreateSession
        BY <1>2, <1>3, <2>2 DEF Console!CreateSession, SessionHeld, Session
    <2>3. CASE Console!CloseSession
        BY <1>2, <1>3, <2>3 DEF Console!CloseSession, SessionHeld, Session
    <2>4. CASE Console!IdleTimePasses
        BY <1>2, <1>3, <2>4 DEF Console!IdleTimePasses, SessionHeld, Session
    <2>5. CASE Console!TimerFires
        BY <1>2, <1>3, <2>5 DEF Console!TimerFires, SessionHeld, Session
    <2>6. CASE Console!ExpireSession
        <3>1. CASE sess.state = "open" /\ sess.due
            BY <1>2, <1>3, <2>6, <3>1 DEF Console!ExpireSession, SessionHeld, Session
        <3>2. CASE ~(sess.state = "open" /\ sess.due)
            <4>. DEFINE again == (sess.state = "open")
            <4>1. sess' = [sess EXCEPT !.fired = FALSE, !.armed = again] /\ closer' = closer
                BY <2>6, <3>2 DEF Console!ExpireSession
            <4>2. again \in BOOLEAN /\ (again => sess.state = "open") /\ (~again => sess.state # "open")
                OBVIOUS
            <4>. HIDE DEF again
            <4>3. /\ sess' \in Session
                  /\ sess'.state = sess.state /\ sess'.conn = sess.conn
                  /\ sess'.armed = again
                BY <1>2, <4>1, <4>2 DEF Session
            <4>. QED
                BY <1>2, <1>3, <4>1, <4>2, <4>3 DEF SessionHeld
        <3>. QED
            BY <3>1, <3>2
    <2>7. CASE Console!CloseConnection
        BY <1>2, <1>3, <2>7 DEF Console!CloseConnection, SessionHeld, Session
    <2>8. CASE Console!Metadata
        BY <1>2, <1>3, <2>8 DEF Console!Metadata, SessionHeld, Session
    <2>. QED
        BY <2>1, <2>2, <2>3, <2>4, <2>5, <2>6, <2>7, <2>8
<1>. QED
    BY <1>1, <1>4 DEF ConsoleInv, ConsoleTyped

LEMMA WithdrawKeeps ==
    ASSUME ConsoleInv, Console!Withdraw
    PROVE  ConsoleInv'
<1>. DEFINE A == [usable : BOOLEAN, rights : Rights]
<1>1. account' \in A
    <2>1. account \in A
        BY DEF ConsoleInv, ConsoleTyped
    <2>2. ASSUME NEW a \in account.rights, account' = [account EXCEPT !.rights = @ \ {a}]
          PROVE  account' \in A
        BY <2>1, <2>2 DEF Rights
    <2>3. ASSUME account' = [account EXCEPT !.usable = FALSE]
          PROVE  account' \in A
        BY <2>1, <2>3
    <2>. QED
        BY <2>2, <2>3 DEF Console!Withdraw
<1>. QED
    BY <1>1 DEF ConsoleInv, ConsoleTyped, SessionHeld, Console!Withdraw

-----------------------------------------------------------------------------
(* Steps of one statement                                                  *)

LEMMA SessionForActorKeeps ==
    ASSUME ConsoleInv, NEW r \in Req, NEW stmt \in {"read", "covert", "write", "refused"},
           NEW confirm \in BOOLEAN, Console!SessionForActor(r, stmt, confirm)
    PROVE  ConsoleInv'
<1>. DEFINE p == IF stmt = "refused" \/ (~Console!ReadOnly(stmt) /\ ~confirm)
                 THEN "replied" ELSE "authorize"
            q == [req[r] EXCEPT !.stmt = stmt, !.confirm = confirm, !.pc = p]
<1>1. /\ p \in {"replied", "authorize"} /\ p \in PCs
      /\ p = "authorize" => stmt # "refused" /\ (stmt = "write" => confirm)
    BY DEF Console!ReadOnly, PCs
<1>2. /\ req[r].pc = "idle"
      /\ sess.state = "open"
      /\ sess' = [sess EXCEPT !.due = FALSE, !.armed = TRUE]
      /\ req' = [req EXCEPT ![r] = q]
      /\ UNCHANGED <<account, closer, aud, effect>>
    BY DEF Console!SessionForActor, Console!At
<1>. HIDE DEF p
<1>3. q \in Request /\ q.pc = p /\ q.stmt = stmt /\ q.confirm = confirm /\ q.ok = req[r].ok
    BY <1>1, RequestOf DEF Request
<1>. HIDE DEF q
<1>4. Moved(r, q, aud[r], effect[r])
    BY <1>2 DEF Moved, ConsoleInv, ConsoleTyped
<1>5. effect[r] = "none" /\ Accounted(q, aud[r], effect[r])
    BY <1>1, <1>2, <1>3, RequestOf DEF Accounted, Judged, Permitted, Filed, Entered, Ran
<1>6. sess' \in Session /\ closer' \in BOOLEAN /\ SessionHeld'
    BY <1>2 DEF ConsoleInv, ConsoleTyped, SessionHeld, Session
<1>. QED
    BY <1>2, <1>3, <1>4, <1>5, <1>6, RequestOf, MovedKeeps

(* r moves on to p, or replies a failure, and leaves its audit as a.       *)
LEMMA GotoKeeps ==
    ASSUME ConsoleInv, NEW r \in Req, NEW p \in PCs, NEW a \in AuditRows,
           req' = [req EXCEPT ![r] = [req[r] EXCEPT !.pc = p]],
           aud' = [aud EXCEPT ![r] = a], UNCHANGED <<account, sess, closer, effect>>,
           \A q \in Request : q.pc = p /\ q.stmt = req[r].stmt /\ q.confirm = req[r].confirm
                              /\ q.rights = req[r].rights /\ q.ok = req[r].ok
                              => Accounted(q, a, effect[r])
    PROVE  ConsoleInv'
<1>. DEFINE q == [req[r] EXCEPT !.pc = p]
<1>1. /\ q \in Request /\ q.pc = p /\ q.stmt = req[r].stmt /\ q.confirm = req[r].confirm
      /\ q.rights = req[r].rights /\ q.ok = req[r].ok
    BY RequestOf DEF Request
<1>2. req' = [req EXCEPT ![r] = q]
    OBVIOUS
<1>. HIDE DEF q
<1>3. Moved(r, q, a, effect[r])
    BY <1>2 DEF Moved, ConsoleInv, ConsoleTyped
<1>4. Accounted(q, a, effect[r])
    BY <1>1
<1>. QED
    BY <1>1, <1>3, <1>4, RequestOf, RequestKeeps

LEMMA ReplyKeeps ==
    ASSUME ConsoleInv, NEW r \in Req, NEW a \in AuditRows, Console!Reply(r, FALSE),
           aud' = [aud EXCEPT ![r] = a], UNCHANGED <<account, sess, closer, effect>>,
           a.query = aud[r].query, a.session # "succeeded",
           effect[r] # "none" => a.file
    PROVE  ConsoleInv'
<1>. DEFINE q == [req[r] EXCEPT !.pc = "replied", !.ok = FALSE]
<1>1. "replied" \in PCs
    BY DEF PCs
<1>2. /\ q \in Request /\ q.pc = "replied" /\ q.stmt = req[r].stmt /\ q.confirm = req[r].confirm
      /\ q.rights = req[r].rights /\ q.ok = FALSE
    BY <1>1, RequestOf DEF Request
<1>3. req' = [req EXCEPT ![r] = q]
    BY DEF Console!Reply
<1>. HIDE DEF q
<1>4. Moved(r, q, a, effect[r])
    BY <1>3 DEF Moved, ConsoleInv, ConsoleTyped
<1>5. Accounted(q, a, effect[r])
    BY <1>2, RequestOf DEF Accounted, Judged, Permitted, Filed, Entered, Ran
<1>. QED
    BY <1>2, <1>4, <1>5, RequestOf, RequestKeeps

LEMMA AuthorizeKeeps ==
    ASSUME ConsoleInv, NEW r \in Req, Console!Authorize(r)
    PROVE  ConsoleInv'
<1>1. /\ req[r].pc = "authorize" /\ UNCHANGED <<account, sess, closer, aud, effect>>
      /\ aud' = [aud EXCEPT ![r] = aud[r]]
    BY DEF Console!Authorize, Console!At, ConsoleInv, ConsoleTyped
<1>2. ASSUME Console!Action(req[r].stmt) \in account.rights,
             req' = [req EXCEPT ![r].pc = "load", ![r].rights = account.rights]
      PROVE  ConsoleInv'
    <2>. DEFINE q == [req[r] EXCEPT !.pc = "load", !.rights = account.rights]
    <2>1. "load" \in PCs /\ account.rights \in Rights
        BY DEF PCs, ConsoleInv, ConsoleTyped
    <2>2. /\ q \in Request /\ q.pc = "load" /\ q.stmt = req[r].stmt /\ q.confirm = req[r].confirm
          /\ q.rights = account.rights /\ q.ok = req[r].ok
        BY <2>1, RequestOf DEF Request
    <2>3. req' = [req EXCEPT ![r] = q]
        BY <1>2
    <2>. HIDE DEF q
    <2>4. Moved(r, q, aud[r], effect[r])
        BY <1>1, <2>3 DEF Moved, ConsoleInv, ConsoleTyped
    <2>5. (IF q.stmt \in {"read", "covert"} THEN "query" ELSE "execute") \in q.rights
        BY <1>2, <2>2 DEF Console!Action, Console!ReadOnly
    <2>6. Accounted(q, aud[r], effect[r])
        BY <1>1, <2>2, <2>5, RequestOf DEF Accounted, Judged, Permitted, Filed, Entered, Ran
    <2>. QED
        BY <1>1, <2>2, <2>4, <2>6, RequestOf, RequestKeeps
<1>3. ASSUME Console!Reply(r, FALSE)
      PROVE  ConsoleInv'
    BY <1>1, <1>3, RequestOf, ReplyKeeps DEF Accounted
<1>. QED
    BY <1>2, <1>3 DEF Console!Authorize

LEMMA LoadKeeps ==
    ASSUME ConsoleInv, NEW r \in Req, Console!LoadSQLConsoleAccount(r)
    PROVE  ConsoleInv'
<1>1. /\ req[r].pc = "load" /\ UNCHANGED <<account, sess, closer, aud, effect>>
      /\ aud' = [aud EXCEPT ![r] = aud[r]]
    BY DEF Console!LoadSQLConsoleAccount, Console!At, ConsoleInv, ConsoleTyped
<1>2. ASSUME Console!Goto(r, "file")
      PROVE  ConsoleInv'
    <2>1. req' = [req EXCEPT ![r] = [req[r] EXCEPT !.pc = "file"]] /\ "file" \in PCs
        BY <1>2 DEF Console!Goto, PCs
    <2>2. \A q \in Request : q.pc = "file" /\ q.stmt = req[r].stmt /\ q.confirm = req[r].confirm
                             /\ q.rights = req[r].rights /\ q.ok = req[r].ok
                             => Accounted(q, aud[r], effect[r])
        BY <1>1, RequestOf DEF Accounted, Judged, Permitted, Filed, Entered, Ran
    <2>. QED
        BY <1>1, <2>1, <2>2, RequestOf, GotoKeeps
<1>3. ASSUME Console!Reply(r, FALSE)
      PROVE  ConsoleInv'
    BY <1>1, <1>3, RequestOf, ReplyKeeps DEF Accounted
<1>. QED
    BY <1>2, <1>3 DEF Console!LoadSQLConsoleAccount

LEMMA WriteArtifactKeeps ==
    ASSUME ConsoleInv, NEW r \in Req, Console!WriteSQLConsoleAuditArtifact(r)
    PROVE  ConsoleInv'
<1>1. req[r].pc = "file" /\ UNCHANGED <<account, sess, closer, effect>>
    BY DEF Console!WriteSQLConsoleAuditArtifact, Console!At
<1>2. ASSUME Console!Goto(r, "session"), aud' = [aud EXCEPT ![r].file = TRUE]
      PROVE  ConsoleInv'
    <2>. DEFINE a == [aud[r] EXCEPT !.file = TRUE]
    <2>1. a \in AuditRows /\ a.file /\ a.session = aud[r].session /\ a.query = aud[r].query
        BY RequestOf DEF AuditRows
    <2>2. req' = [req EXCEPT ![r] = [req[r] EXCEPT !.pc = "session"]] /\ "session" \in PCs
          /\ aud' = [aud EXCEPT ![r] = a]
        BY <1>2 DEF Console!Goto, PCs
    <2>. HIDE DEF a
    <2>3. \A q \in Request : q.pc = "session" /\ q.stmt = req[r].stmt /\ q.confirm = req[r].confirm
                             /\ q.rights = req[r].rights /\ q.ok = req[r].ok
                             => Accounted(q, a, effect[r])
        BY <1>1, <2>1, RequestOf DEF Accounted, Judged, Permitted, Filed, Entered, Ran
    <2>. QED
        BY <1>1, <2>1, <2>2, <2>3, RequestOf, GotoKeeps
<1>3. ASSUME Console!Reply(r, FALSE), aud' = aud
      PROVE  ConsoleInv'
    <2>1. aud' = [aud EXCEPT ![r] = aud[r]]
        BY <1>3 DEF ConsoleInv, ConsoleTyped
    <2>. QED
        BY <1>1, <1>3, <2>1, RequestOf, ReplyKeeps DEF Accounted
<1>. QED
    BY <1>2, <1>3 DEF Console!WriteSQLConsoleAuditArtifact

LEMMA CreateAuditSessionKeeps ==
    ASSUME ConsoleInv, NEW r \in Req, Console!CreateAuditSession(r)
    PROVE  ConsoleInv'
<1>1. req[r].pc = "session" /\ UNCHANGED <<account, sess, closer, effect>>
    BY DEF Console!CreateAuditSession, Console!At
<1>2. ASSUME Console!Goto(r, "query"), aud' = [aud EXCEPT ![r].session = "active"]
      PROVE  ConsoleInv'
    <2>. DEFINE a == [aud[r] EXCEPT !.session = "active"]
    <2>1. a \in AuditRows /\ a.file = aud[r].file /\ a.session = "active" /\ a.query = aud[r].query
        BY RequestOf DEF AuditRows
    <2>2. req' = [req EXCEPT ![r] = [req[r] EXCEPT !.pc = "query"]] /\ "query" \in PCs
          /\ aud' = [aud EXCEPT ![r] = a]
        BY <1>2 DEF Console!Goto, PCs
    <2>. HIDE DEF a
    <2>3. \A q \in Request : q.pc = "query" /\ q.stmt = req[r].stmt /\ q.confirm = req[r].confirm
                             /\ q.rights = req[r].rights /\ q.ok = req[r].ok
                             => Accounted(q, a, effect[r])
        BY <1>1, <2>1, RequestOf DEF Accounted, Judged, Permitted, Filed, Entered, Ran
    <2>. QED
        BY <1>1, <2>1, <2>2, <2>3, RequestOf, GotoKeeps
<1>3. ASSUME Console!Reply(r, FALSE), aud' = [aud EXCEPT ![r].file = FALSE]
      PROVE  ConsoleInv'
    <2>. DEFINE a == [aud[r] EXCEPT !.file = FALSE]
    <2>1. a \in AuditRows /\ a.session = aud[r].session /\ a.query = aud[r].query
        BY RequestOf DEF AuditRows
    <2>2. aud' = [aud EXCEPT ![r] = a]
        BY <1>3
    <2>. HIDE DEF a
    <2>3. effect[r] = "none" /\ aud[r].session # "succeeded"
        BY <1>1, RequestOf DEF Accounted, Ran
    <2>. QED
        BY <1>1, <1>3, <2>1, <2>2, <2>3, RequestOf, ReplyKeeps
<1>. QED
    BY <1>2, <1>3 DEF Console!CreateAuditSession

LEMMA CreateAuditDBQueryKeeps ==
    ASSUME ConsoleInv, NEW r \in Req, Console!CreateAuditDBQuery(r)
    PROVE  ConsoleInv'
<1>1. req[r].pc = "query" /\ UNCHANGED <<account, sess, closer, effect>>
    BY DEF Console!CreateAuditDBQuery, Console!At
<1>2. ASSUME Console!Goto(r, "lock"), aud' = [aud EXCEPT ![r].query = "unknown"]
      PROVE  ConsoleInv'
    <2>. DEFINE a == [aud[r] EXCEPT !.query = "unknown"]
    <2>1. a \in AuditRows /\ a.file = aud[r].file /\ a.session = aud[r].session /\ a.query = "unknown"
        BY RequestOf DEF AuditRows
    <2>2. req' = [req EXCEPT ![r] = [req[r] EXCEPT !.pc = "lock"]] /\ "lock" \in PCs
          /\ aud' = [aud EXCEPT ![r] = a]
        BY <1>2 DEF Console!Goto, PCs
    <2>. HIDE DEF a
    <2>3. \A q \in Request : q.pc = "lock" /\ q.stmt = req[r].stmt /\ q.confirm = req[r].confirm
                             /\ q.rights = req[r].rights /\ q.ok = req[r].ok
                             => Accounted(q, a, effect[r])
        BY <1>1, <2>1, RequestOf DEF Accounted, Judged, Permitted, Filed, Entered, Ran
    <2>. QED
        BY <1>1, <2>1, <2>2, <2>3, RequestOf, GotoKeeps
<1>3. ASSUME Console!Reply(r, FALSE), NEW session_ \in {"failed", "active"},
             aud' = [aud EXCEPT ![r].file = FALSE, ![r].session = session_]
      PROVE  ConsoleInv'
    <2>. DEFINE a == [aud[r] EXCEPT !.file = FALSE, !.session = session_]
    <2>1. a \in AuditRows /\ a.session = session_ /\ a.query = aud[r].query
        BY RequestOf DEF AuditRows
    <2>2. aud' = [aud EXCEPT ![r] = a]
        BY <1>3
    <2>. HIDE DEF a
    <2>3. effect[r] = "none"
        BY <1>1, RequestOf DEF Accounted, Ran
    <2>. QED
        BY <1>1, <1>3, <2>1, <2>2, <2>3, RequestOf, ReplyKeeps
<1>. QED
    BY <1>2, <1>3 DEF Console!CreateAuditDBQuery

LEMMA LockKeeps ==
    ASSUME ConsoleInv, NEW r \in Req, Console!Lock(r)
    PROVE  ConsoleInv'
<1>1. /\ req[r].pc = "lock" /\ UNCHANGED <<account, sess, closer, effect>>
      /\ aud' = [aud EXCEPT ![r] = aud[r]]
      /\ req' = [req EXCEPT ![r] = [req[r] EXCEPT !.pc = "run"]] /\ "run" \in PCs
    BY DEF Console!Lock, Console!At, Console!Goto, PCs, ConsoleInv, ConsoleTyped
<1>2. \A q \in Request : q.pc = "run" /\ q.stmt = req[r].stmt /\ q.confirm = req[r].confirm
                         /\ q.rights = req[r].rights /\ q.ok = req[r].ok
                         => Accounted(q, aud[r], effect[r])
    BY <1>1, RequestOf DEF Accounted, Judged, Permitted, Filed, Entered, Ran
<1>. QED
    BY <1>1, <1>2, RequestOf, GotoKeeps

(* What the database did is what the statement was permitted to do.        *)
LEMMA ExecuteKeeps ==
    ASSUME ConsoleInv, NEW r \in Req, Console!Execute(r)
    PROVE  ConsoleInv'
<1>1. /\ req[r].pc = "run" /\ UNCHANGED <<account, sess, closer>>
      /\ aud' = [aud EXCEPT ![r] = aud[r]]
    BY DEF Console!Execute, Console!At, ConsoleInv, ConsoleTyped
<1>2. ASSUME NEW e \in EffectSet, NEW ok \in BOOLEAN, e = "none" => ~ok,
             e = "changed" => req[r].stmt = "write",
             effect' = [effect EXCEPT ![r] = e],
             req' = [req EXCEPT ![r].pc = "complete", ![r].ok = ok]
      PROVE  ConsoleInv'
    <2>. DEFINE q == [req[r] EXCEPT !.pc = "complete", !.ok = ok]
    <2>1. "complete" \in PCs
        BY DEF PCs
    <2>2. /\ q \in Request /\ q.pc = "complete" /\ q.stmt = req[r].stmt
          /\ q.confirm = req[r].confirm /\ q.rights = req[r].rights /\ q.ok = ok
        BY <2>1, RequestOf DEF Request
    <2>3. req' = [req EXCEPT ![r] = q]
        BY <1>2
    <2>. HIDE DEF q
    <2>4. Moved(r, q, aud[r], e)
        BY <1>1, <1>2, <2>3 DEF Moved
    <2>5. Accounted(q, aud[r], e)
        BY <1>1, <1>2, <2>2, RequestOf DEF Accounted, Judged, Permitted, Filed, Entered, Ran
    <2>. QED
        BY <1>1, <2>2, <2>4, <2>5, RequestOf, RequestKeeps
<1>3. CASE /\ effect' = effect
           /\ req' = [req EXCEPT ![r].pc = "complete", ![r].ok = FALSE]
    <2>1. effect[r] = "none" /\ effect' = [effect EXCEPT ![r] = "none"]
        BY <1>1, <1>3, RequestOf DEF Accounted, Ran, ConsoleInv, ConsoleTyped
    <2>. QED
        BY <1>2, <1>3, <2>1 DEF EffectSet
<1>4. ASSUME NEW e \in Console!Effects(req[r].stmt)
      PROVE  e \in EffectSet /\ (e = "changed" => req[r].stmt = "write")
    <2>1. req[r].stmt \in {"read", "covert", "write"}
        BY <1>1, RequestOf DEF Accounted, Judged, Request
    <2>. QED
        BY <1>4, <2>1 DEF Console!Effects, EffectSet
<1>. QED
    BY <1>2, <1>3, <1>4 DEF Console!Execute

LEMMA CompleteKeeps ==
    ASSUME ConsoleInv, NEW r \in Req, Console!CompleteAuditDBQuery(r)
    PROVE  ConsoleInv'
<1>1. req[r].pc = "complete" /\ UNCHANGED <<account, sess, closer, effect>>
    BY DEF Console!CompleteAuditDBQuery, Console!At
<1>. DEFINE verdict == IF req[r].ok THEN "success" ELSE "error"
<1>2. ASSUME Console!Goto(r, "finish"), aud' = [aud EXCEPT ![r].query = verdict]
      PROVE  ConsoleInv'
    <2>. DEFINE a == [aud[r] EXCEPT !.query = verdict]
    <2>1. verdict \in {"success", "error"} /\ (verdict = "success" <=> req[r].ok)
        BY RequestOf DEF Request
    <2>2. req' = [req EXCEPT ![r] = [req[r] EXCEPT !.pc = "finish"]] /\ "finish" \in PCs
          /\ aud' = [aud EXCEPT ![r] = a]
        BY <1>2 DEF Console!Goto, PCs
    <2>. HIDE DEF verdict
    <2>3. a \in AuditRows /\ a.file = aud[r].file /\ a.session = aud[r].session /\ a.query = verdict
        BY <2>1, RequestOf DEF AuditRows
    <2>. HIDE DEF a
    <2>4. \A q \in Request : q.pc = "finish" /\ q.stmt = req[r].stmt /\ q.confirm = req[r].confirm
                             /\ q.rights = req[r].rights /\ q.ok = req[r].ok
                             => Accounted(q, a, effect[r])
        BY <1>1, <2>1, <2>3, RequestOf DEF Accounted, Judged, Permitted, Filed, Entered, Ran
    <2>. QED
        BY <1>1, <2>2, <2>3, <2>4, RequestOf, GotoKeeps
<1>3. ASSUME Console!Reply(r, FALSE), NEW session_ \in {"failed", "active"},
             aud' = [aud EXCEPT ![r].session = session_]
      PROVE  ConsoleInv'
    <2>. DEFINE a == [aud[r] EXCEPT !.session = session_]
    <2>1. a \in AuditRows /\ a.session = session_ /\ a.query = aud[r].query /\ a.file = aud[r].file
        BY RequestOf DEF AuditRows
    <2>2. aud' = [aud EXCEPT ![r] = a]
        BY <1>3
    <2>. HIDE DEF a
    <2>3. effect[r] # "none" => aud[r].file
        BY RequestOf DEF Accounted
    <2>. QED
        BY <1>1, <1>3, <2>1, <2>2, <2>3, RequestOf, ReplyKeeps
<1>. QED
    BY <1>2, <1>3 DEF Console!CompleteAuditDBQuery

LEMMA FinishKeeps ==
    ASSUME ConsoleInv, NEW r \in Req, Console!FinishAuditSession(r)
    PROVE  ConsoleInv'
<1>1. req[r].pc = "finish" /\ UNCHANGED <<account, sess, closer, effect>>
    BY DEF Console!FinishAuditSession, Console!At
<1>. DEFINE verdict == IF req[r].ok THEN "succeeded" ELSE "failed"
<1>2. ASSUME Console!Goto(r, "replied"), aud' = [aud EXCEPT ![r].session = verdict]
      PROVE  ConsoleInv'
    <2>. DEFINE a == [aud[r] EXCEPT !.session = verdict]
    <2>1. verdict \in {"succeeded", "failed"} /\ (verdict = "succeeded" <=> req[r].ok)
        BY RequestOf DEF Request
    <2>2. req' = [req EXCEPT ![r] = [req[r] EXCEPT !.pc = "replied"]] /\ "replied" \in PCs
          /\ aud' = [aud EXCEPT ![r] = a]
        BY <1>2 DEF Console!Goto, PCs
    <2>. HIDE DEF verdict
    <2>3. a \in AuditRows /\ a.file = aud[r].file /\ a.session = verdict /\ a.query = aud[r].query
        BY <2>1, RequestOf DEF AuditRows
    <2>. HIDE DEF a
    <2>4. \A q \in Request : q.pc = "replied" /\ q.stmt = req[r].stmt /\ q.confirm = req[r].confirm
                             /\ q.rights = req[r].rights /\ q.ok = req[r].ok
                             => Accounted(q, a, effect[r])
        BY <1>1, <2>1, <2>3, RequestOf DEF Accounted, Judged, Permitted, Filed, Entered, Ran
    <2>. QED
        BY <1>1, <2>2, <2>3, <2>4, RequestOf, GotoKeeps
<1>3. ASSUME Console!Reply(r, FALSE), aud' = aud
      PROVE  ConsoleInv'
    <2>1. aud' = [aud EXCEPT ![r] = aud[r]]
        BY <1>3 DEF ConsoleInv, ConsoleTyped
    <2>2. aud[r].session # "succeeded" /\ (effect[r] # "none" => aud[r].file)
        BY <1>1, RequestOf DEF Accounted
    <2>. QED
        BY <1>1, <1>3, <2>1, <2>2, RequestOf, ReplyKeeps
<1>. QED
    BY <1>2, <1>3 DEF Console!FinishAuditSession

-----------------------------------------------------------------------------
LEMMA ConsoleInitial == Console!Init => ConsoleInv
<1>. SUFFICES ASSUME Console!Init
              PROVE  ConsoleInv
    OBVIOUS
<1>1. "idle" \in PCs /\ {} \in Rights
    BY DEF PCs, Rights
<1>2. Console!NoReq \in Request /\ Console!NoReq.pc = "idle" /\ ~Console!NoReq.ok
    BY <1>1 DEF Console!NoReq, Request
<1>3. /\ Console!NoAudit \in AuditRows /\ Console!NoAudit.query = "none"
      /\ Console!NoAudit.session = "none"
    BY DEF Console!NoAudit, AuditRows
<1>4. Accounted(Console!NoReq, Console!NoAudit, "none")
    BY <1>2, <1>3 DEF Accounted, Judged, Permitted, Filed, Entered, Ran
<1>5. /\ req = [r \in Req |-> Console!NoReq] /\ aud = [r \in Req |-> Console!NoAudit]
      /\ effect = [r \in Req |-> "none"]
    BY DEF Console!Init
<1>6. account \in [usable : BOOLEAN, rights : Rights]
    BY DEF Console!Init, Rights
<1>7. sess \in Session /\ closer \in BOOLEAN /\ SessionHeld
    BY DEF Console!Init, Session, SessionHeld
<1>8. "none" \in EffectSet
    BY DEF EffectSet
<1>9. ConsoleTyped
    BY <1>2, <1>3, <1>5, <1>6, <1>7, <1>8 DEF ConsoleTyped
<1>. QED
    BY <1>4, <1>5, <1>7, <1>9 DEF ConsoleInv

LEMMA ConsoleStep == ConsoleInv /\ [RelayNext \/ ConsoleNext]_all => ConsoleInv'
<1>. SUFFICES ASSUME ConsoleInv, [RelayNext \/ ConsoleNext]_all
              PROVE  ConsoleInv'
    OBVIOUS
<1>1. CASE UNCHANGED consoleVars
    BY <1>1 DEF consoleVars, ConsoleInv, ConsoleTyped, SessionHeld
<1>2. CASE Console!Next
    <2>1. CASE \/ Console!Connect \/ Console!CreateSession \/ Console!CloseSession
               \/ Console!IdleTimePasses \/ Console!TimerFires \/ Console!ExpireSession
               \/ Console!CloseConnection \/ Console!Metadata
        BY <2>1, SessionStepKeeps
    <2>2. CASE Console!Withdraw
        BY <2>2, WithdrawKeeps
    <2>3. ASSUME NEW r \in Req,
                 \/ \E stmt \in Console!Statements, confirm \in BOOLEAN :
                       Console!SessionForActor(r, stmt, confirm)
                 \/ Console!Authorize(r) \/ Console!LoadSQLConsoleAccount(r)
                 \/ Console!WriteSQLConsoleAuditArtifact(r) \/ Console!CreateAuditSession(r)
                 \/ Console!CreateAuditDBQuery(r) \/ Console!Lock(r) \/ Console!Execute(r)
                 \/ Console!CompleteAuditDBQuery(r) \/ Console!FinishAuditSession(r)
          PROVE  ConsoleInv'
        BY <2>3, SessionForActorKeeps, AuthorizeKeeps, LoadKeeps, WriteArtifactKeeps,
           CreateAuditSessionKeeps, CreateAuditDBQueryKeeps, LockKeeps, ExecuteKeeps,
           CompleteKeeps, FinishKeeps DEF Console!Statements
    <2>. QED
        BY <1>2, <2>1, <2>2, <2>3 DEF Console!Next
<1>. QED
    BY <1>1, <1>2 DEF RelayNext, ConsoleNext, all

(* SQLConsoleService.Execute, querySQLConsole, CloseSession: in every      *)
(* interleaving of statements, expiries, closes, withdrawn rights and      *)
(* failing audit writes, data changes only for a user who had the right    *)
(* and confirmed, with its row and its complete text; no success is filed  *)
(* or reported that the database did not have; and an open connection is   *)
(* always on its way to be closed.                                         *)
THEOREM ConsoleCorrect == MCSpec => []ConsoleAccounted
<1>1. MCInit => ConsoleInv
    BY ConsoleInitial DEF MCInit
<1>2. ConsoleInv => ConsoleAccounted
    <2>. SUFFICES ASSUME ConsoleInv
                  PROVE  Console!ConsoleAccounted
        BY DEF ConsoleAccounted
    <2>1. Console!ChangesAreAccounted
        BY RequestOf DEF Console!ChangesAreAccounted, Accounted
    <2>2. Console!RecordedSuccessIsReal
        BY RequestOf DEF Console!RecordedSuccessIsReal, Console!At, Accounted
    <2>3. Console!ConnectionsReleased
        BY DEF Console!ConnectionsReleased, ConsoleInv, SessionHeld
    <2>. QED
        BY <2>1, <2>2, <2>3 DEF Console!ConsoleAccounted
<1>. QED
    BY <1>1, <1>2, ConsoleStep, PTL DEF MCSpec

-----------------------------------------------------------------------------
(* The relay: the drain timer                                              *)

Fields ==
    /\ reader = [pc |-> reader.pc, data |-> reader.data, failed |-> reader.failed]
    /\ writer = [pc |-> writer.pc, data |-> writer.data, failed |-> writer.failed]
    /\ main = [pc |-> main.pc, path |-> main.path, result |-> main.result]
    /\ relay = [drainClient |-> relay.drainClient, terminal |-> relay.terminal,
                clientWriteMu |-> relay.clientWriteMu]

(* A result of the client's side is sent by the last step of its goroutine. *)
Reported ==
    /\ results \in Seq(Results) /\ main.result \in Results
    /\ \A i \in 1..Len(results) : results[i].side = "client" => reader.pc = "done"
    /\ main.pc \in {"create", "record", "register"} => reader.pc = "off"

(* While the coordinator drains, nobody but the writer empties the queue,  *)
(* and the writer does not wait for the upstream with nothing owed.        *)
Draining ==
    /\ main.pc \in {"store", "pending?"} => reader.pc = "done"
    /\ main.pc = "pending?" => relay.drainClient
    /\ main.pc = "second" /\ main.path = "drain" =>
          /\ reader.pc = "done" /\ relay.drainClient
          /\ writer.pc = "read" => observer.pending # <<>>

DrainInv == Fields /\ Reported /\ Draining

LEMMA AppendResult ==
    ASSUME results \in Seq(Results), NEW x \in Results, results' = Append(results, x),
           \A i \in 1..Len(results) : results[i].side = "client" => reader.pc = "done",
           reader.pc = "done" => reader'.pc = "done",
           x.side = "client" => reader'.pc = "done"
    PROVE  /\ results' \in Seq(Results)
           /\ \A i \in 1..Len(results') : results'[i].side = "client" => reader'.pc = "done"
<1>1. /\ results' \in Seq(Results) /\ Len(results') = Len(results) + 1
      /\ \A i \in 1..Len(results) : results'[i] = results[i]
      /\ results'[Len(results) + 1] = x
    OBVIOUS
<1>2. Len(results) \in Nat
    OBVIOUS
<1>3. \A i \in 1..(Len(results) + 1) : i \in 1..Len(results) \/ i = Len(results) + 1
    BY <1>2
<1>. QED
    BY <1>1, <1>3

LEMMA TailOfResults ==
    ASSUME results \in Seq(Results), results # <<>>, results' = Tail(results), UNCHANGED reader,
           \A i \in 1..Len(results) : results[i].side = "client" => reader.pc = "done"
    PROVE  /\ results' \in Seq(Results)
           /\ \A i \in 1..Len(results') : results'[i].side = "client" => reader'.pc = "done"
           /\ Head(results) \in Results
           /\ Head(results).side = "client" => reader.pc = "done"
<1>1. /\ results' \in Seq(Results) /\ Len(results') = Len(results) - 1
      /\ \A i \in 1..Len(results') : results'[i] = results[i + 1]
      /\ Len(results) \in Nat \ {0}
      /\ Head(results) = results[1] /\ Head(results) \in Results
    OBVIOUS
<1>2. \A i \in 1..(Len(results) - 1) : i + 1 \in 1..Len(results)
    BY <1>1
<1>. QED
    BY <1>1, <1>2

LEMMA ReaderDrains ==
    ASSUME DrainInv, Reader
    PROVE  DrainInv' /\ main' = main
<1>1. UNCHANGED <<main, relay, writer>>
    BY DEF Reader, ClientRead, ClientObserve, ClientObserveFails, ClientForward, peers
<1>2. reader.pc \in {"read", "observe", "forward"}
    BY DEF Reader, ClientRead, ClientObserve, ClientObserveFails, ClientForward
<1>3. reader' = [pc |-> reader'.pc, data |-> reader'.data, failed |-> reader'.failed]
    BY DEF DrainInv, Fields, Reader, ClientRead, ClientObserve, ClientObserveFails, ClientForward,
           ReaderEnds
<1>4. \/ UNCHANGED results
      \/ \E err \in Errors : ReaderEnds(err)
    BY DEF Reader, ClientRead, ClientObserve, ClientObserveFails, ClientForward, Errors
<1>5. Reported'
    <2>1. CASE UNCHANGED results
        BY <1>1, <1>2, <2>1 DEF DrainInv, Reported
    <2>2. ASSUME NEW err \in Errors, ReaderEnds(err)
          PROVE  Reported'
        <3>1. [side |-> "client", err |-> err] \in Results
            BY DEF Results
        <3>2. reader'.pc = "done"
            BY <2>2 DEF ReaderEnds, DrainInv, Fields
        <3>3. main'.pc \notin {"create", "record", "register"}
            BY <1>1, <1>2 DEF DrainInv, Reported
        <3>. DEFINE x == [side |-> "client", err |-> err]
        <3>4. results' = Append(results, x) /\ x \in Results
            BY <2>2, <3>1 DEF ReaderEnds
        <3>. HIDE DEF x
        <3>. QED
            BY <1>1, <3>2, <3>3, <3>4, AppendResult DEF DrainInv, Reported
    <2>. QED
        BY <1>4, <2>1, <2>2
<1>. QED
    BY <1>1, <1>2, <1>3, <1>5 DEF DrainInv, Fields, Draining

LEMMA WriterDrains ==
    ASSUME DrainInv, Writer
    PROVE  DrainInv' /\ main' = main
<1>1. UNCHANGED <<main, reader>>
    BY DEF Writer, ServerRead, ServerObserve, ServerObserveFails, ArmDrainWriteDeadline,
           LockClientWrite, ServerWrite, CheckDrained, CheckPending
<1>2. writer' = [pc |-> writer'.pc, data |-> writer'.data, failed |-> writer'.failed]
    BY DEF DrainInv, Fields, Writer, ServerRead, ServerObserve, ServerObserveFails,
           ArmDrainWriteDeadline, LockClientWrite, ServerWrite, CheckDrained, CheckPending, WriterEnds
<1>3. /\ relay' = [drainClient |-> relay'.drainClient, terminal |-> relay'.terminal,
                   clientWriteMu |-> relay'.clientWriteMu]
      /\ relay'.drainClient = relay.drainClient
    BY DEF DrainInv, Fields, Writer, ServerRead, ServerObserve, ServerObserveFails,
           ArmDrainWriteDeadline, LockClientWrite, ServerWrite, CheckDrained, CheckPending
<1>4. \/ UNCHANGED results
      \/ \E err \in Errors : WriterEnds(err)
    BY DEF Writer, ServerRead, ServerObserve, ServerObserveFails, ArmDrainWriteDeadline,
           LockClientWrite, ServerWrite, CheckDrained, CheckPending, Errors
<1>5. Reported'
    <2>1. CASE UNCHANGED results
        BY <1>1, <2>1 DEF DrainInv, Reported
    <2>2. ASSUME NEW err \in Errors, WriterEnds(err)
          PROVE  Reported'
        <3>. DEFINE x == [side |-> "server", err |-> err]
        <3>1. results' = Append(results, x) /\ x \in Results /\ x.side # "client"
            BY <2>2 DEF WriterEnds, Results
        <3>. HIDE DEF x
        <3>. QED
            BY <1>1, <3>1, AppendResult DEF DrainInv, Reported
    <2>. QED
        BY <1>4, <2>1, <2>2
<1>6. relay.drainClient /\ writer'.pc = "read" => observer.pending # <<>> /\ observer' = observer
    <2>0. /\ writer = [pc |-> writer.pc, data |-> writer.data, failed |-> writer.failed]
          /\ \A e : WriterEnds(e) => writer'.pc = "done"
        BY DEF DrainInv, Fields, WriterEnds
    <2>1. CASE ServerRead \/ ServerObserveFails \/ ArmDrainWriteDeadline \/ LockClientWrite
        <3>1. writer'.pc \in {"observe", "done", "lock", "drained?", "write"}
            <4>1. CASE ServerRead
                BY <2>0, <4>1 DEF ServerRead
            <4>2. CASE ServerObserveFails
                BY <2>0, <4>2 DEF ServerObserveFails
            <4>3. CASE ArmDrainWriteDeadline
                BY <2>0, <4>3 DEF ArmDrainWriteDeadline
            <4>4. CASE LockClientWrite
                BY <2>0, <4>4 DEF LockClientWrite
            <4>. QED
                BY <2>1, <4>1, <4>2, <4>3, <4>4
        <3>. QED
            BY <3>1
    <2>2. CASE ServerObserve
        BY <2>2 DEF DrainInv, Fields, ServerObserve
    <2>3. CASE ServerWrite
        <3>1. writer'.pc \in {"drained?", "done"}
            BY <2>0, <2>3 DEF ServerWrite
        <3>. QED
            BY <3>1
    <2>4. CASE CheckDrained
        BY <2>4 DEF DrainInv, Fields, CheckDrained
    <2>5. CASE CheckPending
        BY <2>5 DEF DrainInv, Fields, CheckPending, WriterEnds
    <2>. QED
        BY <2>1, <2>2, <2>3, <2>4, <2>5 DEF Writer
<1>. QED
    BY <1>1, <1>2, <1>3, <1>5, <1>6 DEF DrainInv, Fields, Draining

(* The coordinator's steps; only the timer ends a drain as a timeout.      *)
LEMMA MainDrains ==
    ASSUME DrainInv, Main
    PROVE  /\ DrainInv'
           /\ main.path = "drain" /\ main'.path = "timeout"
                 => main.pc = "second" /\ (observer.pending # <<>> \/ writer.pc # "read")
<1>1. /\ reader = [pc |-> reader.pc, data |-> reader.data, failed |-> reader.failed]
      /\ writer = [pc |-> writer.pc, data |-> writer.data, failed |-> writer.failed]
      /\ main = [pc |-> main.pc, path |-> main.path, result |-> main.result]
      /\ relay = [drainClient |-> relay.drainClient, terminal |-> relay.terminal,
                  clientWriteMu |-> relay.clientWriteMu]
      /\ Reported /\ Draining
    BY DEF DrainInv, Fields
<1>2. \A p : Goto(p) => main' = [pc |-> p, path |-> main.path, result |-> main.result]
    BY <1>1 DEF Goto
<1>3. CASE CreateAuditSession \/ NewRecorder
    <2>1. UNCHANGED <<reader, writer, relay, results>>
        BY <1>3 DEF CreateAuditSession, NewRecorder
    <2>2. PICK p \in {"record", "returned", "register", "end"} : Goto(p)
        BY <1>3 DEF CreateAuditSession, NewRecorder
    <2>3. main.pc \in {"create", "record"}
        BY <1>3 DEF CreateAuditSession, NewRecorder
    <2>4. main' = [pc |-> p, path |-> main.path, result |-> main.result]
        BY <1>2, <2>2
    <2>5. main'.pc = p /\ main'.path = main.path /\ main'.result = main.result
        BY <2>4
    <2>6. Reported' /\ Draining'
        BY <1>1, <2>1, <2>2, <2>3, <2>5 DEF Reported, Draining
    <2>. QED
        BY <1>1, <2>1, <2>4, <2>5, <2>6 DEF DrainInv, Fields
<1>4. CASE StartRelay
    <2>1. /\ main' = [pc |-> "first", path |-> main.path, result |-> main.result]
          /\ reader' = [pc |-> "read", data |-> reader.data, failed |-> reader.failed]
          /\ writer' = [pc |-> "read", data |-> writer.data, failed |-> writer.failed]
          /\ main.pc = "register" /\ UNCHANGED <<relay, results>>
        BY <1>1, <1>2, <1>4 DEF StartRelay
    <2>2. reader.pc = "off" /\ \A i \in 1..Len(results) : results[i].side # "client"
        BY <1>1, <2>1 DEF Reported
    <2>3. Reported' /\ Draining'
        BY <1>1, <2>1, <2>2 DEF Reported, Draining
    <2>. QED
        BY <1>1, <2>1, <2>3 DEF DrainInv, Fields
<1>5. CASE FirstResult
    <2>. DEFINE p == IF Head(results) = [side |-> "client", err |-> "eof"]
                     THEN "store" ELSE "terminate"
    <2>1. /\ results' \in Seq(Results)
          /\ \A i \in 1..Len(results') : results'[i].side = "client" => reader'.pc = "done"
          /\ Head(results) \in Results
          /\ Head(results).side = "client" => reader.pc = "done"
        BY <1>1, <1>5, TailOfResults DEF FirstResult, Reported
    <2>2. p \in {"store", "terminate"} /\ (p = "store" => reader.pc = "done")
        BY <2>1
    <2>3. /\ main' = [pc |-> p, path |-> main.path, result |-> Head(results)]
          /\ UNCHANGED <<reader, writer, relay, observer>>
        BY <1>1, <1>5 DEF FirstResult
    <2>. HIDE DEF p
    <2>4. main'.pc = p /\ main'.path = main.path /\ main'.result = Head(results)
        BY <2>3
    <2>5. Reported' /\ Draining'
        BY <1>1, <2>1, <2>2, <2>3, <2>4 DEF Reported, Draining
    <2>. QED
        BY <1>1, <2>3, <2>4, <2>5 DEF DrainInv, Fields
<1>6. CASE StoreDrainClient
    <2>1. /\ main' = [pc |-> "pending?", path |-> main.path, result |-> main.result]
          /\ relay' = [drainClient |-> TRUE, terminal |-> relay.terminal,
                       clientWriteMu |-> relay.clientWriteMu]
          /\ main.pc = "store" /\ UNCHANGED <<reader, writer, results, observer>>
        BY <1>1, <1>2, <1>6 DEF StoreDrainClient
    <2>2. Reported' /\ Draining'
        BY <1>1, <2>1 DEF Reported, Draining
    <2>. QED
        BY <1>1, <2>1, <2>2 DEF DrainInv, Fields
<1>7. CASE DrainPending
    BY <1>1, <1>7 DEF DrainPending, DrainInv, Fields, Reported, Draining
<1>8. CASE SecondResult
    <2>1. Reported'
        BY <1>1, <1>8, TailOfResults DEF SecondResult, Reported
    <2>. QED
        BY <1>1, <1>8, <2>1 DEF SecondResult, DrainInv, Fields, Draining
<1>9. CASE DrainTimeout
    BY <1>1, <1>9 DEF DrainTimeout, DrainInv, Fields, Reported, Draining
<1>10. CASE \/ HandleRelayTermination \/ TerminationHasPending \/ AbortIfPending \/ Abort
            \/ LockForError \/ WriteError \/ Close \/ Unregister \/ EndAuditSession
    <2>1. UNCHANGED <<reader, writer, results>> /\ relay'.drainClient = relay.drainClient
          /\ relay' = [drainClient |-> relay'.drainClient, terminal |-> relay'.terminal,
                       clientWriteMu |-> relay'.clientWriteMu]
        BY <1>1, <1>10 DEF HandleRelayTermination, TerminationHasPending, AbortIfPending, Abort,
            LockForError, WriteError, Close, Unregister, EndAuditSession
    <2>2. main.pc \in {"terminate", "hasPending", "abort?", "abort", "lockClient", "writeError",
                       "close", "unregister", "end"}
        BY <1>10 DEF HandleRelayTermination, TerminationHasPending, AbortIfPending, Abort,
            LockForError, WriteError, Close, Unregister, EndAuditSession
    <2>3. PICK p \in {"abort?", "lockClient", "close", "hasPending", "abort", "unregister",
                      "writeError", "await", "end", "returned"} : Goto(p)
        <3>0. AfterAbort \in {"unregister", "lockClient"}
            BY DEF AfterAbort
        <3>1. CASE HandleRelayTermination
            <4>1. main.result.err \in {"eof", "io", "decision", "panic", "drained"}
                BY <1>1 DEF Reported, Results, Errors
            <4>. QED
                BY <3>1, <4>1 DEF HandleRelayTermination
        <3>. QED
            BY <1>10, <3>0, <3>1 DEF TerminationHasPending, AbortIfPending, Abort,
                LockForError, WriteError, Close, Unregister, EndAuditSession
    <2>. QED
        BY <1>1, <1>2, <2>1, <2>2, <2>3 DEF DrainInv, Fields, Reported, Draining
<1>11. CASE AwaitOther
    <2>1. Reported'
        BY <1>1, <1>11, TailOfResults DEF AwaitOther, Reported
    <2>. QED
        BY <1>1, <1>11, <2>1 DEF AwaitOther, DrainInv, Fields, Draining
<1>. QED
    BY <1>3, <1>4, <1>5, <1>6, <1>7, <1>8, <1>9, <1>10, <1>11 DEF Main

LEMMA DrainStep ==
    ASSUME DrainInv, [Next]_vars
    PROVE  /\ DrainInv'
           /\ main.path = "drain" /\ main'.path = "timeout"
                 => main.pc = "second" /\ (observer.pending # <<>> \/ writer.pc # "read")
<1>1. CASE Peers \/ UNCHANGED vars
    <2>1. UNCHANGED <<relay, observer, reader, writer, main, results>>
        BY <1>1 DEF Peers, ClientSends, ClientCloses, ServerAnswers, ServerCloses, Disconnect, vars
    <2>. QED
        BY <2>1 DEF DrainInv, Fields, Reported, Draining
<1>2. CASE Reader
    BY <1>2, ReaderDrains
<1>3. CASE Writer
    BY <1>3, WriterDrains
<1>. QED
    BY <1>1, <1>2, <1>3, MainDrains DEF Next

(* Until the coordinator has read it, the writer's result is in the        *)
(* channel.                                                                *)
FromServer == \E i \in 1..Len(results) : results[i].side = "server"
Heard ==
    main.pc \in {"first", "store", "pending?", "second"} /\ writer.pc = "done" => FromServer

LEMMA AppendKeeps ==
    ASSUME results \in Seq(Results), NEW x \in Results, results' = Append(results, x),
           FromServer \/ x.side = "server"
    PROVE  FromServer'
<1>1. /\ Len(results') = Len(results) + 1 /\ Len(results) \in Nat
      /\ \A i \in 1..Len(results) : results'[i] = results[i]
      /\ results'[Len(results) + 1] = x
    OBVIOUS
<1>2. CASE FromServer
    <2>1. PICK i \in 1..Len(results) : results[i].side = "server"
        BY <1>2 DEF FromServer
    <2>2. i \in 1..Len(results') /\ results'[i].side = "server"
        BY <1>1, <2>1
    <2>. QED
        BY <2>2 DEF FromServer
<1>3. CASE x.side = "server"
    <2>1. Len(results) + 1 \in 1..Len(results')
        BY <1>1
    <2>. QED
        BY <1>1, <1>3, <2>1 DEF FromServer
<1>. QED
    BY <1>2, <1>3

LEMMA TailKeeps ==
    ASSUME results \in Seq(Results), results # <<>>, results' = Tail(results),
           FromServer, Head(results).side = "client"
    PROVE  FromServer'
<1>1. /\ Len(results') = Len(results) - 1 /\ Len(results) \in Nat \ {0}
      /\ \A i \in 1..Len(results') : results'[i] = results[i + 1]
      /\ Head(results) = results[1]
    OBVIOUS
<1>2. PICK i \in 1..Len(results) : results[i].side = "server"
    BY DEF FromServer
<1>3. i # 1
    BY <1>1, <1>2
<1>4. i - 1 \in 1..Len(results') /\ (i - 1) + 1 = i
    BY <1>1, <1>2, <1>3
<1>. QED
    BY <1>1, <1>2, <1>4 DEF FromServer

LEMMA HeardStep ==
    ASSUME DrainInv, Heard, [Next]_vars
    PROVE  Heard'
<1>1. /\ results \in Seq(Results)
      /\ main = [pc |-> main.pc, path |-> main.path, result |-> main.result]
      /\ writer = [pc |-> writer.pc, data |-> writer.data, failed |-> writer.failed]
    BY DEF DrainInv, Fields, Reported
<1>2. CASE Peers \/ UNCHANGED vars
    <2>1. UNCHANGED <<writer, main, results>>
        BY <1>2 DEF Peers, ClientSends, ClientCloses, ServerAnswers, ServerCloses, Disconnect, vars
    <2>. QED
        BY <2>1 DEF Heard, FromServer
<1>3. CASE Reader
    <2>1. UNCHANGED <<main, writer>>
        BY <1>3 DEF Reader, ClientRead, ClientObserve, ClientObserveFails, ClientForward, peers
    <2>2. \/ UNCHANGED results
          \/ \E err \in Errors : ReaderEnds(err)
        BY <1>3 DEF Reader, ClientRead, ClientObserve, ClientObserveFails, ClientForward, Errors
    <2>3. CASE UNCHANGED results
        BY <2>1, <2>3 DEF Heard, FromServer
    <2>4. ASSUME NEW err \in Errors, ReaderEnds(err)
          PROVE  FromServer => FromServer'
        <3>. DEFINE x == [side |-> "client", err |-> err]
        <3>1. results' = Append(results, x) /\ x \in Results
            BY <2>4 DEF ReaderEnds, Results
        <3>. HIDE DEF x
        <3>. QED
            BY <1>1, <3>1, AppendKeeps
    <2>. QED
        BY <2>1, <2>2, <2>3, <2>4 DEF Heard
<1>4. CASE Writer
    <2>1. main' = main
        BY <1>4, WriterDrains
    <2>2. \/ UNCHANGED results /\ writer'.pc # "done"
          \/ \E err \in Errors : WriterEnds(err)
        <3>1. CASE ServerRead
            BY <1>1, <3>1 DEF ServerRead, Errors
        <3>2. CASE ServerObserve
            BY <1>1, <3>2 DEF ServerObserve
        <3>3. CASE ServerObserveFails
            BY <3>3 DEF ServerObserveFails, Errors
        <3>4. CASE ArmDrainWriteDeadline
            BY <1>1, <3>4 DEF ArmDrainWriteDeadline, Errors
        <3>5. CASE LockClientWrite
            BY <1>1, <3>5 DEF LockClientWrite, Errors
        <3>6. CASE ServerWrite
            BY <1>1, <3>6 DEF ServerWrite, Errors
        <3>7. CASE CheckDrained \/ CheckPending
            BY <1>1, <3>7 DEF CheckDrained, CheckPending, Errors
        <3>. QED
            BY <1>4, <3>1, <3>2, <3>3, <3>4, <3>5, <3>6, <3>7 DEF Writer
    <2>3. ASSUME NEW err \in Errors, WriterEnds(err)
          PROVE  FromServer'
        <3>. DEFINE x == [side |-> "server", err |-> err]
        <3>1. results' = Append(results, x) /\ x \in Results /\ x.side = "server"
            BY <2>3 DEF WriterEnds, Results
        <3>. HIDE DEF x
        <3>. QED
            BY <1>1, <3>1, AppendKeeps
    <2>. QED
        BY <2>1, <2>2, <2>3 DEF Heard
<1>5. CASE FirstResult
    <2>1. writer' = writer /\ results # <<>> /\ results' = Tail(results) /\ main.pc = "first"
        BY <1>5 DEF FirstResult
    <2>2. main'.pc = IF Head(results) = [side |-> "client", err |-> "eof"]
                     THEN "store" ELSE "terminate"
        BY <1>1, <1>5 DEF FirstResult
    <2>3. CASE Head(results).side = "client"
        BY <1>1, <2>1, <2>2, <2>3, TailKeeps DEF Heard
    <2>4. CASE Head(results).side # "client"
        BY <2>2, <2>4 DEF Heard
    <2>. QED
        BY <2>3, <2>4
<1>6. CASE StartRelay
    <2>1. writer'.pc = "read"
        BY <1>1, <1>6 DEF StartRelay
    <2>. QED
        BY <2>1 DEF Heard
<1>7. CASE StoreDrainClient \/ DrainPending
    <2>1. UNCHANGED <<writer, results>> /\ main.pc \in {"store", "pending?"}
        BY <1>7 DEF StoreDrainClient, DrainPending
    <2>. QED
        BY <2>1 DEF Heard, FromServer
<1>8. CASE SecondResult \/ DrainTimeout \/ AwaitOther
    <2>1. main'.pc \in {"terminate", "abort?", "unregister"}
        BY <1>1, <1>8 DEF SecondResult, DrainTimeout, AwaitOther
    <2>. QED
        BY <2>1 DEF Heard
<1>9. CASE CreateAuditSession \/ NewRecorder
    <2>1. main'.pc \in {"record", "returned", "register", "end"}
        BY <1>1, <1>9 DEF CreateAuditSession, NewRecorder, Goto
    <2>. QED
        BY <2>1 DEF Heard
<1>10. CASE \/ HandleRelayTermination \/ TerminationHasPending \/ AbortIfPending \/ Abort
            \/ LockForError \/ WriteError \/ Close \/ Unregister \/ EndAuditSession
    <2>1. main'.pc \in {"abort?", "lockClient", "close", "hasPending", "abort", "unregister",
                        "writeError", "await", "end", "returned"}
        <3>0. AfterAbort \in {"unregister", "lockClient"}
            BY DEF AfterAbort
        <3>1. CASE HandleRelayTermination
            <4>1. main.result.err \in {"eof", "io", "decision", "panic", "drained"}
                BY DEF DrainInv, Reported, Results, Errors
            <4>. QED
                BY <1>1, <3>1, <4>1 DEF HandleRelayTermination, Goto
        <3>. QED
            BY <1>1, <1>10, <3>0, <3>1 DEF TerminationHasPending, AbortIfPending, Abort,
                LockForError, WriteError, Close, Unregister, EndAuditSession, Goto
    <2>. QED
        BY <2>1 DEF Heard
<1>. QED
    BY <1>2, <1>3, <1>4, <1>5, <1>6, <1>7, <1>8, <1>9, <1>10 DEF Next, Main

(* relayGatewayConnectionWithDrainTimeout, runUpstreamToClient: whatever   *)
(* the number of commands and the limit on pending ones, when the drain    *)
(* timer fires an answer is pending, or the copy goroutine is past its     *)
(* read, or it has ended and its result lies in the channel.               *)
THEOREM DrainTimeoutCorrect == Spec => DrainNeverIdles
<1>1. Init => DrainInv /\ Heard
    BY DEF Init, DrainInv, Fields, Reported, Draining, NoResult, Results, Errors, Heard
<1>2. DrainInv /\ Heard /\ [Next]_vars => DrainInv' /\ Heard'
    BY DrainStep, HeardStep
<1>3. DrainInv /\ Heard /\ [Next]_vars =>
        [main.path = "drain" /\ main'.path = "timeout" =>
          \/ observer.pending # <<>>
          \/ writer.pc \notin {"read", "done"}
          \/ writer.pc = "done" /\ results # <<>>]_vars
    <2>. SUFFICES ASSUME DrainInv, Heard, [Next]_vars,
                         main.path = "drain", main'.path = "timeout"
                  PROVE  \/ observer.pending # <<>>
                         \/ writer.pc \notin {"read", "done"}
                         \/ writer.pc = "done" /\ results # <<>>
        OBVIOUS
    <2>1. main.pc = "second" /\ (observer.pending # <<>> \/ writer.pc # "read")
        BY DrainStep
    <2>2. results \in Seq(Results)
        BY DEF DrainInv, Reported
    <2>3. writer.pc = "done" => results # <<>>
        BY <2>1, <2>2 DEF Heard, FromServer
    <2>. QED
        BY <2>1, <2>3
<1>. QED
    BY <1>1, <1>2, <1>3, PTL DEF Spec, DrainNeverIdles
=============================================================================
