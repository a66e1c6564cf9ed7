----------------------------- MODULE SQLConsole -----------------------------
(***************************************************************************)
(* The browser's SQL console (internal/service/sql_console*.go): a session *)
(* keeps one database connection under a sliding idle deadline, and each   *)
(* statement is judged, authorized, entered in the audit, run under the    *)
(* connection's mutex, and its result entered in the audit.                *)
(*                                                                         *)
(* A statement is its class: "read" is what it says, "covert" is a         *)
(* WITH/EXPLAIN whose text passes as a query and which would change data,  *)
(* "write" an INSERT, UPDATE, DDL ..., "refused" anything                  *)
(* inspectSQLStatement does not take.                                      *)
(***************************************************************************)
EXTENDS Integers, FiniteSets

CONSTANTS Req,           \* execute requests
          Nobody,        \* no holder of the connection's mutex
          MaxFailures,   \* bound: failed writes of the metadata database
          MaxTouches     \* bound: times the idle deadline passes

VARIABLES account,    \* the database account: usable, and what the user may do with it
          sess,       \* the session: in the map, its connection, timer and deadline
          mutex,      \* databaseSQLConsoleConnection.mu
          closer,     \* a goroutine that deleted the session and now closes its connection
          req,        \* the requests
          aud,        \* per request: its audit session row, query row and query file
          effect,     \* per request: what the database really did
          failures, lapses

vars == <<account, sess, mutex, closer, req, aud, effect, failures, lapses>>

Statements == {"read", "covert", "write", "refused"}
NoReq == [pc |-> "idle", stmt |-> "read", confirm |-> FALSE, rights |-> {}, ok |-> FALSE]
NoAudit == [session |-> "none", query |-> "none", file |-> FALSE]

Init ==
  /\ account \in [usable : {TRUE}, rights : SUBSET {"query", "execute"}]
  /\ sess = [state |-> "none", conn |-> "none", armed |-> FALSE, fired |-> FALSE, due |-> FALSE]
  /\ mutex = Nobody /\ closer = FALSE
  /\ req = [r \in Req |-> NoReq]
  /\ aud = [r \in Req |-> NoAudit]
  /\ effect = [r \in Req |-> "none"]
  /\ failures = 0 /\ lapses = 0

Failure == failures < MaxFailures /\ failures' = failures + 1
NoFailure == UNCHANGED failures

-----------------------------------------------------------------------------
(* Sessions *)

(* CreateSession: authorize, load the account, connect ... *)
Connect ==
  /\ sess.state = "none"
  /\ "query" \in account.rights /\ account.usable
  /\ sess' = [sess EXCEPT !.state = "connecting", !.conn = "open"]
  /\ UNCHANGED <<account, mutex, closer, req, aud, effect, failures, lapses>>

(* ... and enter the session in the map with its idle timer. *)
CreateSession ==
  /\ sess.state = "connecting"
  /\ sess' = [sess EXCEPT !.state = "open", !.armed = TRUE]
  /\ UNCHANGED <<account, mutex, closer, req, aud, effect, failures, lapses>>

(* CloseSession by the user, or the service's Close: delete, stop the timer. *)
CloseSession ==
  /\ sess.state = "open"
  /\ sess' = [sess EXCEPT !.state = "gone", !.armed = FALSE, !.due = FALSE]
  /\ closer' = TRUE
  /\ UNCHANGED <<account, mutex, req, aud, effect, failures, lapses>>

(* The idle time to live goes by, and the timer starts expireSession. *)
IdleTimePasses ==
  /\ sess.state = "open" /\ ~sess.due /\ lapses < MaxTouches
  /\ sess' = [sess EXCEPT !.due = TRUE]
  /\ lapses' = lapses + 1
  /\ UNCHANGED <<account, mutex, closer, req, aud, effect, failures>>

TimerFires ==
  /\ sess.armed /\ sess.due
  /\ sess' = [sess EXCEPT !.armed = FALSE, !.fired = TRUE]
  /\ UNCHANGED <<account, mutex, closer, req, aud, effect, failures, lapses>>

(* expireSession: a session used since is given the rest of its time. *)
ExpireSession ==
  /\ sess.fired
  /\ \/ /\ sess.state = "open" /\ sess.due
        /\ sess' = [sess EXCEPT !.state = "gone", !.armed = FALSE, !.fired = FALSE, !.due = FALSE]
        /\ closer' = TRUE
     \/ /\ ~(sess.state = "open" /\ sess.due)
        /\ sess' = [sess EXCEPT !.fired = FALSE, !.armed = (sess.state = "open")]
        /\ UNCHANGED closer
  /\ UNCHANGED <<account, mutex, req, aud, effect, failures, lapses>>

(* databaseSQLConsoleConnection.Close waits for the statement in progress. *)
CloseConnection ==
  /\ closer /\ mutex = Nobody
  /\ closer' = FALSE
  /\ sess' = [sess EXCEPT !.conn = "closed"]
  /\ UNCHANGED <<account, mutex, req, aud, effect, failures, lapses>>

-----------------------------------------------------------------------------
(* One statement *)

(* inspectSQLStatement, by the statement's first keyword *)
ReadOnly(stmt) == stmt \in {"read", "covert"}
Action(stmt) == IF ReadOnly(stmt) THEN "query" ELSE "execute"

At(r, pc) == req[r].pc = pc
Goto(r, pc) == req' = [req EXCEPT ![r].pc = pc]
Reply(r, ok) == req' = [req EXCEPT ![r].pc = "replied", ![r].ok = ok]

(* sessionForActor finds the session and moves its deadline; then the text is *)
(* judged and a write needs the user's confirmation.                          *)
SessionForActor(r, stmt, confirm) ==
  /\ At(r, "idle")
  /\ sess.state = "open"
  /\ sess' = [sess EXCEPT !.due = FALSE, !.armed = TRUE]
  /\ req' = [req EXCEPT ![r] = [@ EXCEPT !.stmt = stmt, !.confirm = confirm,
       !.pc = IF stmt = "refused" \/ (~ReadOnly(stmt) /\ ~confirm) THEN "replied" ELSE "authorize"]]
  /\ UNCHANGED <<account, mutex, closer, aud, effect, failures, lapses>>

Authorize(r) ==
  /\ At(r, "authorize")
  /\ \/ /\ Action(req[r].stmt) \in account.rights
        /\ req' = [req EXCEPT ![r].pc = "load", ![r].rights = account.rights]
     \/ Action(req[r].stmt) \notin account.rights /\ Reply(r, FALSE)
  /\ UNCHANGED <<account, sess, mutex, closer, aud, effect, failures, lapses>>

LoadSQLConsoleAccount(r) ==
  /\ At(r, "load")
  /\ \/ account.usable /\ Goto(r, "file")
     \/ ~account.usable /\ Reply(r, FALSE)
  /\ UNCHANGED <<account, sess, mutex, closer, aud, effect, failures, lapses>>

(* The complete text, in the replay directory (which the gateway configures). *)
WriteSQLConsoleAuditArtifact(r) ==
  /\ At(r, "file")
  /\ \/ Goto(r, "session") /\ aud' = [aud EXCEPT ![r].file = TRUE] /\ NoFailure
     \/ Failure /\ Reply(r, FALSE) /\ UNCHANGED aud
  /\ UNCHANGED <<account, sess, mutex, closer, effect, lapses>>

CreateAuditSession(r) ==
  /\ At(r, "session")
  /\ \/ Goto(r, "query") /\ aud' = [aud EXCEPT ![r].session = "active"] /\ NoFailure
     \/ Failure /\ Reply(r, FALSE) /\ aud' = [aud EXCEPT ![r].file = FALSE]
  /\ UNCHANGED <<account, sess, mutex, closer, effect, lapses>>

(* A refused query row ends the session as failed, as far as that works. *)
CreateAuditDBQuery(r) ==
  /\ At(r, "query")
  /\ \/ Goto(r, "lock") /\ aud' = [aud EXCEPT ![r].query = "unknown"] /\ NoFailure
     \/ /\ Failure /\ Reply(r, FALSE)
        /\ \E session \in {"failed", "active"} :
             aud' = [aud EXCEPT ![r].file = FALSE, ![r].session = session]
  /\ UNCHANGED <<account, sess, mutex, closer, effect, lapses>>

Lock(r) ==
  /\ At(r, "lock") /\ mutex = Nobody
  /\ mutex' = r
  /\ Goto(r, "run")
  /\ UNCHANGED <<account, sess, closer, aud, effect, failures, lapses>>

(* What the database does: a query runs in a read-only transaction, which     *)
(* refuses to change data.                                                    *)
Effects(stmt) == CASE stmt = "read" -> {"read"}
                   [] stmt = "covert" -> {"none"}
                   [] stmt = "write" -> {"changed"}

(* The statement runs, or fails; a lost answer or a timeout reports a failure *)
(* of a statement that had its effect.                                        *)
Execute(r) ==
  /\ At(r, "run") /\ mutex = r
  /\ mutex' = Nobody
  /\ \/ /\ sess.conn = "open"
        /\ \E e \in Effects(req[r].stmt), ok \in BOOLEAN :
             /\ e = "none" => ~ok
             /\ effect' = [effect EXCEPT ![r] = e]
             /\ req' = [req EXCEPT ![r].pc = "complete", ![r].ok = ok]
     \/ req' = [req EXCEPT ![r].pc = "complete", ![r].ok = FALSE] /\ UNCHANGED effect
  /\ UNCHANGED <<account, sess, closer, aud, failures, lapses>>

(* Mutant: the outcome is entered as a success before the error is looked at. *)
MutantCompleteAuditDBQuery(r) ==
  /\ At(r, "complete")
  /\ \/ aud' = [aud EXCEPT ![r].query = "success"] /\ Goto(r, "finish") /\ NoFailure
     \/ Failure /\ Reply(r, FALSE) /\ aud' = [aud EXCEPT ![r].session = "failed"]
  /\ UNCHANGED <<account, sess, mutex, closer, effect, lapses>>

(* On a context the client cannot cancel. *)
CompleteAuditDBQuery(r) ==
  /\ At(r, "complete")
  /\ \/ /\ aud' = [aud EXCEPT ![r].query = IF req[r].ok THEN "success" ELSE "error"]
        /\ Goto(r, "finish") /\ NoFailure
     \/ /\ Failure /\ Reply(r, FALSE)
        /\ \E session \in {"failed", "active"} : aud' = [aud EXCEPT ![r].session = session]
  /\ UNCHANGED <<account, sess, mutex, closer, effect, lapses>>

FinishAuditSession(r) ==
  /\ At(r, "finish")
  /\ \/ /\ aud' = [aud EXCEPT ![r].session = IF req[r].ok THEN "succeeded" ELSE "failed"]
        /\ Goto(r, "replied") /\ NoFailure
     \/ Failure /\ Reply(r, FALSE) /\ UNCHANGED aud
  /\ UNCHANGED <<account, sess, mutex, closer, effect, lapses>>

(* Metadata goes the same way without an audit session of its own. *)
Metadata ==
  /\ sess.state = "open" /\ mutex = Nobody
  /\ "query" \in account.rights /\ account.usable
  /\ sess' = [sess EXCEPT !.due = FALSE, !.armed = TRUE]
  /\ UNCHANGED <<account, mutex, closer, req, aud, effect, failures, lapses>>

-----------------------------------------------------------------------------
(* The administrator withdraws a right, or disables the account. *)
Withdraw ==
  /\ \/ \E a \in account.rights : account' = [account EXCEPT !.rights = @ \ {a}]
     \/ account.usable /\ account' = [account EXCEPT !.usable = FALSE]
  /\ UNCHANGED <<sess, mutex, closer, req, aud, effect, failures, lapses>>

(* Session, requests and audit rows are of their types. *)
TypeOK ==
  /\ account \in [usable : BOOLEAN, rights : SUBSET {"query", "execute"}]
  /\ sess \in [state : {"none", "connecting", "open", "gone"}, conn : {"none", "open", "closed"},
               armed : BOOLEAN, fired : BOOLEAN, due : BOOLEAN]
  /\ mutex \in Req \cup {Nobody} /\ closer \in BOOLEAN
  /\ req \in [Req -> [pc : {"idle", "authorize", "load", "file", "session", "query", "lock", "run",
                            "complete", "finish", "replied"},
                      stmt : Statements, confirm : BOOLEAN, rights : SUBSET {"query", "execute"},
                      ok : BOOLEAN]]
  /\ aud \in [Req -> [session : {"none", "active", "failed", "succeeded"},
                      query : {"none", "unknown", "success", "error"}, file : BOOLEAN]]
  /\ effect \in [Req -> {"none", "read", "changed"}]
  /\ failures \in 0 .. MaxFailures /\ lapses \in 0 .. MaxTouches

Next ==
  \/ Connect \/ CreateSession \/ CloseSession \/ IdleTimePasses \/ TimerFires
  \/ ExpireSession \/ CloseConnection \/ Metadata \/ Withdraw
  \/ \E r \in Req :
       \/ \E stmt \in Statements, confirm \in BOOLEAN : SessionForActor(r, stmt, confirm)
       \/ Authorize(r) \/ LoadSQLConsoleAccount(r) \/ WriteSQLConsoleAuditArtifact(r)
       \/ CreateAuditSession(r) \/ CreateAuditDBQuery(r) \/ Lock(r) \/ Execute(r)
       \/ CompleteAuditDBQuery(r) \/ FinishAuditSession(r)

Spec == Init /\ [][Next]_vars

-----------------------------------------------------------------------------
(* Properties *)

(* Data changes only for a user who had the right to execute and confirmed   *)
(* the write, whatever the statement's text passed for; and what ran at all  *)
(* has its query row and its complete text, even when later audit writes     *)
(* fail (SQLConsoleService.Execute, querySQLConsole).                        *)
ChangesAreAccounted ==
  \A r \in Req :
    /\ effect[r] = "changed" => "execute" \in req[r].rights /\ req[r].confirm
    /\ effect[r] # "none" => aud[r].query # "none" /\ aud[r].file

(* The audit never says more than happened: a query row or session marked a  *)
(* success belongs to a statement whose success the executor reported, and   *)
(* the user is given a result only when both say so.                         *)
RecordedSuccessIsReal ==
  \A r \in Req :
    /\ aud[r].query = "success" => effect[r] # "none"
    /\ aud[r].session = "succeeded" => aud[r].query = "success"
    /\ At(r, "replied") /\ req[r].ok => aud[r].session = "succeeded"

(* A target connection the console holds is always on its way to be closed:  *)
(* its session is in the map with a timer running or fired, or a goroutine   *)
(* that took it out of the map is closing it, in every order of use, expiry  *)
(* and close (sessionForActor, expireSession, CloseSession).                 *)
ConnectionsReleased ==
  sess.conn = "open" =>
    \/ sess.state = "connecting" \/ closer
    \/ sess.state = "open" /\ (sess.armed \/ sess.fired)

(* A console statement is permitted, audited and reported as it went, and    *)
(* the connection it used is released.                                       *)
ConsoleAccounted == ChangesAreAccounted /\ RecordedSuccessIsReal /\ ConnectionsReleased
=============================================================================
