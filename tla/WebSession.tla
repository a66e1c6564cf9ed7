------------------------------ MODULE WebSession ------------------------------
(***************************************************************************)
(* What a browser does with a session of the administration interface: the *)
(* middleware around every authenticated request (withAuthAndUser of       *)
(* internal/server/admin/auth_context.go and withOperationAudit of         *)
(* audit_operation.go), logout, the one-time ticket for a WebSocket        *)
(* (internal/service/browser_session.go and                                *)
(* internal/store/dbstore_browser_sessions.go), the web terminal opened    *)
(* with it (webterminal.go) and its entry in the registry of online        *)
(* sessions (internal/online/registry.go).                                 *)
(*                                                                         *)
(* Requests are goroutines that interleave between any two database calls. *)
(* The consumption of a ticket is one transaction: its row locks, or the   *)
(* write slot under SQLite, keep other consumers and Revoke out, so it is  *)
(* one step, with the clock value that was read before.  All sessions      *)
(* belong to one user.                                                     *)
(***************************************************************************)
EXTENDS Integers, FiniteSets

CONSTANTS
    Sessions,      \* browser sessions, logged in at the start
    Tickets,       \* tickets that can be issued
    SessionTTL,    \* browserSessionTTL, counted from the start
    TicketTTL,     \* webSocketTicketTTL
    MaxRequests,   \* how many requests the browser sends
    MaxTime,       \* bound on the clock
    MaxFaults,     \* bound on failing database calls
    MaxRestarts,   \* bound on restarts of the process
    MaxChanges     \* bound on the user being disabled or enabled

WebSessionAssumption ==
    /\ SessionTTL \in Nat \ {0} /\ TicketTTL \in Nat \ {0}
    /\ MaxRequests \in Nat /\ MaxTime \in Nat
    /\ MaxFaults \in Nat /\ MaxRestarts \in Nat /\ MaxChanges \in Nat

VARIABLES
    now,       \* the clock
    usable,    \* the user's row is active, enabled and not expired
    revoked,   \* the sessions whose revoked_at is set
    ticket,    \* ticket[t]: the websocket_tickets row
    req,       \* req[r]: what the handler of request r holds
    log,       \* log[r]: the phases of r in audit_events
    audit,     \* audit[r]: the audit session of the terminal r opened
    online,    \* the terminals in the registry
    cut,       \* the terminals whose disconnect function was called
    left       \* how much of the bounds is left

vars == <<now, usable, revoked, ticket, req, log, audit, online, cut, left>>

Requests == 1 .. MaxRequests    \* numbered in the order they arrive

Kinds == {"mutation", "logout", "ticket", "connect"}

(* seen: the clock the handler read.  Ghosts: late, the session was        *)
(* revoked before its cookie or ticket was looked up for r; barred, the    *)
(* user has been unusable ever since r arrived; ran, the handler behind    *)
(* the middleware ran; fault, a write of r failed.                         *)
NewRequest == [pc |-> "new", kind |-> "mutation", session |-> {}, ticket |-> {}, seen |-> 0,
               late |-> FALSE, barred |-> FALSE, ran |-> FALSE, fault |-> FALSE]

NoTicket == [state |-> "none", session |-> {}, expires |-> 0, winners |-> {}]

PCs == {"new", "auth", "identity", "intent", "handler", "result",
        "consume", "subject", "dial", "start", "record", "register", "relay",
        "end", "done", "lost"}

At(r, pc) == req[r].pc = pc
Goto(r, pc) == req' = [req EXCEPT ![r].pc = pc]
Failed(r, pc) == /\ left.faults > 0
                 /\ left' = [left EXCEPT !.faults = @ - 1]
                 /\ req' = [req EXCEPT ![r].pc = pc, ![r].fault = TRUE]

(* FindActiveAdminSessionBySecretHash: not revoked and not expired. *)
ActiveSession(s, t) == s \notin revoked /\ SessionTTL > t

rows == <<revoked, ticket, log, audit>>
registry == <<online, cut>>

-----------------------------------------------------------------------------
(* A request arrives, with the cookie of a session or with a ticket; a     *)
(* WebSocket request reads the clock for the consumption.                  *)
Arrive(r) ==
    /\ At(r, "new")
    /\ \A q \in 1 .. r - 1 : ~At(q, "new")
    /\ \/ \E k \in Kinds \ {"connect"}, s \in Sessions :
             req' = [req EXCEPT ![r] = [@ EXCEPT !.pc = "auth", !.kind = k, !.session = {s},
                                                 !.late = s \in revoked, !.barred = ~usable]]
       \/ \E t \in Tickets :
             /\ ticket[t].state # "none"
             /\ req' = [req EXCEPT ![r] =
                          [@ EXCEPT !.pc = "consume", !.kind = "connect", !.ticket = {t},
                                    !.session = ticket[t].session, !.seen = now,
                                    !.late = ticket[t].session \subseteq revoked,
                                    !.barred = ~usable]]
    /\ UNCHANGED <<now, usable, rows, registry, left>>

(* BrowserSessionService.Authenticate *)
Authenticate(r) ==
    /\ At(r, "auth")
    /\ \/ /\ Goto(r, IF \E s \in req[r].session : ActiveSession(s, now)
                     THEN "identity" ELSE "done")
          /\ UNCHANGED left
       \/ Failed(r, "done")
    /\ UNCHANGED <<now, usable, rows, registry>>

(* FindIdentitySubject, then the CSRF token, which may be wrong. *)
FindIdentity(r) ==
    /\ At(r, "identity")
    /\ \/ usable /\ Goto(r, "intent") /\ UNCHANGED left
       \/ Goto(r, "done") /\ UNCHANGED left
       \/ Failed(r, "done")
    /\ UNCHANGED <<now, usable, rows, registry>>

(* recordOperationIntent: the gate in front of every mutation. *)
RecordIntent(r) ==
    /\ At(r, "intent")
    /\ \/ /\ log' = [log EXCEPT ![r] = @ \cup {"intent"}]
          /\ Goto(r, "handler")
          /\ UNCHANGED left
       \/ Failed(r, "done") /\ UNCHANGED log
    /\ UNCHANGED <<now, usable, revoked, ticket, audit, registry>>

TicketExpiry == now + TicketTTL

Ran(r) == req' = [req EXCEPT ![r].pc = "result", ![r].ran = TRUE]

(* The handlers but logout: any mutation, or handleWebTerminalTicket with  *)
(* CreateScopedWebSocketTicket (a target that may not be connected to      *)
(* issues none).                                                           *)
Handler(r) ==
    /\ At(r, "handler")
    /\ req[r].kind # "logout"
    /\ \/ /\ Ran(r)
          /\ \/ UNCHANGED ticket
             \/ /\ req[r].kind = "ticket"
                /\ \E t \in Tickets :
                      /\ ticket[t] = NoTicket
                      /\ ticket' = [ticket EXCEPT ![t] =
                            [@ EXCEPT !.state = "open", !.session = req[r].session,
                                      !.expires = TicketExpiry]]
          /\ UNCHANGED left
       \/ Failed(r, "result") /\ UNCHANGED ticket
    /\ UNCHANGED <<now, usable, revoked, log, audit, registry>>

(* The requests rs once the sessions of gone are revoked: those that are   *)
(* still to look up one of them are late.                                  *)
WithLate(rs, gone) ==
    [q \in Requests |->
        IF rs[q].pc \in {"auth", "consume"} /\ rs[q].session \subseteq gone
        THEN [rs[q] EXCEPT !.late = TRUE] ELSE rs[q]]

(* handleLogout with Revoke: the session's row is changed and nothing      *)
(* else; requests past the middleware and open terminals are not touched.  *)
(* A revocation that fails for the caller may have been applied.           *)
Logout(r) ==
    /\ At(r, "handler")
    /\ req[r].kind = "logout"
    /\ \/ /\ revoked' = revoked \cup req[r].session
          /\ req' = WithLate([req EXCEPT ![r].pc = "result", ![r].ran = TRUE], revoked')
          /\ UNCHANGED left
       \/ /\ left.faults > 0
          /\ left' = [left EXCEPT !.faults = @ - 1]
          /\ revoked' \in {revoked, revoked \cup req[r].session}
          /\ req' = WithLate([req EXCEPT ![r].pc = "result", ![r].fault = TRUE], revoked')
    /\ UNCHANGED <<now, usable, ticket, log, audit, registry>>

(* recordOperationResult, best effort. *)
RecordResult(r) ==
    /\ At(r, "result")
    /\ \/ /\ log' = [log EXCEPT ![r] = @ \cup {"result"}]
          /\ Goto(r, "done")
          /\ UNCHANGED left
       \/ Failed(r, "done") /\ UNCHANGED log
    /\ UNCHANGED <<now, usable, revoked, ticket, audit, registry>>

-----------------------------------------------------------------------------
(* handleWebTerminal *)

Consumable(t, seen) ==
    /\ ticket[t].state = "open"
    /\ ticket[t].expires > seen
    /\ \A s \in ticket[t].session : ActiveSession(s, seen)

MutantConsumeTicket(r) ==
    /\ At(r, "consume")
    /\ \E t \in req[r].ticket :
          /\ ticket[t].expires > req[r].seen
          /\ ticket' = [ticket EXCEPT ![t].state = "consumed", ![t].winners = @ \cup {r}]
          /\ Goto(r, "subject")
    /\ UNCHANGED <<now, usable, revoked, log, audit, registry, left>>

(* ConsumeWebSocketTicket; a transaction whose commit fails for the caller *)
(* may have been applied.                                                  *)
ConsumeTicket(r) ==
    /\ At(r, "consume")
    /\ \E t \in req[r].ticket :
          LET consumed == [ticket EXCEPT ![t].state = "consumed"]
          IN  \/ /\ Consumable(t, req[r].seen)
                 /\ ticket' = [consumed EXCEPT ![t].winners = @ \cup {r}]
                 /\ Goto(r, "subject")
                 /\ UNCHANGED left
              \/ /\ ~Consumable(t, req[r].seen)
                 /\ Goto(r, "done")
                 /\ UNCHANGED <<ticket, left>>
              \/ /\ Failed(r, "done")
                 /\ ticket' \in {ticket} \cup {tk \in {consumed} : Consumable(t, req[r].seen)}
    /\ UNCHANGED <<now, usable, revoked, log, audit, registry>>

(* FindIdentitySubject for the ticket's user. *)
FindSubject(r) ==
    /\ At(r, "subject")
    /\ \/ Goto(r, IF usable THEN "dial" ELSE "done") /\ UNCHANGED left
       \/ Failed(r, "done")
    /\ UNCHANGED <<now, usable, rows, registry>>

(* ResolveWebTerminalTarget, the SSH dial and the upgrade: each may refuse. *)
DialTarget(r) ==
    /\ At(r, "dial")
    /\ \E next \in {"start", "done"} : Goto(r, next)
    /\ UNCHANGED <<now, usable, rows, registry, left>>

(* startWebTerminalAudit: without an audit session both ends are closed. *)
StartAudit(r) ==
    /\ At(r, "start")
    /\ \/ /\ audit' = [audit EXCEPT ![r] = "started"]
          /\ Goto(r, "record")
          /\ UNCHANGED left
       \/ Failed(r, "done") /\ UNCHANGED audit
    /\ UNCHANGED <<now, usable, revoked, ticket, log, registry>>

(* newWebTerminalRecorder: when it fails the deferred calls still run.     *)
StartRecorder(r) ==
    /\ At(r, "record")
    /\ \/ Goto(r, "register") /\ UNCHANGED left
       \/ /\ left.faults > 0
          /\ left' = [left EXCEPT !.faults = @ - 1]
          /\ Goto(r, "end")
    /\ UNCHANGED <<now, usable, rows, registry>>

(* Registry.Register *)
Register(r) ==
    /\ At(r, "register")
    /\ online' = online \cup {r}
    /\ Goto(r, "relay")
    /\ UNCHANGED <<now, usable, rows, cut, left>>

(* serveWebTerminalSSHSession returns, because an end closed or because    *)
(* Disconnect closed both, and the entry is removed by its own function.   *)
LeaveRelay(r) ==
    /\ At(r, "relay")
    /\ online' = online \ {r}
    /\ Goto(r, "end")
    /\ UNCHANGED <<now, usable, rows, cut, left>>

(* endWebTerminalAudit, with a context of its own. *)
EndAudit(r) ==
    /\ At(r, "end")
    /\ \/ /\ audit' = [audit EXCEPT ![r] = "ended"]
          /\ Goto(r, "done")
          /\ UNCHANGED left
       \/ Failed(r, "done") /\ UNCHANGED audit
    /\ UNCHANGED <<now, usable, revoked, ticket, log, registry>>

(* Registry.Disconnect: the entry is taken out and both ends are closed. *)
Disconnect(r) ==
    /\ r \in online
    /\ online' = online \ {r}
    /\ cut' = cut \cup {r}
    /\ UNCHANGED <<now, usable, rows, req, left>>

-----------------------------------------------------------------------------
(* Another administrator disables, deletes or enables the user. *)
ChangeUser ==
    /\ left.changes > 0
    /\ left' = [left EXCEPT !.changes = @ - 1]
    /\ usable' = ~usable
    /\ req' = [r \in Requests |-> IF usable THEN req[r] ELSE [req[r] EXCEPT !.barred = FALSE]]
    /\ UNCHANGED <<now, rows, registry>>

(* The process restarts: its handlers and its registry are gone. *)
Restart ==
    /\ left.restarts > 0
    /\ left' = [left EXCEPT !.restarts = @ - 1]
    /\ req' = [r \in Requests |-> IF req[r].pc \in {"new", "done"} THEN req[r]
                                  ELSE [req[r] EXCEPT !.pc = "lost"]]
    /\ online' = {}
    /\ UNCHANGED <<now, usable, rows, cut>>

Tick ==
    /\ now < MaxTime
    /\ now' = now + 1
    /\ UNCHANGED <<usable, rows, req, registry, left>>

Init ==
    /\ now = 0
    /\ usable = TRUE
    /\ revoked = {}
    /\ ticket = [t \in Tickets |-> NoTicket]
    /\ req = [r \in Requests |-> NewRequest]
    /\ log = [r \in Requests |-> {}]
    /\ audit = [r \in Requests |-> "none"]
    /\ online = {}
    /\ cut = {}
    /\ left = [faults |-> MaxFaults, restarts |-> MaxRestarts, changes |-> MaxChanges]

Step(r) ==
    \/ Authenticate(r)
    \/ FindIdentity(r)
    \/ RecordIntent(r)
    \/ Handler(r)
    \/ Logout(r)
    \/ RecordResult(r)
    \/ ConsumeTicket(r)
    \/ FindSubject(r)
    \/ DialTarget(r)
    \/ StartAudit(r)
    \/ StartRecorder(r)
    \/ Register(r)
    \/ EndAudit(r)

Next ==
    \/ \E r \in Requests : Arrive(r) \/ Step(r) \/ LeaveRelay(r) \/ Disconnect(r)
    \/ ChangeUser
    \/ Restart
    \/ Tick

Spec == Init /\ [][Next]_vars

-----------------------------------------------------------------------------
\* Every variable holds a value of its type.
TypeOK ==
    /\ now \in 0 .. MaxTime
    /\ usable \in BOOLEAN
    /\ revoked \in SUBSET Sessions
    /\ ticket \in [Tickets -> [state : {"none", "open", "consumed"}, session : SUBSET Sessions,
                               expires : 0 .. MaxTime + TicketTTL, winners : SUBSET Requests]]
    /\ req \in [Requests -> [pc : PCs, kind : Kinds, session : SUBSET Sessions,
                             ticket : SUBSET Tickets, seen : 0 .. MaxTime, late : BOOLEAN,
                             barred : BOOLEAN, ran : BOOLEAN, fault : BOOLEAN]]
    /\ log \in [Requests -> SUBSET {"intent", "result"}]
    /\ audit \in [Requests -> {"none", "started", "ended"}]
    /\ online \in SUBSET Requests
    /\ cut \in SUBSET Requests

(* A ticket opens one terminal at most, however many requests present it   *)
(* at the same time.  It is spent only by a transaction that found it      *)
(* usable, and a refused request leaves it as it was; a request that spent *)
(* it may still get no terminal, as identity, rights and target are looked *)
(* at afterwards.                                                          *)
TicketOpensOnce ==
    \A t \in Tickets :
        /\ Cardinality(ticket[t].winners) <= 1
        /\ ticket[t].state = "consumed" /\ ticket[t].winners = {}
              => \E r \in Requests : t \in req[r].ticket /\ req[r].fault

(* A request whose cookie or ticket is looked up after the logout of its   *)
(* session has committed does nothing, also when it arrived before: no     *)
(* handler runs and no ticket is accepted.  While the user is disabled,    *)
(* deleted or expired no handler runs and no terminal opens for a request  *)
(* that arrives then.  Requests that were past the look-up and terminals   *)
(* that were open go on: handleLogout stops neither.                       *)
LateDoesNothing ==
    \A r \in Requests :
        /\ req[r].late => ~req[r].ran /\ \A t \in Tickets : r \notin ticket[t].winners
        /\ req[r].barred => ~req[r].ran /\ audit[r] = "none"

(* A logout stops the requests under way and the terminals of its session. *)
LogoutStopsAll ==
    \A r \in Requests : req[r].session # {} /\ req[r].session \subseteq revoked
        => req[r].kind = "logout" \/ req[r].pc \in {"auth", "consume", "done", "lost"}

(* Every handler that changed something has its intent in the audit, and   *)
(* its result too once the request ended, unless the write failed or the   *)
(* process stopped.                                                        *)
EffectIsAudited ==
    \A r \in Requests : req[r].ran =>
        /\ "intent" \in log[r]
        /\ At(r, "done") /\ ~req[r].fault => "result" \in log[r]

(* A terminal only relays while its audit session is open, and every audit *)
(* session it opened is ended with it, unless the write failed.            *)
TerminalIsAudited ==
    \A r \in Requests :
        /\ At(r, "relay") \/ r \in online => audit[r] = "started"
        /\ At(r, "done") /\ ~req[r].fault => audit[r] # "started"

(* A browser session and its tickets give what they should and no more: a  *)
(* ticket opens one terminal, a request not yet looked up when its session *)
(* is logged out has no effect, and effects and terminals are in the audit.*)
WebSessionHonoured == TicketOpensOnce /\ LateDoesNothing /\ EffectIsAudited /\ TerminalIsAudited
=============================================================================
