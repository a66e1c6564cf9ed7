------------------------------ MODULE Gateway ------------------------------
(***************************************************************************)
(* The database gateway in front of the relay: binding and accepting on    *)
(* the protocol listeners or on the unified one, the limit on pending      *)
(* handshakes, the detection of the protocol, the client's transport and   *)
(* login, the login at the upstream database, PostgreSQL cancel requests,  *)
(* the administrator's authentication probe, and the shutdown.  Sources:   *)
(* server/dbproxy (listeners.go, unified_listener.go, pending_handshake.go *)
(* listener_connections.go, postgres_*.go, mysql_*.go, redis*.go,          *)
(* upstream_tls.go, upstream_probe.go, authorization.go, server.go) and    *)
(* dbtls/config.go.                                                        *)
(*                                                                         *)
(* A connection is a record that runs through the handler's steps; what    *)
(* arrives from a client or an upstream server is a nondeterministic       *)
(* choice.  Whether an account resolves, a password is right and a user is *)
(* authorized is decided elsewhere (Credentials, AccessControl): here each *)
(* check passes or fails.  The relay is one phase (DatabaseRelay models    *)
(* it).  Every wait of a handshake has a deadline, so a handshake may fail *)
(* at any step.                                                            *)
(***************************************************************************)
EXTENDS Naturals, FiniteSets

CONSTANTS
    Conns,         \* connections that exist at the same time
    NoOne,         \* "no instance", "no key"
    Instances,     \* upstream database instances, one account on each
    InstProtocol,  \* the protocol of an instance
    InstTLS,       \* the TLS mode of an instance: "disable" or "verify"
    Keys,          \* cancellation keys the PostgreSQL servers hand out
    EnabledSets,   \* the sets of protocol listeners a configuration may enable
    HandshakeLimit \* slots for pending handshakes (256 in the code)

Protocols == {"mysql", "postgresql", "redis"}

ASSUME GatewayAssumption ==
    /\ IsFiniteSet(Conns) /\ HandshakeLimit \in Nat
    /\ NoOne \notin Instances \cup Keys
    /\ InstProtocol \in [Instances -> Protocols]
    /\ EnabledSets \subseteq SUBSET Protocols

VARIABLES
    mode,        \* "independent" or "unified"
    enabled,     \* protocols whose own listener is enabled
    tlsRequired, \* the gateway's client TLS mode is "required"
    phase,       \* "binding", "serving", "returned"
    ctx,         \* the context of the listeners: "running" or "cancelled"
    open,        \* listeners that are bound and open
    loop,        \* accept loops
    shut,        \* activeConnectionSet.closed
    slots,       \* pending-handshake slots in use
    conn,        \* connections
    routes       \* postgresCancelRegistry: the entries by connection

vars == <<mode, enabled, tlsRequired, phase, ctx, open, loop, shut, slots, conn, routes>>

config == <<mode, enabled, tlsRequired>>

server == <<phase, ctx, open, loop, shut>>

\* configuredProtocolListeners, or the unified listener.
Listeners == IF mode = "unified" THEN {"unified"} ELSE enabled

\* sock: the client's socket is open; held: the handshake lease is held; up:
\* the upstream socket is open; verified: it passed the TLS policy; sent: how
\* the account's password went out last; aim: the connections that held
\* key of a cancel request when it was looked up.
Idle == [pc |-> "idle", at |-> "none", proto |-> "none", tls |-> FALSE,
         sock |-> FALSE, held |-> FALSE, inst |-> NoOne, up |-> FALSE,
         verified |-> FALSE, sent |-> "none", key |-> NoOne, aim |-> {}]

Init ==
    /\ mode \in {"independent", "unified"}
    /\ enabled \in (IF mode = "unified" THEN {{}} ELSE EnabledSets)
    /\ tlsRequired \in BOOLEAN
    /\ phase = "binding" /\ ctx = "running" /\ shut = FALSE
    /\ open = {} /\ loop = [l \in Listeners |-> "accept"]
    /\ slots = 0
    /\ conn = [c \in Conns |-> Idle]
    /\ routes = {}

Set(c, r) == conn' = [conn EXCEPT ![c] = r]

Goto(c, pc) == conn' = [conn EXCEPT ![c].pc = pc]

\* What is left of a connection on its way out: its listener, its socket and
\* its lease; the upstream socket is closed and everything else forgotten.
Out(c) == [Idle EXCEPT !.pc = "leave", !.at = conn[c].at, !.sock = conn[c].sock,
                       !.held = conn[c].held]

Quit(c) == Set(c, Out(c))

Serving(c) == conn[c].pc \notin {"idle", "accepted"}

(***************************************************************************)
(* Listeners: bind, accept, shut down.                                     *)
(***************************************************************************)
\* listenAndServeProtocolListeners binds one address after the other; a failure
\* closes those already bound.
BindProtocols ==
    /\ phase = "binding" /\ mode = "independent"
    /\ \/ \E l \in Listeners \ open :
             /\ open' = open \cup {l}
             /\ phase' = IF open' = Listeners THEN "serving" ELSE "binding"
       \/ open' = {} /\ phase' = "returned"
    /\ UNCHANGED <<config, ctx, loop, shut, slots, conn, routes>>

\* listenAndServeUnifiedListener.
BindUnified ==
    /\ phase = "binding" /\ mode = "unified"
    /\ \/ open' = {"unified"} /\ phase' = "serving"
       \/ open' = {} /\ phase' = "returned"
    /\ UNCHANGED <<config, ctx, loop, shut, slots, conn, routes>>

Pending(l) == {c \in Conns : conn[c].at = l /\ conn[c].pc = "accepted"}

\* The body of the accept loop: Accept, then activeConnectionSet.add.
Accept(l, c) ==
    /\ phase = "serving" /\ loop[l] = "accept" /\ l \in open
    /\ Pending(l) = {} /\ conn[c] = Idle
    /\ Set(c, [Idle EXCEPT !.pc = "accepted", !.at = l, !.sock = TRUE])
    /\ UNCHANGED <<config, server, slots, routes>>

MutantAdd(c) == Goto(c, "started")

\* activeConnectionSet.add; a connection that comes after closeAll is closed.
Add(c) == IF shut THEN Set(c, Idle) ELSE Goto(c, "started")

Admit(c) ==
    /\ conn[c].pc = "accepted"
    /\ Add(c)
    /\ UNCHANGED <<config, server, slots, routes>>

\* activeConnectionSet.closeAll.
closeAll == /\ shut' = TRUE
            /\ conn' = [c \in Conns |-> [conn[c] EXCEPT
                            !.sock = IF Serving(c) THEN FALSE ELSE @]]

\* Accept fails for a reason other than a closed listener.  The independent
\* loops share one shutdown, which cancels their context.
AcceptFails(l) ==
    /\ phase = "serving" /\ mode = "independent"
    /\ loop[l] = "accept" /\ l \in open /\ Pending(l) = {}
    /\ loop' = [loop EXCEPT ![l] = IF ctx = "cancelled" THEN "drain" ELSE "failing"]
    /\ ctx' = "cancelled"
    /\ UNCHANGED <<config, phase, open, shut, slots, conn, routes>>

\* serveUnifiedListener only closes its connections: the context goes on.
UnifiedAcceptFails(l) ==
    /\ phase = "serving" /\ mode = "unified"
    /\ loop[l] = "accept" /\ l \in open /\ Pending(l) = {}
    /\ loop' = [loop EXCEPT ![l] = "drain"]
    /\ IF ctx = "cancelled" THEN UNCHANGED <<shut, conn>> ELSE closeAll
    /\ UNCHANGED <<config, phase, ctx, open, slots, routes>>

\* shutdown returns to the loop that called it.
ShutdownDone(l) ==
    /\ loop[l] = "failing" /\ open = {} /\ shut
    /\ loop' = [loop EXCEPT ![l] = "drain"]
    /\ UNCHANGED <<config, phase, ctx, open, shut, slots, conn, routes>>

ListenerClosed(l) ==
    /\ phase = "serving" /\ loop[l] = "accept" /\ l \notin open /\ Pending(l) = {}
    /\ loop' = [loop EXCEPT ![l] = "drain"]
    /\ UNCHANGED <<config, phase, ctx, open, shut, slots, conn, routes>>

\* The process is told to stop.
Cancel ==
    /\ phase = "serving" /\ ctx = "running"
    /\ ctx' = "cancelled"
    /\ UNCHANGED <<config, phase, open, loop, shut, slots, conn, routes>>

\* What shutdown and the watchers of the context do, in any order.
CloseListener(l) ==
    /\ phase = "serving" /\ ctx = "cancelled" /\ l \in open
    /\ open' = open \ {l}
    /\ UNCHANGED <<config, phase, ctx, loop, shut, slots, conn, routes>>

CloseConnections ==
    /\ phase = "serving" /\ ctx = "cancelled" /\ ~shut
    /\ closeAll
    /\ UNCHANGED <<config, phase, ctx, open, loop, slots, routes>>

\* wg.Wait of a loop.
Drained(l) == \A c \in Conns : conn[c].at # l

LoopReturns(l) ==
    /\ loop[l] = "drain" /\ Drained(l)
    /\ loop' = [loop EXCEPT ![l] = "returned"]
    /\ open' = open \ {l}
    /\ UNCHANGED <<config, phase, ctx, shut, slots, conn, routes>>

\* serveBoundProtocolListeners returns once every loop has, after a last
\* shutdown.
Return ==
    /\ phase = "serving" /\ \A l \in Listeners : loop[l] = "returned"
    /\ phase' = "returned" /\ open' = {}
    /\ IF mode = "unified" THEN UNCHANGED <<ctx, shut, conn>>
                           ELSE ctx' = "cancelled" /\ closeAll
    /\ UNCHANGED <<config, loop, slots, routes>>

(***************************************************************************)
(* The handshake: a slot, then the transport.                              *)
(***************************************************************************)
\* pendingHandshakeLimiter.tryAcquire; without a slot the connection is dropped.
TryAcquire(c, pc, proto) ==
    IF slots < HandshakeLimit
    THEN /\ slots' = slots + 1
         /\ Set(c, [conn[c] EXCEPT !.held = TRUE, !.pc = pc, !.proto = proto])
    ELSE Quit(c) /\ UNCHANGED slots

\* handleProtocolConnectionWithTimeout.
HandleProtocolConnection(c) ==
    /\ conn[c].pc = "started" /\ mode = "independent"
    /\ TryAcquire(c, "transport", conn[c].at)
    /\ UNCHANGED <<config, server, routes>>

\* handleUnifiedConnectionWithTimeout.
HandleUnifiedConnection(c) ==
    /\ conn[c].pc = "started" /\ mode = "unified"
    /\ TryAcquire(c, "detect", "none")
    /\ UNCHANGED <<config, server, routes>>

\* Whether the transport a client chose may carry a login.
Transported(c, proto, tls) ==
    IF tlsRequired /\ ~tls THEN Quit(c)
    ELSE Set(c, [conn[c] EXCEPT !.proto = proto, !.tls = tls, !.pc = "login"])

\* detectUnifiedPreface: silence for the detection timeout, or the first byte.
Detect(c, first) ==
    /\ conn[c].pc = "detect" /\ conn[c].sock
    /\ CASE first = "silence" -> Set(c, [conn[c] EXCEPT !.pc = "transport", !.proto = "mysql"])
         [] first = "zero" -> Set(c, [conn[c] EXCEPT !.pc = "transport", !.proto = "postgresql"])
         [] first = "star" -> Transported(c, "redis", FALSE)
         [] first = "tls" -> Goto(c, "unified_tls")
    /\ UNCHANGED <<config, server, slots, routes>>

\* handleUnifiedTLS: the negotiated protocol and the first decrypted byte.
UnifiedTLS(c, proto) ==
    /\ conn[c].pc = "unified_tls" /\ conn[c].sock
    /\ Transported(c, proto, TRUE)
    /\ UNCHANGED <<config, server, slots, routes>>

\* The gateway's greeting and the client's first packet, which may ask for TLS.
MySQLTransport(c, tls) ==
    /\ conn[c].pc = "transport" /\ conn[c].proto = "mysql" /\ conn[c].sock
    /\ Transported(c, "mysql", tls)
    /\ UNCHANGED <<config, server, slots, routes>>

\* handlePostgresConnection.  A GSS request is declined and followed by one of
\* the others; a cancel request is served with or without TLS.
PostgresTransport(c, first) ==
    /\ conn[c].pc = "transport" /\ conn[c].proto = "postgresql" /\ conn[c].sock
    /\ IF first = "cancel" THEN Goto(c, "cancel")
       ELSE Transported(c, "postgresql", first \in {"direct_tls", "ssl_request"})
    /\ UNCHANGED <<config, server, slots, routes>>

\* handleRedisConnection.
RedisTransport(c, tls) ==
    /\ conn[c].pc = "transport" /\ conn[c].proto = "redis" /\ conn[c].sock
    /\ Transported(c, "redis", tls)
    /\ UNCHANGED <<config, server, slots, routes>>

(***************************************************************************)
(* The client's login: the account, then the password and the permission.  *)
(***************************************************************************)
\* resolveAccount and validateResolvedAccountProtocol.
Resolve(c, proto, i) ==
    /\ conn[c].pc = "login" /\ conn[c].proto = proto
    /\ conn[c].sock /\ ctx = "running"
    /\ IF InstProtocol[i] = proto
       THEN Set(c, [conn[c] EXCEPT !.pc = "authenticate", !.inst = i])
       ELSE Quit(c)
    /\ UNCHANGED <<config, server, slots, routes>>

\* The login packet carries the account name and the password's response.
MySQLLogin(c, i) == Resolve(c, "mysql", i)

\* The startup message; the password is asked for afterwards.
PostgresLogin(c, i) == Resolve(c, "postgresql", i)

\* The first command, AUTH or HELLO with AUTH.
RedisLogin(c, i) == Resolve(c, "redis", i)

\* authenticateAndAuthorizeConnection, and the checks on the account row that
\* Resolve read.  Only PostgreSQL still reads from the client here.
Authenticate(c) ==
    /\ conn[c].pc = "authenticate" /\ ctx = "running"
    /\ conn[c].proto = "postgresql" => conn[c].sock
    /\ Goto(c, "dial")
    /\ UNCHANGED <<config, server, slots, routes>>

(***************************************************************************)
(* The login at the upstream database.                                     *)
(***************************************************************************)
\* A gateway connection works under the listener's context, the probe under
\* its own.
Uncancelled(c) == conn[c].at = "admin" \/ ctx = "running"

MutantHandshakeClient(i) == FALSE

\* HandshakeClient: the policy of the instance asks for verified TLS.
HandshakeClient(i) == InstTLS[i] # "disable"

\* dialUpstream; an upstream that cannot be reached fails the handshake.
DialUpstream(c, proto) ==
    /\ conn[c].pc = "dial" /\ conn[c].proto = proto /\ Uncancelled(c)
    /\ Set(c, [conn[c] EXCEPT !.pc = "upstream", !.up = TRUE,
                              !.verified = HandshakeClient(conn[c].inst)])
    /\ UNCHANGED <<config, server, slots, routes>>

\* The greeting, CLIENT_SSL and the TLS handshake.
DialMySQL(c) == DialUpstream(c, "mysql")

\* SSLRequest and its answer, and the TLS handshake.
DialPostgres(c) == DialUpstream(c, "postgresql")

DialRedis(c) == DialUpstream(c, "redis")

Send(c, form, pc) == Set(c, [conn[c] EXCEPT !.sent = form, !.pc = pc])

\* validatePostgresCleartextPasswordTransport.
CleartextAllowed(c) == InstTLS[conn[c].inst] = "disable" \/ conn[c].verified

\* authenticatePostgresUpstream: a request for the password or its MD5 hash.
PostgresChallenge(c, form) ==
    /\ conn[c].pc = "upstream" /\ conn[c].proto = "postgresql" /\ conn[c].at # "admin"
    /\ form = "clear" => CleartextAllowed(c)
    /\ Send(c, form, "upstream")
    /\ UNCHANGED <<config, server, slots, routes>>

\* runPostgresSCRAM: a proof goes out, and the server must prove itself too.
PostgresSCRAM(c) ==
    /\ conn[c].pc = "upstream" /\ conn[c].proto = "postgresql"
    /\ Send(c, "hashed", "upstream")
    /\ UNCHANGED <<config, server, slots, routes>>

\* AuthenticationOk is the first message the client sees.
PostgresAuthOK(c) ==
    /\ conn[c].pc = "upstream" /\ conn[c].proto = "postgresql"
    /\ conn[c].at # "admin" /\ conn[c].sock
    /\ Set(c, [conn[c] EXCEPT !.pc = "starting", !.sent = "none"])
    /\ UNCHANGED <<config, server, slots, routes>>

\* BackendKeyData registers the cancel route of this session; a second one is
\* refused.
BackendKey(c, k) ==
    /\ conn[c].pc = "starting" /\ conn[c].sock
    /\ conn[c].key = NoOne
    /\ Set(c, [conn[c] EXCEPT !.key = k])
    /\ routes' = routes \cup {[key |-> k, conn |-> c, inst |-> conn[c].inst]}
    /\ UNCHANGED <<config, server, slots>>

\* Clearing the upstream deadline fails once the context is cancelled; then
\* the client is told.
LoggedIn(c, proto, pc) ==
    /\ conn[c].pc = pc /\ conn[c].proto = proto /\ conn[c].at # "admin"
    /\ ctx = "running" /\ conn[c].sock
    /\ Set(c, [conn[c] EXCEPT !.pc = "finish", !.sent = "none", !.verified = FALSE])
    /\ UNCHANGED <<config, server, slots, routes>>

\* ReadyForQuery.
PostgresReady(c) == LoggedIn(c, "postgresql", "starting")

\* The login packet, then OK or the fast path of caching_sha2_password.
MySQLUpstream(c) ==
    /\ conn[c].pc = "upstream" /\ conn[c].proto = "mysql"
    /\ Send(c, "hashed", "granted")
    /\ UNCHANGED <<config, server, slots, routes>>

\* handleMySQLAuthSwitch: the response for another plugin.
MySQLAuthSwitch(c) ==
    /\ conn[c].pc = "upstream" /\ conn[c].proto = "mysql"
    /\ Send(c, "hashed", "switched")
    /\ UNCHANGED <<config, server, slots, routes>>

\* handleMySQLCachingSha2FullAuth: the password, over verified TLS only.
MySQLFullAuth(c) ==
    /\ conn[c].pc \in {"upstream", "switched"} /\ conn[c].proto = "mysql"
    /\ conn[c].verified
    /\ Send(c, "clear", "granted")
    /\ UNCHANGED <<config, server, slots, routes>>

\* The upstream's OK, passed on.
MySQLReady(c) == \E pc \in {"granted", "switched"} : LoggedIn(c, "mysql", pc)

\* authenticateUpstreamRedis: AUTH carries the password itself.
RedisUpstream(c) ==
    /\ conn[c].pc = "upstream" /\ conn[c].proto = "redis" /\ conn[c].at # "admin"
    /\ ctx = "running"
    /\ Send(c, "clear", "granted")
    /\ UNCHANGED <<config, server, slots, routes>>

\* OK, or the upstream's answer to HELLO.
RedisReady(c) == LoggedIn(c, "redis", "granted")

\* ProbeDatabaseAuthentication, from the administrator's console, dials like
\* the gateway and ends with the upstream's verdict.
Probe(c, i) ==
    /\ conn[c] = Idle
    /\ \A d \in Conns : conn[d].at # "admin" \* bound: one probe at a time
    /\ Set(c, [Idle EXCEPT !.pc = "dial", !.at = "admin", !.inst = i,
                           !.proto = InstProtocol[i]])
    /\ UNCHANGED <<config, server, slots, routes>>

ProbePostgres(c, form) ==
    /\ conn[c].pc = "upstream" /\ conn[c].proto = "postgresql" /\ conn[c].at = "admin"
    /\ form = "clear" => CleartextAllowed(c)
    /\ Send(c, form, "upstream")
    /\ UNCHANGED <<config, server, slots, routes>>

ProbeRedis(c) ==
    /\ conn[c].pc = "upstream" /\ conn[c].proto = "redis" /\ conn[c].at = "admin"
    /\ Send(c, "clear", "granted")
    /\ UNCHANGED <<config, server, slots, routes>>

(***************************************************************************)
(* Cancel requests.                                                        *)
(***************************************************************************)
\* The startup packet inside TLS may be a cancel request too.
LoginIsCancel(c) ==
    /\ conn[c].pc = "login" /\ conn[c].proto = "postgresql" /\ conn[c].sock
    /\ Goto(c, "cancel")
    /\ UNCHANGED <<config, server, slots, routes>>

\* postgresCancelRegistry.lookup: the entry, if there is exactly one.
Lookup(k) == LET entries == {r \in routes : r.key = k}
             IN  IF Cardinality(entries) = 1 THEN entries ELSE {}

Holders(k) == {<<d, conn[d].inst>> :
                  d \in {e \in Conns : conn[e].key = k /\ conn[e].pc # "forward"}}

CancelLookup(c, k) ==
    /\ conn[c].pc = "cancel" /\ conn[c].sock
    /\ \/ \E r \in Lookup(k) :
             Set(c, [conn[c] EXCEPT !.pc = "forward", !.inst = r.inst, !.key = k,
                                    !.aim = Holders(k)])
       \/ Lookup(k) = {} /\ Quit(c)
    /\ UNCHANGED <<config, server, slots, routes>>

\* forwardPostgresCancel dials the instance and sends the request on.
ForwardCancel(c) ==
    /\ conn[c].pc = "forward" /\ Uncancelled(c)
    /\ Quit(c)
    /\ UNCHANGED <<config, server, slots, routes>>

\* pendingHandshakeLease.release, once per lease, with the rest of the step.
(***************************************************************************)
(* From the handshake to the relay, and the end of a connection.           *)
(***************************************************************************)
Release(c, r) ==
    /\ Set(c, [r EXCEPT !.held = FALSE])
    /\ slots' = IF conn[c].held THEN slots - 1 ELSE slots

\* The cleanup that register returned.
WithoutRoute(c) == {r \in routes : r.conn # c}

\* finishProtocolConnection: the deadlines are cleared, which fails on a closed
\* connection, and the slot is given back before the relay.
Finish(c) ==
    /\ conn[c].pc = "finish"
    /\ IF conn[c].sock
       THEN Release(c, [conn[c] EXCEPT !.pc = "audit", !.tls = FALSE]) /\ UNCHANGED routes
       ELSE /\ Quit(c)
            /\ routes' = WithoutRoute(c) /\ UNCHANGED slots
    /\ UNCHANGED <<config, server>>

\* handleGatewayConn opens the audit session first.
Audit(c) ==
    /\ conn[c].pc = "audit" /\ ctx = "running"
    /\ Goto(c, "relay")
    /\ UNCHANGED <<config, server, slots, routes>>

Handshaking == {"detect", "unified_tls", "transport", "login", "authenticate",
                "dial", "upstream", "starting",
                "switched", "granted", "finish"}

\* The relay ends and has closed both sockets; the audit session is ended, which
\* may take auditSessionEndTimeout, before the cancel route goes.
RelayEnds(c) ==
    /\ conn[c].pc = "relay"
    /\ Set(c, [conn[c] EXCEPT !.pc = "ending", !.sock = FALSE, !.up = FALSE])
    /\ UNCHANGED <<config, server, slots, routes>>

\* A deadline, a malformed or refused message, a closed socket, a failed
\* lookup, a failed audit session, the probe's verdict, or the end of the
\* audit session: the upstream socket is closed and the cancel route dropped.
Fail(c) ==
    /\ conn[c].pc \in Handshaking \cup {"cancel", "forward", "audit", "ending"}
    /\ Quit(c)
    /\ routes' = WithoutRoute(c)
    /\ UNCHANGED <<config, server, slots>>

\* The deferred calls: the lease, the socket, the connection set, wg.Done.
Leave(c) ==
    /\ conn[c].pc = "leave"
    /\ Release(c, Idle)
    /\ routes' = WithoutRoute(c)
    /\ UNCHANGED <<config, server>>

Handshake(c) ==
    \/ HandleProtocolConnection(c) \/ HandleUnifiedConnection(c)
    \/ \E first \in {"silence", "zero", "star", "tls"} : Detect(c, first)
    \/ \E proto \in {"postgresql", "redis"} : UnifiedTLS(c, proto)
    \/ \E tls \in BOOLEAN : MySQLTransport(c, tls) \/ RedisTransport(c, tls)
    \/ \E first \in {"direct_tls", "ssl_request", "startup", "cancel"} : PostgresTransport(c, first)
    \/ \E i \in Instances : MySQLLogin(c, i) \/ PostgresLogin(c, i) \/ RedisLogin(c, i)
    \/ Authenticate(c)

Upstream(c) ==
    \/ DialMySQL(c) \/ DialPostgres(c) \/ DialRedis(c)
    \/ \E form \in {"clear", "hashed"} : PostgresChallenge(c, form) \/ ProbePostgres(c, form)
    \/ PostgresSCRAM(c) \/ PostgresAuthOK(c) \/ (\E k \in Keys : BackendKey(c, k)) \/ PostgresReady(c)
    \/ MySQLUpstream(c) \/ MySQLAuthSwitch(c) \/ MySQLFullAuth(c) \/ MySQLReady(c)
    \/ RedisUpstream(c) \/ RedisReady(c)
    \/ (\E i \in Instances : Probe(c, i)) \/ ProbeRedis(c)

(* Listeners, loops and connections are of their types. *)
TypeOK ==
    /\ mode \in {"independent", "unified"} /\ enabled \subseteq Protocols /\ tlsRequired \in BOOLEAN
    /\ phase \in {"binding", "serving", "returned"} /\ ctx \in {"running", "cancelled"}
    /\ open \subseteq Listeners /\ shut \in BOOLEAN
    /\ loop \in [Listeners -> {"accept", "failing", "drain", "returned"}]
    /\ slots \in 0 .. HandshakeLimit
    /\ conn \in [Conns ->
          [pc : Handshaking \cup {"idle", "accepted", "started", "cancel", "forward", "audit",
                               "relay", "ending", "leave"},
           at : Protocols \cup {"none", "unified", "admin"}, proto : Protocols \cup {"none"},
           tls : BOOLEAN, sock : BOOLEAN, held : BOOLEAN, inst : Instances \cup {NoOne},
           up : BOOLEAN, verified : BOOLEAN, sent : {"none", "clear", "hashed"},
           key : Keys \cup {NoOne}, aim : SUBSET (Conns \X Instances)]]
    /\ routes \subseteq [key : Keys, conn : Conns, inst : Instances]

Next ==
    \/ BindProtocols \/ BindUnified \/ Cancel \/ CloseConnections \/ Return
    \/ \E l \in Listeners :
          \/ \E c \in Conns : Accept(l, c)
          \/ AcceptFails(l) \/ UnifiedAcceptFails(l) \/ ShutdownDone(l) \/ ListenerClosed(l)
          \/ CloseListener(l) \/ LoopReturns(l)
    \/ \E c \in Conns :
          \/ Admit(c) \/ Handshake(c) \/ Upstream(c)
          \/ LoginIsCancel(c) \/ (\E k \in Keys : CancelLookup(c, k)) \/ ForwardCancel(c)
          \/ Finish(c) \/ Audit(c) \/ RelayEnds(c) \/ Fail(c) \/ Leave(c)

Spec == Init /\ [][Next]_vars

(***************************************************************************)
(* Properties.                                                             *)
(***************************************************************************)
\* The slots in use are those of the connections still in their handshake
\* (cancel requests included): a relaying connection holds none, and no end
\* of a connection, however reached, leaks one or gives one back twice.
HandshakeSlotsAccounted ==
    /\ slots \in 0 .. HandshakeLimit
    /\ LET pending == {c \in Conns : conn[c].at # "admin" /\ conn[c].pc \in
                            Handshaking \cup {"cancel", "forward"}}
       IN  /\ Cardinality(pending) <= slots
           /\ slots <= Cardinality({c \in Conns : conn[c].at # "admin" /\
                                       conn[c].pc \in Handshaking \cup {"cancel", "forward", "leave"}})

\* When client TLS is required no path through the listeners, the detection or
\* the TLS upgrades reaches a password check in plaintext.  At the upstream the
\* instance's TLS mode decides: unless it is "disable", nothing derived from the
\* stored password is sent before the peer is verified; if it is, nobody is
\* verified, and PostgreSQL and Redis may be sent the password itself in the
\* clear, MySQL only a hash.
PasswordsByPolicy ==
    \A c \in Conns :
       /\ (tlsRequired /\ conn[c].at # "admin" /\ conn[c].inst # NoOne
              /\ conn[c].pc \in Handshaking) => conn[c].tls
       /\ conn[c].sent # "none" => conn[c].verified \/ InstTLS[conn[c].inst] = "disable"
       /\ conn[c].sent = "clear" => conn[c].verified \/ conn[c].proto # "mysql"

\* A cancel request is forwarded only to the instance of the one connection that
\* held its key when it was looked up (the session may be over by the time the
\* request arrives: nothing looks again), and no route outlives its connection.
CancelReachesItsSession ==
    /\ \A r \in routes : conn[r.conn].key = r.key /\ conn[r.conn].inst = r.inst
    /\ \A c \in Conns : conn[c].pc = "forward" =>
          \E d \in Conns : conn[c].aim = {<<d, conn[c].inst>>}

\* Once the connection set is closed, no connection the accept loops let in
\* keeps an open client socket, whichever loop accepted it and whenever; and
\* the gateway has returned only when nothing of it is left.
ShutdownReachesEveryConnection ==
    /\ shut => \A c \in Conns : Serving(c) => ~conn[c].sock
    /\ phase = "returned" =>
          /\ open = {} /\ routes = {} /\ slots = 0
          /\ \A c \in Conns : conn[c].at \in {"none", "admin"}

(* Nothing leaks at the listeners: every handshake slot is held by a         *)
(* connection that will return it, and a shutdown reaches every connection.  *)
ListenersAccounted == HandshakeSlotsAccounted /\ ShutdownReachesEveryConnection

(* Passwords travel as the gateway's and the instance's TLS modes have it,   *)
(* and a cancel request goes where its key pointed when it was looked up.    *)
PolicyOnTheWire == PasswordsByPolicy /\ CancelReachesItsSession
=============================================================================
