---------------------------- MODULE DatabaseRelay ----------------------------
(***************************************************************************)
(* One database connection through the gateway: dbproxy.handleGatewayConn, *)
(* the relay of relayGatewayConnection (two copy goroutines and the        *)
(* goroutine that coordinates them), the MySQL query observer they share   *)
(* under its mutex, and the connectionRecorder the observer reports to.    *)
(*                                                                         *)
(* Commands are 1 .. MaxCommands in the order the client sends them; bytes *)
(* move in whole packets (a partial packet only waits in a buffer).  Time  *)
(* is absent: a deadline that is armed may fire at any later moment.       *)
(***************************************************************************)
EXTENDS Integers, Sequences, FiniteSets

CONSTANTS
    Kinds,        \* kinds of commands the client may send, see below
    MaxCommands,  \* bound: commands the client sends
    PendingLimit, \* maxObserverPendingQueries (32)
    MaxFaults     \* bound: audit write errors and observer panics together

ASSUME RelayAssumption ==
    /\ Kinds \subseteq {"query", "ping", "quit", "bad"}
    /\ MaxCommands \in Nat \ {0} /\ PendingLimit \in Nat \ {0} /\ MaxFaults \in Nat

VARIABLES
    kind,       \* [Command -> Kinds]: what each command is
    client,     \* the client's end: what it sent, its stream, what it received
    server,     \* the upstream's end: what reached it, its answers, its stream
    conn,       \* local state of the two connections: closed, deadlines
    relay,      \* relayCoordinator: drainClient, terminal, holder of clientWriteMu
    observer,   \* mysqlObserver: pending commands, fatal
    recorder,   \* connectionRecorder: start events and finish attempts
    reader,     \* goroutine runClientToUpstream
    writer,     \* goroutine runUpstreamToClient
    main,       \* handleGatewayConn and relayGatewayConnectionWithDrainTimeout
    results,    \* channel of relayResult
    session,    \* the audit session row
    faults      \* faults still available to the environment

peers == <<kind, client, server>>
vars == <<peers, conn, relay, observer, recorder, reader, writer, main, results, session, faults>>

-----------------------------------------------------------------------------
Command == 1..MaxCommands
\* COM_QUERY is audited and answered, COM_PING answered, COM_QUIT neither; a
\* malformed packet, a command validMySQLClientCommand rejects and a text over the
\* audit limit are "bad".
Audited(q) == kind[q] = "query"
ExpectsResponse(q) == kind[q] \in {"query", "ping"}

\* A response is any number of packets ending in OK (EOF) or ERR; a packet out
\* of sequence or undecodable is "bad".
PacketKinds == {"part", "ok", "err", "bad"}
Packets == [q : Command, kind : PacketKinds]
Final(p) == p.kind \in {"ok", "err"}
GatewayError == [q |-> 0, kind |-> "gatewayError"]

Stored == {"both", "event", "none"}  \* queries.jsonl line and audit_db_queries row
Finishes == [status : {"success", "error"}, stored : Stored]
Errors == {"eof", "io", "decision", "panic", "drained"}
Results == [side : {"client", "server"}, err : Errors]
NoResult == [side |-> "client", err |-> "drained"]

\* Every variable holds a value of its type.
TypeOK ==
    /\ kind \in [Command -> Kinds]
    /\ client \in [sent : 0..MaxCommands, inbox : Seq(Command),
                   stream : {"open", "eof", "reset"}, got : Seq(Packets \cup {GatewayError})]
    /\ server \in [inbox : Seq(Command), out : Seq(Packets), stream : {"open", "closed"},
                   reply : [Command -> {"none", "part", "ok", "err"}]]
    /\ conn \in [closed : BOOLEAN, readDeadline : BOOLEAN, writeDeadline : BOOLEAN]
    /\ relay \in [drainClient : BOOLEAN, terminal : BOOLEAN,
                  clientWriteMu : {"free", "server", "main"}]
    /\ observer \in [pending : Seq(Command), fatal : BOOLEAN]
    /\ Len(observer.pending) <= PendingLimit
    /\ recorder \in [started : SUBSET Command, finishes : [Command -> Seq(Finishes)]]
    /\ reader \in [pc : {"off", "read", "observe", "forward", "done"},
                   data : Seq(Command), failed : BOOLEAN]
    /\ writer \in [pc : {"off", "read", "observe", "arm", "lock", "write", "drained?",
                         "pending?", "done"},
                   data : Seq(Packets), failed : BOOLEAN]
    /\ main \in [pc : {"create", "record", "register", "first", "store", "pending?", "second",
                       "terminate", "hasPending", "abort?", "abort", "lockClient",
                       "writeError", "close", "await", "unregister", "end", "returned"},
                 path : {"normal", "idle", "drain", "timeout", "final"}, result : Results]
    /\ results \in Seq(Results) /\ Len(results) <= 2
    /\ session \in {"none", "started", "ended"}
    /\ faults \in 0..MaxFaults

Init ==
    /\ kind \in [Command -> Kinds]
    /\ client = [sent |-> 0, inbox |-> <<>>, stream |-> "open", got |-> <<>>]
    /\ server = [inbox |-> <<>>, out |-> <<>>, stream |-> "open",
                 reply |-> [q \in Command |-> "none"]]
    /\ conn = [closed |-> FALSE, readDeadline |-> FALSE, writeDeadline |-> FALSE]
    /\ relay = [drainClient |-> FALSE, terminal |-> FALSE, clientWriteMu |-> "free"]
    /\ observer = [pending |-> <<>>, fatal |-> FALSE]
    /\ recorder = [started |-> {}, finishes |-> [q \in Command |-> <<>>]]
    /\ reader = [pc |-> "off", data |-> <<>>, failed |-> FALSE]
    /\ writer = [pc |-> "off", data |-> <<>>, failed |-> FALSE]
    /\ main = [pc |-> "create", path |-> "normal", result |-> NoResult]
    /\ results = <<>>
    /\ session = "none"
    /\ faults = MaxFaults

-----------------------------------------------------------------------------
(* The two peers, until the gateway has closed its ends: what they do later *)
(* reaches nobody.                                                          *)

Drop(s, n) == SubSeq(s, n + 1, Len(s))
Take(s, n) == SubSeq(s, 1, n)

ClientSends ==
    /\ ~conn.closed /\ client.stream = "open" /\ client.sent < MaxCommands
    /\ client' = [client EXCEPT !.sent = @ + 1, !.inbox = Append(@, client.sent + 1)]
    /\ UNCHANGED <<kind, server, conn, relay, observer, recorder, reader, writer, main, results,
                   session, faults>>

\* The client closes its side of the stream, or the connection breaks.
ClientCloses ==
    /\ ~conn.closed /\ client.stream # "reset"
    /\ \E s \in {"eof", "reset"} \ {client.stream} : client' = [client EXCEPT !.stream = s]
    /\ UNCHANGED <<kind, server, conn, relay, observer, recorder, reader, writer, main, results,
                   session, faults>>

\* The upstream answers the oldest command that expects an answer, in packets.
ServerAnswers ==
    /\ ~conn.closed /\ server.stream = "open" /\ server.inbox # <<>>
    /\ LET q == Head(server.inbox) IN
       \/ /\ ExpectsResponse(q) /\ server.reply[q] = "none"
          /\ server' = [server EXCEPT !.out = Append(@, [q |-> q, kind |-> "part"]),
                                      !.reply[q] = "part"]
       \/ \E k \in {"ok", "err"} :
             /\ ExpectsResponse(q)
             /\ server' = [server EXCEPT !.out = Append(@, [q |-> q, kind |-> k]),
                                         !.reply[q] = k, !.inbox = Tail(@)]
       \/ /\ kind[q] = "quit"
          /\ server' = [server EXCEPT !.stream = "closed", !.inbox = Tail(@)]
    /\ UNCHANGED <<kind, client, conn, relay, observer, recorder, reader, writer, main, results,
                   session, faults>>

\* The upstream closes the stream, possibly after a packet nobody asked for.
ServerCloses ==
    /\ ~conn.closed /\ server.stream = "open"
    /\ \E last \in {<<>>, <<[q |-> 1, kind |-> "bad"]>>} :
          server' = [server EXCEPT !.stream = "closed", !.out = @ \o last]
    /\ UNCHANGED <<kind, client, conn, relay, observer, recorder, reader, writer, main, results,
                   session, faults>>

-----------------------------------------------------------------------------
(* connectionRecorder.                                                     *)

\* FinishQuery for the commands of qs, each with its status; stored says how
\* much of each record reached the disk and the database.
FinishQuery(qs, status, stored) ==
    [recorder EXCEPT !.finishes =
        [q \in Command |->
            IF q \in qs THEN Append(@[q], [status |-> status[q], stored |-> stored[q]])
            ELSE @[q]]]

AuditErrors(qs, stored) == Cardinality({q \in qs : stored[q] # "both"})

\* A recorder whose errors are only logged.
ReportFatalLogs(failed) == conn

\* reportFatal: the first audit error closes both connections.
ReportFatal(failed) == [conn EXCEPT !.closed = @ \/ failed]

\* mysqlObserver.failDecision: every audited command still pending is finished
\* as an error and the observer answers every later call with the same decision.
FailDecision == [pending |-> <<>>, fatal |-> TRUE]

Elements(s) == {s[i] : i \in DOMAIN s}
AuditedIn(s) == {q \in Elements(s) : Audited(q)}
AllError == [q \in Command |-> "error"]

-----------------------------------------------------------------------------
(* runClientToUpstream.                                                    *)

ReaderEnds(err) ==
    /\ reader' = [reader EXCEPT !.pc = "done", !.data = <<>>]
    /\ results' = Append(results, [side |-> "client", err |-> err])

ClientRead ==
    /\ reader.pc = "read"
    /\ \/ \E n \in 1..Len(client.inbox) :
             /\ ~conn.closed /\ client.stream # "reset"
             /\ reader' = [reader EXCEPT !.pc = "observe", !.data = Take(client.inbox, n)]
             /\ client' = [client EXCEPT !.inbox = Drop(@, n)]
             /\ UNCHANGED results
       \/ /\ client.stream = "eof" /\ client.inbox = <<>> /\ ~conn.closed
          /\ ReaderEnds("eof") /\ UNCHANGED client
       \/ /\ conn.closed \/ client.stream = "reset"
          /\ ReaderEnds("io") /\ UNCHANGED client
    /\ UNCHANGED <<kind, server, conn, relay, observer, recorder, writer, main, session, faults>>

\* handleClientPacket accepts the first n packets of data: each command that
\* expects an answer is enqueued, each query has its start event written.
Pending(s) == SelectSeq(s, ExpectsResponse)
Accepts(n) ==
    /\ \A i \in 1..n : kind[reader.data[i]] # "bad"
    /\ Len(observer.pending) + Len(Pending(Take(reader.data, n))) <= PendingLimit
Refuses(q, n) ==
    \/ kind[q] = "bad"
    \/ /\ ExpectsResponse(q)
       /\ Len(observer.pending) + Len(Pending(Take(reader.data, n))) >= PendingLimit

\* ObserveClientRelayBytes, under the mutex of serializedQueryObserver.  The
\* loop over the packets stops at the first refused one, or where the SQL text
\* cannot be captured or its start event not be written (only the latter is a
\* reportFatal); what it accepted before is still forwarded.
ClientObserve ==
    /\ reader.pc = "observe" /\ ~observer.fatal
    /\ \E n \in 0..Len(reader.data) :
          LET taken  == Take(reader.data, n)
              queue  == observer.pending \o Pending(taken)
              opened == [recorder EXCEPT !.started = @ \cup AuditedIn(taken)]
          IN
          /\ Accepts(n)
          /\ reader' = [reader EXCEPT !.pc = "forward", !.data = taken,
                                      !.failed = n < Len(reader.data)]
          /\ \/ /\ n = Len(reader.data)
                /\ observer' = [observer EXCEPT !.pending = queue]
                /\ recorder' = opened
                /\ UNCHANGED <<conn, faults>>
             \/ /\ n < Len(reader.data)
                /\ \E auditError \in {"none", "capture", "start"},
                      stored \in [AuditedIn(queue) -> Stored] :
                      LET q == reader.data[n + 1]
                          lost == AuditErrors(AuditedIn(queue), stored)
                          cost == lost + (IF auditError = "none" THEN 0 ELSE 1)
                      IN
                      /\ IF auditError = "none" THEN Refuses(q, n)
                         ELSE Audited(q) /\ ~Refuses(q, n)
                      /\ cost <= faults
                      /\ faults' = faults - cost
                      /\ conn' = ReportFatal(lost > 0 \/ auditError = "start")
                      /\ observer' = FailDecision
                      /\ recorder' = [FinishQuery(AuditedIn(queue), AllError, stored)
                                        EXCEPT !.started = opened.started]
    /\ UNCHANGED <<peers, relay, writer, main, results, session>>

\* The observer has already failed, or it panics: nothing of data is forwarded.
ClientObserveFails ==
    /\ reader.pc = "observe"
    /\ \/ /\ observer.fatal
          /\ ReaderEnds("decision") /\ UNCHANGED faults
       \/ /\ ~observer.fatal /\ faults > 0
          /\ ReaderEnds("panic") /\ faults' = faults - 1
    /\ UNCHANGED <<peers, conn, relay, observer, recorder, writer, main, session>>

\* writeRelayBytes to the upstream; a write that fails may have sent a prefix.
ClientForward ==
    /\ reader.pc = "forward"
    /\ \/ /\ reader.data = <<>> \/ ~conn.closed
          /\ server' = [server EXCEPT !.inbox = @ \o reader.data]
          /\ IF reader.failed
             THEN ReaderEnds("decision")
             ELSE /\ reader' = [reader EXCEPT !.pc = "read", !.data = <<>>]
                  /\ UNCHANGED results
       \/ \E n \in 0..(Len(reader.data) - 1) :
             /\ conn.closed \/ server.stream = "closed"
             /\ server' = [server EXCEPT !.inbox = @ \o Take(reader.data, n)]
             /\ ReaderEnds("io")
    /\ UNCHANGED <<kind, client, conn, relay, observer, recorder, writer, main, session, faults>>

-----------------------------------------------------------------------------
(* runUpstreamToClient.                                                    *)

WriterEnds(err) ==
    /\ writer' = [writer EXCEPT !.pc = "done", !.data = <<>>]
    /\ results' = Append(results, [side |-> "server", err |-> err])

ServerRead ==
    /\ writer.pc = "read"
    /\ \/ \E n \in 1..Len(server.out) :
             /\ ~conn.closed /\ ~conn.readDeadline
             /\ writer' = [writer EXCEPT !.pc = "observe", !.data = Take(server.out, n)]
             /\ server' = [server EXCEPT !.out = Drop(@, n)]
             /\ UNCHANGED results
       \/ /\ conn.closed \/ conn.readDeadline \/ (server.out = <<>> /\ server.stream = "closed")
          /\ WriterEnds("io") /\ UNCHANGED server
    /\ UNCHANGED <<kind, client, conn, relay, observer, recorder, reader, main, session, faults>>

Finals(n) == SelectSeq(Take(writer.data, n), Final)
\* acceptMySQLServerSequence and handleServerPacket accept the first n packets:
\* each is well formed and answers a command that is pending.
Understands(n) ==
    \A i \in 1..n : writer.data[i].kind # "bad" /\ Len(Finals(i - 1)) < Len(observer.pending)

\* finishMySQLPending: the j-th final packet finishes the j-th pending command.
Outcome(queue, finals) ==
    [q \in Command |->
        IF \E j \in DOMAIN finals : queue[j] = q /\ finals[j].kind = "ok"
        THEN "success" ELSE "error"]

\* ObserveServerRelayBytes, under the mutex.  A finish that cannot be stored
\* does not stop the loop; reportFatal has then closed the connections.
ServerObserve ==
    /\ writer.pc = "observe" /\ ~observer.fatal
    /\ \E n \in 0..Len(writer.data) :
          LET finals   == Finals(n)
              all      == n = Len(writer.data)
              answered == IF all THEN Take(observer.pending, Len(finals)) ELSE observer.pending
              audited  == AuditedIn(answered)
          IN
          /\ Understands(n) /\ (~all => ~Understands(n + 1))
          /\ writer' = [writer EXCEPT !.pc = "arm", !.data = Take(@, n), !.failed = ~all]
          /\ observer' = IF all THEN [observer EXCEPT !.pending = Drop(@, Len(finals))]
                         ELSE FailDecision
          /\ \E stored \in [audited -> Stored] :
                /\ AuditErrors(audited, stored) <= faults
                /\ faults' = faults - AuditErrors(audited, stored)
                /\ conn' = ReportFatal(AuditErrors(audited, stored) > 0)
                /\ recorder' = FinishQuery(audited, Outcome(observer.pending, finals), stored)
    /\ UNCHANGED <<peers, relay, reader, main, results, session>>

ServerObserveFails ==
    /\ writer.pc = "observe"
    /\ \/ /\ observer.fatal
          /\ WriterEnds("decision") /\ UNCHANGED faults
       \/ /\ ~observer.fatal /\ faults > 0
          /\ WriterEnds("panic") /\ faults' = faults - 1
    /\ UNCHANGED <<peers, conn, relay, observer, recorder, reader, main, session>>

\* armDrainWriteDeadline, when there is something to write.
ArmDrainWriteDeadline ==
    /\ writer.pc = "arm"
    /\ IF writer.data # <<>>
       THEN /\ writer' = [writer EXCEPT !.pc = "lock"]
            /\ conn' = [conn EXCEPT !.writeDeadline = @ \/ relay.drainClient]
            /\ UNCHANGED results
       ELSE /\ IF writer.failed THEN WriterEnds("decision")
               ELSE writer' = [writer EXCEPT !.pc = "drained?"] /\ UNCHANGED results
            /\ UNCHANGED conn
    /\ UNCHANGED <<peers, relay, observer, recorder, reader, main, session, faults>>

\* writeClient takes clientWriteMu; after a gateway error nothing is written.
LockClientWrite ==
    /\ writer.pc = "lock" /\ relay.clientWriteMu = "free"
    /\ IF relay.terminal
       THEN WriterEnds("io") /\ UNCHANGED relay
       ELSE /\ writer' = [writer EXCEPT !.pc = "write"]
            /\ relay' = [relay EXCEPT !.clientWriteMu = "server"]
            /\ UNCHANGED results
    /\ UNCHANGED <<peers, conn, observer, recorder, reader, main, session, faults>>

ClientWriteFails == conn.closed \/ conn.writeDeadline \/ client.stream # "open"

ServerWrite ==
    /\ writer.pc = "write"
    /\ relay' = [relay EXCEPT !.clientWriteMu = "free"]
    /\ \/ /\ ~conn.closed /\ client.stream # "reset"
          /\ client' = [client EXCEPT !.got = @ \o writer.data]
          /\ IF writer.failed THEN WriterEnds("decision")
             ELSE /\ writer' = [writer EXCEPT !.pc = "drained?", !.data = <<>>]
                  /\ UNCHANGED results
       \/ \E n \in 0..(Len(writer.data) - 1) :
             /\ ClientWriteFails
             /\ client' = [client EXCEPT !.got = @ \o (IF conn.closed THEN <<>> ELSE Take(writer.data, n))]
             /\ WriterEnds("io")
    /\ UNCHANGED <<kind, server, conn, observer, recorder, reader, main, session, faults>>

\* drainClient.Load() after the write, then HasPending.
CheckDrained ==
    /\ writer.pc = "drained?"
    /\ writer' = [writer EXCEPT !.pc = IF relay.drainClient THEN "pending?" ELSE "read"]
    /\ UNCHANGED <<peers, conn, relay, observer, recorder, reader, main, results, session, faults>>

CheckPending ==
    /\ writer.pc = "pending?"
    /\ IF observer.pending = <<>>
       THEN WriterEnds("drained")
       ELSE writer' = [writer EXCEPT !.pc = "read"] /\ UNCHANGED results
    /\ UNCHANGED <<peers, conn, relay, observer, recorder, reader, main, session, faults>>

-----------------------------------------------------------------------------
(* handleGatewayConn up to the relay, and the relay's coordinator.          *)

Goto(pc) == main' = [main EXCEPT !.pc = pc]

\* CreateAuditSession fails: writeAuditUnavailableResponse, and no relay.
CreateAuditSession ==
    /\ main.pc = "create"
    /\ \/ Goto("record") /\ session' = "started" /\ UNCHANGED faults
       \/ /\ faults > 0 /\ faults' = faults - 1
          /\ Goto("returned") /\ UNCHANGED session
    /\ UNCHANGED <<peers, conn, relay, observer, recorder, reader, writer, results>>

NewRecorder ==
    /\ main.pc = "record"
    /\ \/ Goto("register") /\ UNCHANGED faults
       \/ faults > 0 /\ faults' = faults - 1 /\ Goto("end")
    /\ UNCHANGED <<peers, conn, relay, observer, recorder, reader, writer, results, session>>

\* onlineSessions.Register, then the two copy goroutines start.
StartRelay ==
    /\ main.pc = "register"
    /\ Goto("first")
    /\ reader' = [reader EXCEPT !.pc = "read"]
    /\ writer' = [writer EXCEPT !.pc = "read"]
    /\ UNCHANGED <<peers, conn, relay, observer, recorder, results, session, faults>>

\* The disconnect callback of the online session closes both connections.
Disconnect ==
    /\ main.pc \notin {"create", "record", "register", "end", "returned"}
    /\ ~conn.closed
    /\ conn' = [conn EXCEPT !.closed = TRUE]
    /\ UNCHANGED <<peers, relay, observer, recorder, reader, writer, main, results, session, faults>>

FirstResult ==
    /\ main.pc = "first" /\ results # <<>>
    /\ main' = [main EXCEPT !.result = Head(results),
                            !.pc = IF Head(results) = [side |-> "client", err |-> "eof"]
                                   THEN "store" ELSE "terminate"]
    /\ results' = Tail(results)
    /\ UNCHANGED <<peers, conn, relay, observer, recorder, reader, writer, session, faults>>

\* The flag is never stored.
StoreNothing ==
    /\ main.pc = "store"
    /\ Goto("pending?")
    /\ UNCHANGED <<peers, conn, relay, observer, recorder, reader, writer, results, session, faults>>

StoreDrainClient ==
    /\ main.pc = "store"
    /\ relay' = [relay EXCEPT !.drainClient = TRUE]
    /\ Goto("pending?")
    /\ UNCHANGED <<peers, conn, observer, recorder, reader, writer, results, session, faults>>

\* The upstream goroutine is left waiting for bytes.
DrainPendingWithoutDeadline ==
    /\ main.pc = "pending?"
    /\ main' = [main EXCEPT !.pc = "second",
                            !.path = IF observer.pending = <<>> THEN "idle" ELSE "drain"]
    /\ UNCHANGED <<peers, conn, relay, observer, recorder, reader, writer, results, session, faults>>

\* Nothing pending: the deadlines end the other goroutine.
DrainPending ==
    /\ main.pc = "pending?"
    /\ IF observer.pending = <<>>
       THEN /\ conn' = [conn EXCEPT !.writeDeadline = TRUE, !.readDeadline = TRUE]
            /\ main' = [main EXCEPT !.pc = "second", !.path = "idle"]
       ELSE /\ main' = [main EXCEPT !.pc = "second", !.path = "drain"]
            /\ UNCHANGED conn
    /\ UNCHANGED <<peers, relay, observer, recorder, reader, writer, results, session, faults>>

SecondResult ==
    /\ main.pc = "second" /\ results # <<>>
    /\ main' = [main EXCEPT !.pc = "terminate", !.result = Head(results)]
    /\ results' = Tail(results)
    /\ UNCHANGED <<peers, conn, relay, observer, recorder, reader, writer, session, faults>>

\* waitForPendingDrain: the timer of relayPendingDrainTimeout.
DrainTimeout ==
    /\ main.pc = "second" /\ main.path = "drain"
    /\ main' = [main EXCEPT !.pc = "abort?", !.path = "timeout"]
    /\ UNCHANGED <<peers, conn, relay, observer, recorder, reader, writer, results, session, faults>>

\* handleRelayTermination
HandleRelayTermination ==
    /\ main.pc = "terminate"
    /\ Goto(CASE main.result.err = "panic" -> "abort?"
              [] main.result.err = "decision" -> "lockClient"
              [] main.result.err = "drained" -> "close"
              [] main.result.err \in {"eof", "io"} -> "hasPending")
    /\ UNCHANGED <<peers, conn, relay, observer, recorder, reader, writer, results, session, faults>>

TerminationHasPending ==
    /\ main.pc = "hasPending"
    /\ Goto(IF observer.pending # <<>> THEN "abort?" ELSE "close")
    /\ UNCHANGED <<peers, conn, relay, observer, recorder, reader, writer, results, session, faults>>

\* abortObserverIfPending: HasPending and Abort take the mutex separately.
AfterAbort == IF main.path = "final" THEN "unregister" ELSE "lockClient"

AbortIfPending ==
    /\ main.pc = "abort?"
    /\ Goto(IF observer.pending # <<>> THEN "abort" ELSE AfterAbort)
    /\ UNCHANGED <<peers, conn, relay, observer, recorder, reader, writer, results, session, faults>>

Abort ==
    /\ main.pc = "abort"
    /\ Goto(AfterAbort)
    /\ observer' = FailDecision
    /\ \E stored \in [AuditedIn(observer.pending) -> Stored] :
          LET cost == AuditErrors(AuditedIn(observer.pending), stored) IN
          /\ cost <= faults
          /\ faults' = faults - cost
          /\ conn' = ReportFatal(cost > 0)
          /\ recorder' = FinishQuery(AuditedIn(observer.pending), AllError, stored)
    /\ UNCHANGED <<peers, relay, reader, writer, results, session>>

\* writeObserverError: TryLock until observerErrorWriteTimeout, then terminal.
LockForError ==
    /\ main.pc = "lockClient"
    /\ IF relay.clientWriteMu = "free"
       THEN /\ relay' = [relay EXCEPT !.clientWriteMu = "main", !.terminal = TRUE]
            /\ Goto("writeError")
       ELSE UNCHANGED relay /\ Goto("close")
    /\ UNCHANGED <<peers, conn, observer, recorder, reader, writer, results, session, faults>>

WriteError ==
    /\ main.pc = "writeError"
    /\ relay' = [relay EXCEPT !.clientWriteMu = "free"]
    /\ conn' = [conn EXCEPT !.writeDeadline = TRUE]
    /\ \/ /\ ~conn.closed /\ client.stream # "reset"
          /\ client' = [client EXCEPT !.got = Append(@, GatewayError)]
       \/ UNCHANGED client
    /\ Goto("close")
    /\ UNCHANGED <<kind, server, observer, recorder, reader, writer, results, session, faults>>

Close ==
    /\ main.pc = "close"
    /\ conn' = [conn EXCEPT !.closed = TRUE]
    /\ Goto(IF main.path \in {"normal", "timeout"} THEN "await" ELSE "unregister")
    /\ UNCHANGED <<peers, relay, observer, recorder, reader, writer, results, session, faults>>

\* The coordinator returns as soon as the other goroutine has.
AwaitOtherOnly ==
    /\ main.pc = "await" /\ results # <<>>
    /\ results' = Tail(results)
    /\ main' = [main EXCEPT !.pc = "unregister"]
    /\ UNCHANGED <<peers, conn, relay, observer, recorder, reader, writer, session, faults>>

\* <-results; the normal path then aborts what the other goroutine still began.
AwaitOther ==
    /\ main.pc = "await" /\ results # <<>>
    /\ results' = Tail(results)
    /\ main' = IF main.path = "normal"
               THEN [main EXCEPT !.pc = "abort?", !.path = "final"]
               ELSE [main EXCEPT !.pc = "unregister"]
    /\ UNCHANGED <<peers, conn, relay, observer, recorder, reader, writer, session, faults>>

\* The deferred calls: the online session goes, the recorder's file is closed,
\* then EndAuditSession, whose error is only logged.
Unregister ==
    /\ main.pc = "unregister"
    /\ Goto("end")
    /\ UNCHANGED <<peers, conn, relay, observer, recorder, reader, writer, results, session, faults>>

EndAuditSession ==
    /\ main.pc = "end"
    /\ Goto("returned")
    /\ \/ session' = "ended" /\ UNCHANGED faults
       \/ faults > 0 /\ faults' = faults - 1 /\ UNCHANGED session
    /\ conn' = [conn EXCEPT !.closed = TRUE]
    /\ UNCHANGED <<peers, relay, observer, recorder, reader, writer, results>>

-----------------------------------------------------------------------------
Reader == ClientRead \/ ClientObserve \/ ClientObserveFails \/ ClientForward
Writer == \/ ServerRead \/ ServerObserve \/ ServerObserveFails \/ ArmDrainWriteDeadline
          \/ LockClientWrite \/ ServerWrite \/ CheckDrained \/ CheckPending
Main == \/ CreateAuditSession \/ NewRecorder \/ StartRelay \/ FirstResult \/ StoreDrainClient
        \/ DrainPending \/ SecondResult \/ DrainTimeout \/ HandleRelayTermination
        \/ TerminationHasPending \/ AbortIfPending \/ Abort \/ LockForError \/ WriteError
        \/ Close \/ AwaitOther \/ Unregister \/ EndAuditSession
Peers == ClientSends \/ ClientCloses \/ ServerAnswers \/ ServerCloses \/ Disconnect

Next == Reader \/ Writer \/ Main \/ Peers

Spec == Init /\ [][Next]_vars

\* The Go scheduler runs every goroutine that can run, timers fire, and I/O on a
\* connection that is closed, reset or past its deadline returns.  A peer need
\* not read, so a write to a peer that is still there need not complete.
WriteReturns ==
    \/ ClientForward /\ (reader.data = <<>> \/ conn.closed)
    \/ ServerWrite /\ (conn.closed \/ conn.writeDeadline \/ client.stream = "reset")
ReaderRuns == ClientRead \/ ClientObserve \/ ClientObserveFails
WriterRuns ==
    \/ ServerRead \/ ServerObserve \/ ServerObserveFails \/ ArmDrainWriteDeadline
    \/ LockClientWrite \/ CheckDrained \/ CheckPending
Fairness == WF_vars(ReaderRuns) /\ WF_vars(WriterRuns) /\ WF_vars(WriteReturns) /\ WF_vars(Main)
LiveSpec == Spec /\ Fairness

-----------------------------------------------------------------------------
(* Properties.                                                             *)

\* recorder.go, StartQuery and FinishQuery: a query reaches the upstream only
\* with its start event on disk, and the client sees the end of an answer only
\* if the line and the row with that very outcome have been stored.
OnlyAuditedTraffic ==
    /\ \A q \in Elements(server.inbox) : Audited(q) => q \in recorder.started
    /\ \A i \in DOMAIN client.got :
          LET p == client.got[i] IN
          p.kind \in {"ok", "err"} /\ Audited(p.q) =>
              recorder.finishes[p.q] =
                  <<[status |-> IF p.kind = "ok" THEN "success" ELSE "error", stored |-> "both"]>>

\* observer_mysql_response.go, finishMySQLPending: an audit record says success
\* only of a command the upstream answered OK, however commands are pipelined.
SuccessIsReal ==
    \A q \in Command : \A i \in DOMAIN recorder.finishes[q] :
        recorder.finishes[q][i].status = "success" => server.reply[q] = "ok"

\* recorder.go, relayGatewayConnectionWithDrainTimeout: no query is finished
\* twice, and when the audit session is closed every query that was started has
\* been finished, whichever side, timer or error ended the relay first.
EvidenceComplete ==
    \A q \in Command :
        /\ Len(recorder.finishes[q]) <= 1
        /\ session = "ended" /\ q \in recorder.started => Len(recorder.finishes[q]) = 1

\* recorder.go, writeObserverError and writeClient: the client reads at most one
\* gateway error and nothing of the upstream's stream after it.
ErrorIsLast ==
    \A i \in DOMAIN client.got : client.got[i] = GatewayError => i = Len(client.got)

\* recorder.go, drainClient and waitForPendingDrain: a drain never idles until its
\* timer.  When the timer fires an answer is still pending, or the copy goroutine
\* is past its read, relaying or making its two checks, or it has ended and its
\* result lies in the channel, where the select may prefer the timer to it; it
\* never waits for bytes of an upstream that owes none, nor has it ended unheard.
DrainNeverIdles ==
    [][main.path = "drain" /\ main'.path = "timeout" =>
          \/ observer.pending # <<>>
          \/ writer.pc \notin {"read", "done"}
          \/ writer.pc = "done" /\ results # <<>>]_vars

\* recorder.go, relayGatewayConnectionWithDrainTimeout: once either copy
\* goroutine has ended, whatever the peers do, the handler returns.
RelayReturns == (reader.pc = "done" \/ writer.pc = "done") ~> main.pc = "returned"

(* What the audit and the client are told is true and complete: success only *)
(* where the upstream said so, one end for every started query, nothing      *)
(* after a gateway error.                                                    *)
RelayRecordIsTrue == SuccessIsReal /\ EvidenceComplete /\ ErrorIsLast
=============================================================================
