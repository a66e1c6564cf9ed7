--------------------------- MODULE PostgresObserver ---------------------------
(***************************************************************************)
(* dbproxy.postgresObserver: how the gateway follows the PostgreSQL        *)
(* protocol of one connection, to record which SQL every Query and Execute *)
(* ran and how it ended.  Client messages are observed before they are     *)
(* forwarded and server messages before they are returned, each under the  *)
(* mutex of serializedQueryObserver; what is forwarded reaches the server  *)
(* later, so the observer keeps a queue of operations the server has not   *)
(* confirmed and answers questions about names from the projected state.   *)
(*                                                                         *)
(* A statement or a portal maps a name to an SQL text; byte lengths are    *)
(* absent, so a limit on bytes may refuse any message.  COPY data, Flush,  *)
(* notices and parameter status pass through without touching the state.   *)
(***************************************************************************)
EXTENDS Integers, Sequences, SequencesExt, FiniteSets

CONSTANTS
    Statements,     \* names of prepared statements, Unnamed among them
    Portals,        \* names of portals, Unnamed among them
    Sql,            \* SQL texts
    Types,          \* message types the client may send
    Blocks,         \* the SQL texts may begin and end transaction blocks
    Pipelined,      \* the client starts a batch before the last one was answered
    MaxMessages,    \* bound: messages the client sends
    MaxChanges,     \* bound: texts that change the names of statements and cursors
    PendingLimit,   \* maxObserverPendingQueries (32)
    ObjectLimit,    \* maxObserverPreparedObjects (128)
    OperationLimit  \* maxPostgresPendingOperations (512)

Unnamed == ""
NoSql == "-"

ASSUME ObserverAssumption ==
    /\ Unnamed \in Statements \cap Portals /\ NoSql \notin Sql
    /\ Types \subseteq {"Q", "P", "B", "E", "S", "C", "D"} /\ {Blocks, Pipelined} \subseteq BOOLEAN
    /\ MaxChanges \in Nat
    /\ {MaxMessages, PendingLimit, ObjectLimit, OperationLimit} \subseteq Nat \ {0}

VARIABLES
    prepared,   \* preparedStatements: [Statements -> Sql or NoSql], confirmed
    portals,    \* portals: [Portals -> Sql or NoSql], confirmed
    operations, \* operations: what the server has not answered yet, in order
    cycles,     \* cycles: batches that end with a Query or a Sync sent already
    openCycle,  \* openCycle: Executes since the last Sync; nil has no entries
    pending,    \* pending: records that are not finished, in order
    stream,     \* clientStream: the large message being relayed in chunks
    fatal,      \* fatal: why the observer gave up
    log,        \* the sink: for each record its text and how it was finished
    client,     \* how many messages it sent, whether it is inside a batch, and
                \* the number of batches it waits for
    server,     \* what the server holds and how it dealt with each record
    replies     \* server messages the gateway has not read yet

observer == <<prepared, portals, operations, cycles, openCycle, pending, stream, fatal, log>>
vars == <<observer, client, server, replies>>

-----------------------------------------------------------------------------
Texts == Sql \cup {NoSql}
Ids == 1..MaxMessages  \* records, numbered in the order they were started
NoId == 0

\* A message of the client; id is the record it was started under, which only
\* the model knows.  An operation of the observer is what it keeps of a message:
\* for a Bind the text its statement was projected to have.
Message == [type : Types, name : Statements \cup Portals, target : {"S", "P"},
            statement : Statements, sql : Texts, id : Ids \cup {NoId}]
Blank == [type |-> "S", name |-> Unnamed, target |-> "S", statement |-> Unnamed, sql |-> NoSql, id |-> NoId]
Messages ==
    {m \in
        {[Blank EXCEPT !.type = "Q", !.sql = q] : q \in Sql}
        \cup {[Blank EXCEPT !.type = "P", !.name = s, !.sql = q] : s \in Statements, q \in Sql}
        \cup {[Blank EXCEPT !.type = "B", !.name = p, !.statement = s] : p \in Portals, s \in Statements}
        \cup {[Blank EXCEPT !.type = "E", !.name = p] : p \in Portals}
        \cup {[Blank EXCEPT !.type = "C", !.target = "S", !.name = s] : s \in Statements}
        \cup {[Blank EXCEPT !.type = "C", !.target = "P", !.name = p] : p \in Portals}
        \cup {[Blank EXCEPT !.type = t] : t \in {"S", "D"}} : m.type \in Types}
Idle == [Blank EXCEPT !.type = "idle"]  \* clientStream is nil

Statuses == {"none", "success", "error", "unknown", "aborted", "failed"}
\* "refused" stands for every code of a message the client should not have sent
\* and of a relay that gave up.
Codes == {"none", "refused", "audit", "answer", "syncError", "boundary"}
Entry == [id : Ids, status : Statuses, completed : BOOLEAN]
NoCycle == [simple |-> FALSE, entries |-> << >>]
Txn == {"I", "T", "E"}
\* CommandComplete and EmptyQueryResponse are treated alike, and so are
\* RowDescription and NoData.
Reply == [type : {"1", "2", "3", "T", "C", "s", "E", "Z"}, txn : Txn]

-----------------------------------------------------------------------------
(* The observer's state and what it is projected to become.                *)

\* Mutant of StatementAfter: Close only closes portals.
StatementKept(op, s, text) ==
    CASE op.type = "P" /\ op.name = s -> op.sql
      [] op.type = "Q" /\ s = Unnamed -> NoSql
      [] OTHER -> text
\* applyPostgresStateOperation, on one name of each table.
StatementAfter(op, s, text) ==
    CASE op.type = "P" /\ op.name = s -> op.sql
      [] op.type = "C" /\ op.target = "S" /\ op.name = s -> NoSql
      [] op.type = "Q" /\ s = Unnamed -> NoSql
      [] OTHER -> text
PortalAfter(op, p, text) ==
    CASE op.type = "B" /\ op.name = p -> op.sql
      [] op.type = "C" /\ op.target = "P" /\ op.name = p -> NoSql
      [] op.type = "Q" /\ p = Unnamed -> NoSql
      [] OTHER -> text
ApplyOperation(op) ==
    /\ prepared' = [s \in Statements |-> StatementAfter(op, s, prepared[s])]
    /\ portals' = [p \in Portals |-> PortalAfter(op, p, portals[p])]

\* Mutant of ProjectedStatement: the queue of unconfirmed operations is ignored.
ConfirmedStatement(s) == prepared[s]
ProjectedStatement(s) ==
    FoldLeft(LAMBDA text, op : StatementAfter(op, s, text), prepared[s], operations)
ProjectedPortal(p) ==
    FoldLeft(LAMBDA text, op : PortalAfter(op, p, text), portals[p], operations)

\* Mutant of FailFrom: the unfinished records are forgotten.
FailForgetting(code, done, unfinished) ==
    /\ fatal' = code /\ log' = done
    /\ prepared' = [s \in Statements |-> NoSql]
    /\ portals' = [p \in Portals |-> NoSql]
    /\ operations' = << >> /\ cycles' = << >> /\ openCycle' = NoCycle
    /\ pending' = << >> /\ stream' = Idle
\* failDecision: every record in unfinished is finished as an error, the sink may
\* fail for some of them, and all protocol state is dropped.
FailFrom(code, done, unfinished) ==
    \E lost \in SUBSET unfinished :
        /\ fatal' = IF lost = {} THEN code ELSE "audit"
        /\ log' = [i \in Ids |-> IF i \in unfinished
                                 THEN [done[i] EXCEPT !.status = IF i \in lost THEN "failed" ELSE "aborted"]
                                 ELSE done[i]]
        /\ prepared' = [s \in Statements |-> NoSql]
        /\ portals' = [p \in Portals |-> NoSql]
        /\ operations' = << >> /\ cycles' = << >> /\ openCycle' = NoCycle
        /\ pending' = << >> /\ stream' = Idle
Fail(code) == FailFrom(code, log, Range(pending))

\* The relay or the drain timer gives up on the connection.
Abort ==
    /\ fatal = "none"
    /\ Fail("refused")
    /\ UNCHANGED <<client, server, replies>>

-----------------------------------------------------------------------------
(* The server (external), as the PostgreSQL protocol has it: it answers in *)
(* order, discards everything after an error of the extended protocol up   *)
(* to the Sync, and closes every portal when a transaction ends.  It       *)
(* depends on nothing but the messages forwarded to it, so its step is     *)
(* taken with the forwarding; its answers wait in replies.                 *)

Answer(types, txn) == replies' = replies \o [i \in DOMAIN types |-> [type |-> types[i], txn |-> txn]]
Decided(id, outcome) == IF id = NoId THEN server.truth ELSE [server.truth EXCEPT ![id] = outcome]
Ran(id, text) == IF id = NoId THEN server.ran ELSE [server.ran EXCEPT ![id] = text]
NoPortals == [p \in Portals |-> NoSql]
Unnaming(table) == [table EXCEPT ![Unnamed] = NoSql]
AfterError == IF server.txn = "I" THEN "I" ELSE "E"
AfterCommand == IF Blocks /\ server.txn # "E" THEN {"I", "T"} ELSE {"I"}

\* PREPARE, DEALLOCATE, DECLARE, CLOSE and DISCARD ALL are SQL, which the observer
\* does not parse, and share the names of the protocol's statements and portals.
\* A change leaves one name with another text, or drops all of them; one that
\* replaces a text takes two statements, which only a simple query can hold, and a
\* cursor that ends with the transaction is no change.
Change == [on : {"none", "S", "P", "all"}, name : Statements \cup Portals, sql : Texts]
NoChange == [on |-> "none", name |-> Unnamed, sql |-> NoSql]
Changes(single) ==
    {NoChange} \cup
    {c \in Change :
        /\ server.changes < MaxChanges
        /\ \/ /\ c.on = "S" /\ c.name \in Statements \ {Unnamed}
              /\ c.sql # server.prepared[c.name]
              /\ single => NoSql \in {c.sql, server.prepared[c.name]}
           \/ /\ c.on = "P" /\ c.name \in Portals \ {Unnamed}
              /\ c.sql # server.portals[c.name]
              /\ single => NoSql \in {c.sql, server.portals[c.name]}
           \/ c = [NoChange EXCEPT !.on = "all"] /\ server.txn = "I"}
StatementsAfter(c, table) ==
    CASE c.on = "S" -> [table EXCEPT ![c.name] = c.sql]
      [] c.on = "all" -> [s \in Statements |-> IF s = Unnamed THEN table[s] ELSE NoSql]
      [] OTHER -> table
PortalsAfter(c, table) ==
    CASE c.on = "P" -> [table EXCEPT ![c.name] = c.sql]
      [] c.on = "all" -> NoPortals
      [] OTHER -> table
\* The names whose text the server has from SQL.  A name is the protocol's again
\* once a Parse, a Bind from a statement of the protocol or a Close succeeds on it,
\* and portals end with the transaction.
ForeignAfter(c, foreign) ==
    CASE c.on \in {"S", "P"} -> foreign \cup {<<c.on, c.name>>}
      [] c.on = "all" -> {"S"} \X (Statements \ {Unnamed})
      [] OTHER -> foreign
Ended(foreign) == foreign \cap ({"S"} \X Statements)
Owned(foreign, kind, name) == foreign \ {<<kind, name>>}

ServerDiscards(m) ==
    /\ server.skipping /\ m.type # "S"
    /\ server' = [server EXCEPT !.truth = Decided(m.id, "skipped")]
    /\ UNCHANGED replies

\* The commit of an implicit transaction may fail on a deferred constraint.
ServerSync(m) ==
    /\ m.type = "S"
    /\ server' = [server EXCEPT !.skipping = FALSE,
                                !.portals = IF server.txn = "I" THEN NoPortals ELSE @,
                                !.foreign = IF server.txn = "I" THEN Ended(@) ELSE @]
    /\ \/ Answer(<<"Z">>, server.txn)
       \/ ~server.skipping /\ server.txn = "I" /\ Answer(<<"E", "Z">>, "I")

\* A simple query of one or two statements.
ServerQuery(m) ==
    /\ m.type = "Q" /\ ~server.skipping
    /\ \E c \in Changes(FALSE), outcome \in {"success", "error"} :
          \E txn \in IF outcome = "success" THEN AfterCommand ELSE {AfterError} :
             LET over == txn = "I" \/ outcome = "error"
             IN  /\ (c.on = "all" => txn = "I") /\ (c.on = "P" => ~over)
                 /\ server' = [server EXCEPT
                       !.prepared = StatementsAfter(c, Unnaming(@)),
                       !.portals = IF over THEN NoPortals ELSE PortalsAfter(c, Unnaming(@)),
                       !.foreign = IF over THEN Ended(ForeignAfter(c, @)) ELSE ForeignAfter(c, @),
                       !.changes = IF c = NoChange THEN @ ELSE @ + 1,
                       !.txn = txn, !.truth = Decided(m.id, outcome), !.ran = Ran(m.id, m.sql)]
                 /\ \E tags \in IF outcome = "success" THEN {<<"T", "C">>, <<"C", "C">>}
                                  ELSE {<<"E">>, <<"C", "E">>} : Answer(tags \o <<"Z">>, txn)

ServerExtended(m) ==
    /\ ~server.skipping
    /\ \/ /\ m.type = "P" /\ (m.name # Unnamed => server.prepared[m.name] = NoSql)
          /\ server' = [server EXCEPT !.prepared[m.name] = m.sql, !.foreign = Owned(@, "S", m.name)]
          /\ Answer(<<"1">>, server.txn)
       \/ /\ m.type = "B" /\ server.prepared[m.statement] # NoSql
          /\ m.name # Unnamed => server.portals[m.name] = NoSql
          /\ server' = [server EXCEPT !.portals[m.name] = server.prepared[m.statement],
                                      !.foreign = IF <<"S", m.statement>> \in @
                                                  THEN @ \cup {<<"P", m.name>>}
                                                  ELSE Owned(@, "P", m.name)]
          /\ Answer(<<"2">>, server.txn)
       \/ /\ m.type = "C"
          /\ server' = IF m.target = "S"
                       THEN [server EXCEPT !.prepared[m.name] = NoSql, !.foreign = Owned(@, "S", m.name)]
                       ELSE [server EXCEPT !.portals[m.name] = NoSql, !.foreign = Owned(@, "P", m.name)]
          /\ Answer(<<"3">>, server.txn)
       \/ /\ m.type = "D" /\ UNCHANGED server
          /\ Answer(<<"T">>, server.txn)
       \/ /\ m.type = "E" /\ server.portals[m.name] # NoSql
          /\ \E txn \in AfterCommand, c \in Changes(TRUE) :
                LET over == server.txn # "I" /\ txn = "I"
                IN  /\ (c.on = "all" => txn = "I") /\ (c.on = "P" => ~over)
                    /\ server' = [server EXCEPT
                          !.txn = txn,
                          !.prepared = StatementsAfter(c, @),
                          !.portals = IF over THEN NoPortals ELSE PortalsAfter(c, @),
                          !.foreign = IF over THEN Ended(ForeignAfter(c, @)) ELSE ForeignAfter(c, @),
                          !.changes = IF c = NoChange THEN @ ELSE @ + 1,
                          !.truth = Decided(m.id, "success"),
                          !.ran = Ran(m.id, server.portals[m.name]),
                          !.clouded = IF <<"P", m.name>> \in server.foreign THEN @ \cup {m.id} ELSE @]
          /\ \E tag \in {"C", "s"} : Answer(<<tag>>, server.txn)

ServerRejects(m) ==
    /\ ~server.skipping /\ m.type \in {"P", "B", "C", "D", "E"}
    /\ server' = [server EXCEPT
                    !.skipping = TRUE, !.txn = AfterError, !.portals = NoPortals,
                    !.foreign = Ended(@),
                    !.prepared = IF m.type = "P" /\ m.name = Unnamed THEN Unnaming(@) ELSE @,
                    !.truth = Decided(m.id, "error"),
                    !.ran = IF m.type = "E" THEN Ran(m.id, server.portals[m.name]) ELSE @,
                    !.clouded = IF m.type = "E" /\ <<"P", m.name>> \in server.foreign
                                THEN @ \cup {m.id} ELSE @]
    /\ Answer(<<"E">>, AfterError)

ServerHandles(m) ==
    ServerDiscards(m) \/ ServerSync(m) \/ ServerQuery(m) \/ ServerExtended(m) \/ ServerRejects(m)

-----------------------------------------------------------------------------
(* Client messages: observePostgresClientMessage.                          *)

DuplicateName(m) ==
    \/ m.type = "P" /\ m.name # Unnamed /\ ProjectedStatement(m.name) # NoSql
    \/ m.type = "B" /\ m.name # Unnamed /\ ProjectedPortal(m.name) # NoSql
UnknownName(m) ==
    \/ m.type = "B" /\ ProjectedStatement(m.statement) = NoSql
    \/ m.type = "E" /\ ProjectedPortal(m.name) = NoSql
TooManyPending(m) == m.type \in {"Q", "E"} /\ Len(pending) >= PendingLimit

\* postgresPreparedStateWithinLimit on the state projected to follow the message.
Operation(m) == IF m.type = "B" THEN [m EXCEPT !.sql = ProjectedStatement(m.statement)] ELSE m
TooManyObjects(m) ==
    /\ m.type \in {"P", "B", "C"}
    /\ LET statements == {s \in Statements : StatementAfter(Operation(m), s, ProjectedStatement(s)) # NoSql}
           bound == {p \in Portals : PortalAfter(Operation(m), p, ProjectedPortal(p)) # NoSql}
       IN Cardinality(statements) > ObjectLimit \/ Cardinality(bound) > ObjectLimit

\* The Query and the Execute start a record in the sink and in a cycle.
NextId == Cardinality({i \in Ids : log[i].sql # NoSql}) + 1
RecordStarted(text) ==
    /\ log' = [log EXCEPT ![NextId] = [sql |-> text, status |-> "none"]]
    /\ pending' = Append(pending, NextId)
NewEntry == [id |-> NextId, status |-> "none", completed |-> FALSE]
Started(m) ==
    CASE m.type = "Q" ->
           /\ RecordStarted(m.sql)
           /\ cycles' = Append(cycles, [simple |-> TRUE, entries |-> <<NewEntry>>])
           /\ UNCHANGED openCycle
      [] m.type = "E" ->
           /\ RecordStarted(ProjectedPortal(m.name))
           /\ openCycle' = [openCycle EXCEPT !.entries = Append(@, NewEntry)]
           /\ UNCHANGED cycles
      [] m.type = "S" ->
           /\ cycles' = IF openCycle = NoCycle THEN cycles ELSE Append(cycles, openCycle)
           /\ openCycle' = NoCycle
           /\ UNCHANGED <<log, pending>>
      [] OTHER -> UNCHANGED <<log, pending, cycles, openCycle>>

\* Whatever the state, a message may be refused because it is malformed, its
\* capture or its record cannot be written, a limit on bytes is reached or a
\* policy forbids it.
MessageRefused == Fail("refused") /\ UNCHANGED <<server, replies>>
ObserveMessage(m) ==
    \/ MessageRefused
    \/ /\ ~DuplicateName(m) /\ ~UnknownName(m) /\ ~TooManyPending(m) /\ ~TooManyObjects(m)
       /\ Started(m)
       /\ operations' = Append(operations, Operation(m))
       /\ ServerHandles(IF m.type \in {"Q", "E"} THEN [m EXCEPT !.id = NextId] ELSE m)
       /\ stream' = Idle
       /\ UNCHANGED <<prepared, portals, fatal>>

\* The client (external): it may only start a batch when the last one was
\* answered, unless it pipelines.
ClientMaySend(m) ==
    /\ fatal = "none" /\ stream = Idle /\ client.sent < MaxMessages
    /\ Pipelined \/ (client.waiting = 0 /\ (m.type = "Q" => ~client.batch))
ClientSent(m) ==
    client' = [sent |-> client.sent + 1,
               batch |-> m.type \notin {"Q", "S"},
               waiting |-> client.waiting + (IF m.type \in {"Q", "S"} THEN 1 ELSE 0)]

\* observeClientRelayBytes on a message that fits the buffer.
ObserveClientMessage ==
    \E m \in Messages :
        /\ ClientMaySend(m)
        /\ ClientSent(m)
        /\ IF Len(operations) >= OperationLimit
           THEN MessageRefused
           ELSE ObserveMessage(m)

\* A larger Query, Parse or Bind is forwarded in chunks as they arrive.  The server
\* cannot act on it before the last chunk, which only follows the decision
\* (consumePostgresClientFrameStream); no one checks the operation limit.
BeginStream ==
    \E m \in Messages :
        /\ ClientMaySend(m) /\ m.type \in {"Q", "P", "B"}
        /\ ClientSent(m)
        /\ stream' = m
        /\ UNCHANGED <<prepared, portals, operations, cycles, openCycle, pending, fatal, log,
                       server, replies>>
FinishStream ==
    /\ fatal = "none" /\ stream # Idle
    /\ ObserveMessage(stream)
    /\ UNCHANGED client

-----------------------------------------------------------------------------
(* Server messages: observePostgresServerMessage.                          *)

HeadType == IF operations = << >> THEN "none" ELSE Head(operations).type
Observes(types) ==
    /\ fatal = "none" /\ replies # << >> /\ Head(replies).type \in types
    /\ replies' = Tail(replies)
    /\ UNCHANGED server

\* activePostgresCycle, its entry that the next answer is about (0: none), and
\* the cycle with that entry updated.
ActiveCycle == IF cycles # << >> THEN Head(cycles) ELSE openCycle
NextIncomplete(c) ==
    LET open == SelectInSeq(c.entries, LAMBDA e : ~e.completed)
    IN IF open = 0 /\ c.simple THEN 1 ELSE open
WithEntry(c, status, completes) ==
    LET i == NextIncomplete(c)
    IN IF i = 0 THEN c
       ELSE [c EXCEPT !.entries[i] = [@ EXCEPT !.status = status, !.completed = @ \/ completes]]
UpdateActive(status, completes) ==
    LET updated == WithEntry(ActiveCycle, status, completes)
    IN IF cycles # << >>
       THEN cycles' = [cycles EXCEPT ![1] = updated] /\ UNCHANGED openCycle
       ELSE openCycle' = updated /\ UNCHANGED cycles

\* completePostgresStateOperation
StateOperation == [r \in {"1", "2", "3"} |-> CASE r = "1" -> "P" [] r = "2" -> "B" [] OTHER -> "C"]
ObserveStateResponse ==
    /\ Observes({"1", "2", "3"})
    /\ CASE HeadType = "none" -> UNCHANGED observer
         [] HeadType = StateOperation[Head(replies).type] ->
              /\ ApplyOperation(Head(operations))
              /\ operations' = Tail(operations)
              /\ UNCHANGED <<cycles, openCycle, pending, stream, fatal, log>>
         [] OTHER -> Fail("answer")
    /\ UNCHANGED client

\* The answer to a Describe, or part of a simple query.
ObserveDescribed ==
    /\ Observes({"T"})
    /\ CASE HeadType \in {"none", "Q"} -> UNCHANGED observer
         [] HeadType = "D" ->
              /\ operations' = Tail(operations)
              /\ UNCHANGED <<prepared, portals, cycles, openCycle, pending, stream, fatal, log>>
         [] OTHER -> Fail("answer")
    /\ UNCHANGED client

\* completePostgresProtocolOperation; a simple query stays until ReadyForQuery.
CompletedOperations == IF HeadType = "E" THEN Tail(operations) ELSE operations

\* completePostgresCommand and completePostgresPortalSuspended
ObserveCompleted ==
    /\ Observes({"C", "s"})
    /\ IF HeadType \in {"none", "E"} \/ (HeadType = "Q" /\ Head(replies).type # "s")
       THEN /\ operations' = CompletedOperations
            /\ IF Head(replies).type = "s" /\ ActiveCycle.simple
               THEN UNCHANGED <<cycles, openCycle>>
               ELSE UpdateActive("success", ~ActiveCycle.simple)
            /\ UNCHANGED <<prepared, portals, pending, stream, fatal, log>>
       ELSE Fail("answer")
    /\ UNCHANGED client

\* rejectCurrentPostgresOperation: what was queued behind the failed operation
\* goes with it, up to the Sync.
RejectCurrent ==
    LET sync == SelectInSeq(operations, LAMBDA op : op.type = "S")
    IN IF sync = 0 THEN << >> ELSE SubSeq(operations, sync, Len(operations))

\* completePostgresError
ObserveError ==
    /\ Observes({"E"})
    /\ IF HeadType = "S" THEN Fail("syncError")
       ELSE /\ operations' = IF HeadType \in {"none", "Q"} THEN operations ELSE RejectCurrent
            /\ UpdateActive("error", TRUE)
            /\ UNCHANGED <<prepared, portals, pending, stream, fatal, log>>
    /\ UNCHANGED client

\* finishPostgresCycle: entries are finished in order until the sink fails.
FinalStatus(e) == IF e.status = "none" THEN "unknown" ELSE e.status
Finished(entries) ==
    [i \in Ids |->
        IF \E k \in DOMAIN entries : entries[k].id = i
        THEN [log[i] EXCEPT !.status = FinalStatus(CHOOSE e \in Range(entries) : e.id = i)]
        ELSE log[i]]
CycleFinished ==
    /\ log' = Finished(ActiveCycle.entries)
    /\ pending' = SelectSeq(pending, LAMBDA i : \A e \in Range(ActiveCycle.entries) : e.id # i)
    /\ IF cycles # << >> THEN cycles' = Tail(cycles) /\ UNCHANGED openCycle
                         ELSE openCycle' = NoCycle /\ UNCHANGED cycles
CycleFinishFails ==
    \E k \in DOMAIN ActiveCycle.entries :
        LET tried == SubSeq(ActiveCycle.entries, 1, k)
            done == Finished(SubSeq(ActiveCycle.entries, 1, k - 1))
        IN FailFrom("audit", [done EXCEPT ![tried[k].id].status = "failed"],
                    Range(pending) \ {e.id : e \in Range(tried)})

\* ReadyForQuery ends the Query or the Sync at the head of the queue.
ObserveReady ==
    /\ Observes({"Z"})
    /\ \/ /\ HeadType \in {"P", "B", "E", "C", "D"}
          /\ Fail("boundary") /\ UNCHANGED client
       \/ /\ HeadType \in {"Q", "S", "none"}
          /\ operations' = IF HeadType = "none" THEN operations ELSE Tail(operations)
          /\ prepared' = IF HeadType = "Q" THEN Unnaming(prepared) ELSE prepared
          /\ portals' = IF HeadType # "none" /\ Head(replies).txn = "I" THEN NoPortals
                        ELSE IF HeadType = "Q" THEN Unnaming(portals) ELSE portals
          /\ CycleFinished
          /\ client' = [client EXCEPT !.waiting = @ - 1]
          /\ UNCHANGED <<stream, fatal>>
       \/ /\ HeadType \in {"Q", "S", "none"}
          /\ CycleFinishFails /\ UNCHANGED client

\* A malformed or unsupported message, or one too large that is not a row or COPY.
ServerMessageRefused ==
    /\ Observes({"1", "2", "3", "T", "C", "s", "E", "Z"})
    /\ Fail("refused") /\ UNCHANGED client

ObserveServerMessage ==
    \/ ServerMessageRefused
    \/ ObserveStateResponse \/ ObserveDescribed \/ ObserveCompleted \/ ObserveError \/ ObserveReady

-----------------------------------------------------------------------------
Init ==
    /\ prepared = [s \in Statements |-> NoSql] /\ portals = NoPortals
    /\ operations = << >> /\ cycles = << >> /\ openCycle = NoCycle
    /\ pending = << >> /\ stream = Idle /\ fatal = "none"
    /\ log = [i \in Ids |-> [sql |-> NoSql, status |-> "none"]]
    /\ client = [sent |-> 0, batch |-> FALSE, waiting |-> 0]
    /\ replies = << >>
    /\ server = [prepared |-> [s \in Statements |-> NoSql], portals |-> NoPortals,
                 txn |-> "I", skipping |-> FALSE, changes |-> 0, foreign |-> {}, clouded |-> {},
                 truth |-> [i \in Ids |-> "none"], ran |-> [i \in Ids |-> NoSql]]

Next ==
    \/ ObserveClientMessage \/ BeginStream \/ FinishStream
    \/ ObserveServerMessage \/ Abort

Spec == Init /\ [][Next]_vars

-----------------------------------------------------------------------------
(* Correctness.                                                            *)

\* Every variable holds a value of its type.
TypeOK ==
    /\ prepared \in [Statements -> Texts] /\ portals \in [Portals -> Texts]
    /\ operations \in Seq(Message)
    /\ cycles \in Seq([simple : BOOLEAN, entries : Seq(Entry)])
    /\ openCycle \in [simple : {FALSE}, entries : Seq(Entry)]
    /\ pending \in Seq(Ids) /\ stream \in Message \cup {Idle} /\ fatal \in Codes
    /\ log \in [Ids -> [sql : Texts, status : Statuses]]
    /\ client \in [sent : 0..MaxMessages, batch : BOOLEAN, waiting : 0..MaxMessages]
    /\ replies \in Seq(Reply)
    /\ server \in [prepared : [Statements -> Texts], portals : [Portals -> Texts], txn : Txn,
                   skipping : BOOLEAN, changes : 0..MaxChanges,
                   foreign : SUBSET (({"S"} \X Statements) \cup ({"P"} \X Portals)),
                   clouded : SUBSET Ids, truth : [Ids -> {"none", "success", "error", "skipped"}],
                   ran : [Ids -> Texts]]

\* The end recorded for a statement is the end it had on the server: success when
\* it ran, an upstream error when it failed or was discarded behind the failure,
\* unknown only when it was discarded.  Answers carry no identity, so one answer
\* attributed to the wrong entry shifts all that follow.
OutcomeIsReal ==
    \A i \in Ids :
        CASE log[i].status = "success" -> server.truth[i] = "success"
          [] log[i].status = "error" -> server.truth[i] \in {"error", "skipped"}
          [] log[i].status = "unknown" -> server.truth[i] = "skipped"
          [] OTHER -> TRUE

\* The text recorded for an Execute, looked up by name when the message passes,
\* is the text the server runs when it arrives there, unless the portal has its
\* text from a name that SQL changed behind the protocol's back.
RecordedTextIsRun ==
    \A i \in Ids \ server.clouded : server.ran[i] # NoSql => log[i].sql = server.ran[i]

\* Without the exception it does not hold: after "DEALLOCATE n; PREPARE n AS ..." a
\* Bind of n and its Execute are recorded with the text of the earlier Parse.
RecordedTextIsAlwaysRun ==
    \A i \in Ids : server.ran[i] # NoSql => log[i].sql = server.ran[i]

\* No record is dropped: it waits in pending or the sink was told of its end, also
\* when the observer gives up or the sink fails in the middle of a cycle.
EveryRecordEnds ==
    \A i \in Ids : log[i].sql # NoSql => (i \in Range(pending)) # (log[i].status # "none")

\* When everything sent was answered, the observer holds nothing back (the drain
\* of the relay waits for HasPending), and it knows what the server knows: the
\* same named statements, and every portal of the server, but for the names that
\* SQL has changed (a Parse of a name that DISCARD ALL freed is refused).
Quiet == fatal = "none" /\ stream = Idle /\ ~client.batch /\ replies = << >>
InStepWhenQuiet ==
    Quiet =>
        /\ pending = << >> /\ operations = << >> /\ cycles = << >> /\ openCycle = NoCycle
        /\ \A s \in Statements \ {Unnamed} :
              <<"S", s>> \notin server.foreign => prepared[s] = server.prepared[s]
        /\ \A p \in Portals :
              <<"P", p>> \notin server.foreign => server.portals[p] \in {NoSql, portals[p]}

\* The queue of operations stays aligned with the server's answers: no answer is
\* ever taken for the answer to another operation.
AnswersMatch == fatal # "answer"

\* "Keep Sync so the matching ReadyForQuery response still closes the recovery
\* boundary": a failed batch never ends the session.
SyncRecovers == fatal # "boundary"

(* What the audit says of a statement happened: the outcome is the one the   *)
(* server gave, and the text the one it ran, unless the text was reached     *)
(* through a name that SQL itself had changed (PREPARE, DEALLOCATE, DECLARE, *)
(* CLOSE, DISCARD ALL), which the observer does not follow.                  *)
RecordIsTrue == RecordedTextIsRun /\ OutcomeIsReal

(* The observer follows the server: each answer is booked on the operation   *)
(* it answers, also while SQL changes names, and when everything is answered *)
(* both agree on what is prepared and open under the other names.            *)
StaysInStep == InStepWhenQuiet /\ AnswersMatch
=============================================================================
