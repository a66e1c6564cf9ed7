--------------------------- MODULE RedisObserver ---------------------------
(***************************************************************************)
(* The observer of one Redis connection (internal/server/dbproxy/          *)
(* redis_observer*.go, redis_pubsub*.go, redis_command_policy.go), between *)
(* a client that pipelines commands and a server that answers in order.    *)
(*                                                                         *)
(* RESP replies carry no identifier: the observer gives the n-th answer to *)
(* the n-th pending command (a slot).  Publish/subscribe breaks the        *)
(* one-to-one rule: SUBSCRIBE is answered once per topic, UNSUBSCRIBE      *)
(* without topics once per topic the server happens to hold, messages      *)
(* arrive unasked.  So the observer predicts the server's subscriptions    *)
(* (subscriptionIntent) ahead of the acknowledgements (subscriptions).     *)
(*                                                                         *)
(* A frame is one unit; one that outgrows the buffer (big) is classified   *)
(* from its beginning and attributed at its end, with client commands in   *)
(* between.  Command names and keys, and how a frame is cut into bytes,    *)
(* are left out; commands are what the observer tells apart.               *)
(***************************************************************************)
EXTENDS Naturals, Sequences, FiniteSets, SequencesExt

CONSTANTS
    Topics,         \* topics that can be subscribed to
    Categories,     \* channels, patterns, sharded channels
    Commands,       \* the commands the client sends, a set of CommandType
    MaxCommands,    \* bound on the number of commands the client sends
    MaxMessages,    \* bound on the number of messages the server pushes
    PendingLimit,   \* maxObserverPendingQueries
    TopicLimit      \* maxRedisSubscriptionTopics

(* op: an ordinary command, HELLO 2 or 3, subscribe, unsubscribe, or bytes *)
(* the observer refuses (malformed, or not on the list of commands).       *)
CommandType == [op : {"get", "hello", "sub", "unsub", "bad"}, cat : Categories,
                args : Seq(Topics), version : {2, 3}]

VARIABLES
    slots,          \* pending commands, oldest first
    subs,           \* subscriptions: what was acknowledged
    intent,         \* subscriptionIntent: what the pending commands lead to
    version,        \* protocolVersion
    deferred,       \* a refusal that waits for the pending answers
    fatal,          \* why the observer gave up, or "none"
    stream,         \* the big frame being passed through, or NoStream
    record,         \* record[n]: the audit record of the n-th command
    toServer,       \* commands on their way
    toObserver,     \* frames on their way
    serverSubs,     \* the server's subscriptions of this connection
    serverVersion,  \* the protocol the server speaks
    answer,         \* ghost: answer[n]: what the server said to the n-th command
    lookalike,      \* ghost: an ordinary reply looked like an acknowledgement
    helloMissed,    \* ghost: a HELLO was answered by a big frame
    sent,           \* commands the client has sent
    pushed          \* messages the server has pushed

observer == <<slots, subs, intent, version, deferred, fatal, stream, record>>
server == <<serverSubs, serverVersion, answer, lookalike, helloMissed, pushed>>
vars == <<observer, server, toServer, toObserver, sent>>

NoStream == [open |-> FALSE]
Numbers == 1 .. MaxCommands

-----------------------------------------------------------------------------
(* shouldRecordRedisCommand *)
ShouldRecord(c) == c.op # "hello"

(* isRedisPubSubStateCommand *)
IsPubSub(op) == op \in {"sub", "unsub"}

In(state, cat) == {x \in state : x[1] = cat}

(* planRedisPubSubResponseForState: how many acknowledgements to expect,   *)
(* and the subscriptions that the command leads to.                        *)
Plan(state, c) ==
    LET named == {<<c.cat, c.args[i]>> : i \in DOMAIN c.args}
    IN  CASE c.op = "sub" ->
               [state |-> state \cup named, remaining |-> Len(c.args), all |-> FALSE, topics |-> {}]
          [] c.op = "unsub" /\ c.args # <<>> ->
               [state |-> state \ named, remaining |-> Len(c.args), all |-> FALSE, topics |-> {}]
          [] c.op = "unsub" /\ c.args = <<>> ->
               [state |-> state \ In(state, c.cat), remaining |-> 0, all |-> TRUE,
                topics |-> In(state, c.cat)]
          [] OTHER -> [state |-> state, remaining |-> 1, all |-> FALSE, topics |-> {}]

Slot(n, c, plan) ==
    [n |-> n, op |-> c.op, cat |-> c.cat, args |-> c.args, version |-> c.version,
     remaining |-> plan.remaining, all |-> plan.all, topics |-> plan.topics]

WithinLimit(state) == Cardinality(state) <= TopicLimit

(* The records that failDecision ends: those of the pending commands. *)
Open(pending) == {n \in Numbers : record[n] = "started" /\ \E i \in DOMAIN pending : pending[i].n = n}

(* failDecision when the sink has refused the end of some records already:  *)
(* the other open records are ended as errors, and the sink may refuse some *)
(* of them too.                                                             *)
FailAfter(why, open, refused) ==
    \E lost \in SUBSET (open \ refused) :
       /\ fatal' = IF lost = {} THEN why ELSE "audit"
       /\ slots' = <<>>
       /\ deferred' = "none"
       /\ stream' = NoStream
       /\ record' = [n \in Numbers |-> CASE n \in lost \cup refused -> "unfinished"
                                         [] n \in open \ (lost \cup refused) -> "aborted"
                                         [] OTHER -> record[n]]

MutantFailDecision(why, pending) ==
    FailAfter(why, Open(IF pending = <<>> THEN pending ELSE Tail(pending)), {})

(* failDecision: every pending record is closed as an error. *)
FailDecision(why, pending) == FailAfter(why, Open(pending), {})

(* rejectClientBytes: what is wrong with the command itself waits until    *)
(* the answers to the earlier ones are in; limits and the audit do not.    *)
Reject(why) ==
    IF slots # <<>> /\ why = "client"
    THEN deferred' = why /\ UNCHANGED <<slots, fatal, stream, record>>
    ELSE FailDecision(why, slots)

(***************************************************************************)
(* observeClientBytes, one command.  After a deferred refusal the client's *)
(* bytes are dropped.  A command that is accepted is recorded before it is *)
(* forwarded; the sink may refuse it or fail.                              *)
(***************************************************************************)
Accept(c) ==
    LET plan == Plan(intent, c)
    IN  /\ slots' = Append(slots, Slot(sent + 1, c, plan))
        /\ intent' = plan.state
        /\ record' = [record EXCEPT ![sent + 1] = IF ShouldRecord(c) THEN "started" ELSE "unrecorded"]
        /\ toServer' = Append(toServer, [n |-> sent + 1, op |-> c.op, cat |-> c.cat, args |-> c.args, version |-> c.version])
        /\ UNCHANGED <<subs, version, deferred, fatal, stream>>

ObserveClientBytes(c) ==
    /\ sent < MaxCommands
    /\ fatal = "none"
    /\ sent' = sent + 1
    /\ IF deferred # "none" THEN UNCHANGED <<observer, toServer>>
       ELSE IF c.op = "bad" THEN Reject("client") /\ UNCHANGED <<subs, intent, version, toServer>>
       ELSE IF \/ Len(slots) >= PendingLimit
               \/ IsPubSub(c.op) /\ ~WithinLimit(Plan(intent, c).state)
            THEN Reject("limit") /\ UNCHANGED <<subs, intent, version, toServer>>
       ELSE \/ Accept(c)
            \/ /\ ShouldRecord(c)
               /\ \E why \in {"client", "audit"} : Reject(why)
               /\ UNCHANGED <<subs, intent, version, toServer>>
    /\ UNCHANGED <<server, toObserver>>

-----------------------------------------------------------------------------
(* The server, which is outside: it answers in order.  On RESP2 a          *)
(* connection that holds subscriptions may only subscribe and unsubscribe. *)
Frame(kind, n, op, cat, topic, ok, like, big) ==
    [kind |-> kind, n |-> n, op |-> op, cat |-> cat, topic |-> topic, ok |-> ok,
     push |-> kind # "reply" /\ serverVersion = 3, typed |-> FALSE, like |-> like, big |-> big]

(* On RESP3 a reply may have a type that RESP2 does not know. *)
Reply(c, ok, like, big) ==
    /\ \E typed \in IF c.op = "get" /\ serverVersion = 3 /\ ok /\ ~like THEN BOOLEAN ELSE {FALSE} :
          toObserver' = Append(toObserver, [Frame("reply", c.n, c.op, c.cat, "none", ok, like, big)
                                              EXCEPT !.typed = typed])
    /\ answer' = [answer EXCEPT ![c.n] = IF ok THEN "success" ELSE "error"]
    /\ lookalike' = (lookalike \/ like)

Ack(c, topic) == Frame("ack", c.n, c.op, c.cat, topic, TRUE, FALSE, FALSE)

(* Every order in which a set can be listed. *)
Orders(S) == SetToSeqs(S)

ServerAnswers ==
    /\ toServer # <<>>
    /\ toServer' = Tail(toServer)
    /\ LET c == Head(toServer)
           held == In(serverSubs, c.cat)
           restricted == serverVersion = 2 /\ serverSubs # {}
       IN  \/ /\ c.op = "get" /\ ~restricted
              /\ \E ok \in BOOLEAN, like \in BOOLEAN, big \in BOOLEAN :
                    (like => ok) /\ (big => ok) /\ Reply(c, ok, like, big)
              /\ UNCHANGED <<serverSubs, serverVersion, helloMissed>>
           \/ /\ c.op = "hello" /\ ~restricted
              /\ \E big \in BOOLEAN : /\ Reply(c, TRUE, FALSE, big)
                                     /\ helloMissed' = (helloMissed \/ big)
              /\ serverVersion' = c.version
              /\ UNCHANGED serverSubs
           \/ /\ c.op \in {"get", "hello"} /\ restricted
              /\ Reply(c, FALSE, FALSE, FALSE)
              /\ UNCHANGED <<serverSubs, serverVersion, helloMissed>>
           \/ /\ c.op = "sub"                                   \* not permitted
              /\ Reply(c, FALSE, FALSE, FALSE)
              /\ UNCHANGED <<serverSubs, serverVersion, helloMissed>>
           \/ /\ IsPubSub(c.op)
              /\ \E order \in IF c.args # <<>> THEN {c.args}
                              ELSE IF held = {} THEN {<<"null">>}
                              ELSE Orders({x[2] : x \in held}) :
                    toObserver' = toObserver \o [i \in DOMAIN order |-> Ack(c, order[i])]
              /\ serverSubs' = Plan(serverSubs, c).state
              /\ answer' = [answer EXCEPT ![c.n] = "success"]
              /\ UNCHANGED <<serverVersion, lookalike, helloMissed>>
    /\ UNCHANGED <<observer, sent, pushed>>

Publish(x, big) ==
    /\ pushed < MaxMessages
    /\ pushed' = pushed + 1
    /\ x \in serverSubs
    /\ toObserver' = Append(toObserver, Frame("message", 0, "none", x[1], x[2], TRUE, FALSE, big))
    /\ UNCHANGED <<observer, serverSubs, serverVersion, answer, lookalike, helloMissed, toServer, sent>>

-----------------------------------------------------------------------------
(* finishSlotWithResult; a sink that fails ends the session. *)
FinishFirst(status, rest) ==
    /\ record' = [record EXCEPT ![Head(slots).n] = IF @ = "started" THEN status ELSE @]
    /\ IF rest = <<>> /\ deferred # "none"
       THEN fatal' = deferred /\ deferred' = "none" /\ slots' = <<>>
       ELSE slots' = rest /\ UNCHANGED <<fatal, deferred>>

(* The sink does not take the result: the session ends, and the record of  *)
(* this very command stays open.                                           *)
SinkFails ==
    /\ record[Head(slots).n] = "started"
    /\ FailAfter("audit", Open(slots), {Head(slots).n})

(* rebuildRedisSubscriptionIntent: a refused SUBSCRIBE never happened, so  *)
(* the commands behind it are planned anew.                                *)
Rebuild(state, rest) ==
    FoldLeft(LAMBDA acc, slot :
                LET plan == Plan(acc.intent, slot)
                IN  IF IsPubSub(slot.op)
                    THEN [intent |-> plan.state,
                          slots |-> Append(acc.slots, Slot(slot.n, slot, plan))]
                    ELSE [acc EXCEPT !.slots = Append(@, slot)],
             [intent |-> state, slots |-> <<>>], rest)

(* consumeOrdinaryResponse: the answer to the oldest pending command.      *)
ConsumeOrdinaryResponse(f) ==
    IF slots = <<>> THEN FailDecision("server", slots) /\ UNCHANGED <<subs, intent, version>>
    ELSE LET first == Head(slots)
             again == IF ~f.ok /\ IsPubSub(first.op) THEN Rebuild(subs, Tail(slots))
                      ELSE [intent |-> intent, slots |-> Tail(slots)]
         IN  \/ /\ FinishFirst(IF f.ok THEN "success" ELSE "error", again.slots)
                /\ intent' = again.intent
                /\ version' = IF first.op = "hello" /\ f.ok THEN first.version
                              ELSE IF f.typed THEN 3 ELSE version
                /\ UNCHANGED <<subs, stream>>
             \/ SinkFails /\ UNCHANGED <<subs, intent, version>>

(* consumeRedisPubSubACKTopic: the topic is one the slot waits for. *)
AckTopicExpected(slot, topic) ==
    IF slot.all THEN (IF topic = "null" THEN slot.topics = {} ELSE <<slot.cat, topic>> \in slot.topics)
    ELSE topic # "null" /\ \E i \in DOMAIN slot.args : slot.args[i] = topic

Without(args, topic) == RemoveAt(args, SelectInSeq(args, LAMBDA t : t = topic))

MutantConsumeAck(op, cat, topic) ==
    IF slots = <<>> \/ ~(Head(slots).op = op /\ Head(slots).cat = cat) \/ ~AckTopicExpected(Head(slots), topic)
    THEN FailDecision("server", slots) /\ UNCHANGED <<subs, intent>>
    ELSE LET slot == Head(slots)
             now == IF op = "sub" THEN subs \cup {<<cat, topic>>} ELSE subs \ {<<cat, topic>>}
         IN  /\ subs' = now
             /\ FinishFirst("success", Tail(slots))
             /\ UNCHANGED <<intent, stream>>

(* consumeRedisPubSubEvent for an acknowledgement. *)
ConsumeAck(op, cat, topic) ==
    IF slots = <<>> \/ ~(Head(slots).op = op /\ Head(slots).cat = cat) \/ ~AckTopicExpected(Head(slots), topic)
    THEN FailDecision("server", slots) /\ UNCHANGED <<subs, intent>>
    ELSE LET slot == Head(slots)
             now == IF op = "sub" THEN subs \cup {<<cat, topic>>} ELSE subs \ {<<cat, topic>>}
             left == IF slot.all THEN [slot EXCEPT !.topics = @ \ {<<cat, topic>>}]
                     ELSE [slot EXCEPT !.args = Without(@, topic), !.remaining = @ - 1]
             complete == IF slot.all THEN topic = "null" \/ In(now, cat) = {} ELSE left.remaining = 0
         IN  IF ~WithinLimit(now)
             THEN FailDecision("limit", slots) /\ UNCHANGED <<subs, intent>>
             ELSE /\ subs' = now
                  /\ UNCHANGED intent
                  /\ IF complete
                     THEN (FinishFirst("success", Tail(slots)) /\ UNCHANGED stream) \/ SinkFails
                     ELSE /\ slots' = <<left>> \o Tail(slots)
                          /\ UNCHANGED <<record, fatal, deferred, stream>>

(* isRedisPubSubMessage on RESP2: only while subscriptions are known.      *)
IsUnasked(f) == f.kind = "message" /\ (f.push \/ (version # 3 /\ subs # {}))

Skip == UNCHANGED <<slots, subs, intent, deferred, fatal, stream, record>>

(***************************************************************************)
(* observeServerRelayBytes, one frame that fits the buffer.  Everything    *)
(* that starts like an acknowledgement is taken for one.                   *)
(***************************************************************************)
ConsumeFrame(f) ==
    IF f.kind = "ack" \/ f.like
    THEN /\ version' = IF f.push THEN 3 ELSE version
         /\ IF f.like THEN \E x \in Categories, t \in Topics : ConsumeAck("sub", x, t)
            ELSE ConsumeAck(f.op, f.cat, f.topic)
    ELSE IF IsUnasked(f) THEN Skip /\ version' = IF f.push THEN 3 ELSE version
    ELSE ConsumeOrdinaryResponse(f)

(* promoteRedisResponseStream: a frame that outgrows the buffer is passed  *)
(* on as it comes, classified from its first bytes.  Only a pending        *)
(* subscribe or unsubscribe has its acknowledgement captured.              *)
PromoteRedisResponseStream(f) ==
    LET captured == slots # <<>> /\ IsPubSub(Head(slots).op) /\ (f.push \/ ~IsUnasked(f))
    IN  IF slots = <<>> /\ ~IsUnasked(f)
        THEN FailDecision("server", slots) /\ UNCHANGED <<subs, intent, version>>
        ELSE /\ stream' = [open |-> TRUE, unasked |-> IsUnasked(f) /\ ~captured, captured |-> captured]
             /\ UNCHANGED <<slots, subs, intent, version, deferred, fatal, record>>

(* completeRedisResponseStream *)
CompleteRedisResponseStream(f) ==
    IF stream.captured /\ ~f.push
    THEN FailDecision("server", slots) /\ UNCHANGED <<subs, intent, version>>
    ELSE /\ UNCHANGED <<subs, intent>>
         /\ IF stream.captured \/ stream.unasked
            THEN /\ version' = (IF f.push THEN 3 ELSE version) /\ stream' = NoStream
                 /\ UNCHANGED <<slots, deferred, fatal, record>>
            ELSE /\ (FinishFirst("success", Tail(slots)) /\ stream' = NoStream) \/ SinkFails
                 /\ UNCHANGED version

ObserveServerBytes ==
    /\ fatal = "none"
    /\ toObserver # <<>>
    /\ LET f == Head(toObserver)
       IN  IF f.big /\ ~stream.open
           THEN PromoteRedisResponseStream(f) /\ UNCHANGED toObserver
           ELSE /\ toObserver' = Tail(toObserver)
                /\ IF f.big THEN CompleteRedisResponseStream(f) ELSE ConsumeFrame(f)
    /\ UNCHANGED <<server, toServer, sent>>

(* Abort: the relay has lost one of its sides. *)
Abort ==
    /\ fatal = "none"
    /\ FailDecision("relay", slots)
    /\ UNCHANGED <<subs, intent, version, server, toServer, toObserver, sent>>

-----------------------------------------------------------------------------
Init ==
    /\ slots = <<>> /\ subs = {} /\ intent = {} /\ version = 0
    /\ deferred = "none" /\ fatal = "none" /\ stream = NoStream
    /\ record = [n \in Numbers |-> "none"]
    /\ toServer = <<>> /\ toObserver = <<>>
    /\ serverSubs = {} /\ serverVersion \in {2, 3}
    /\ answer = [n \in Numbers |-> "none"]
    /\ lookalike = FALSE /\ helloMissed = FALSE
    /\ sent = 0 /\ pushed = 0

(* Queues, predictions and records are of their types. *)
TypeOK ==
    LET Subs == SUBSET (Categories \X Topics)
    IN  /\ \A i \in DOMAIN slots : slots[i].n \in Numbers /\ slots[i].topics \in Subs
        /\ subs \in Subs /\ intent \in Subs /\ serverSubs \in Subs
        /\ version \in {0, 2, 3} /\ serverVersion \in {2, 3}
        /\ deferred \in {"none", "client"}
        /\ fatal \in {"none", "client", "limit", "audit", "server", "relay"}
        /\ stream.open \in BOOLEAN
        /\ record \in [Numbers -> {"none", "unrecorded", "started", "success", "error",
                                   "aborted", "unfinished"}]
        /\ answer \in [Numbers -> {"none", "success", "error"}]
        /\ \A i \in DOMAIN toServer : toServer[i].n \in Numbers
        /\ \A i \in DOMAIN toObserver : toObserver[i].kind \in {"reply", "ack", "message"}
        /\ {lookalike, helloMissed} \subseteq BOOLEAN /\ sent \in 0 .. MaxCommands /\ pushed \in 0 .. MaxMessages

Next ==
    \/ \E c \in Commands : ObserveClientBytes(c)
    \/ fatal = "none" /\ ServerAnswers
    \/ fatal = "none" /\ \E x \in Categories \X Topics, big \in BOOLEAN : Publish(x, big)
    \/ ObserveServerBytes
    \/ Abort

Spec == Init /\ [][Next]_vars

-----------------------------------------------------------------------------
(* A command's record carries the server's answer to that very command,    *)
(* however pipelined commands, acknowledgements, messages that nobody      *)
(* asked for and large replies interleave.  Once a HELLO was answered by a *)
(* big frame the observer may take the wrong protocol for the server's     *)
(* (completeRedisResponseStream leaves protocolVersion as it was) and a    *)
(* message for an answer.                                                  *)
AnswersMatch ==
    ~helloMissed =>
       \A n \in Numbers : record[n] \in {"success", "error"} => record[n] = answer[n]

(* With a server that keeps to the protocol, the observer never declares   *)
(* the server's stream broken, except that an ordinary reply that begins   *)
(* like an acknowledgement is taken for one; and when nothing is pending   *)
(* it knows the subscriptions the server holds, and the protocol it        *)
(* speaks, unless it has seen neither a HELLO nor a frame of RESP3 (0).    *)
FollowsTheServer ==
    ~helloMissed =>
       /\ fatal = "server" => lookalike
       /\ (fatal = "none" /\ ~lookalike /\ slots = <<>> /\ toServer = <<>> /\ toObserver = <<>>) =>
             subs = serverSubs /\ intent = serverSubs /\ version \in {0, serverVersion}

(* Whatever ends the session, no record of a command that was let through  *)
(* stays open, save those whose result the audit sink itself refused.      *)
RedisRecordsEnd ==
    \A n \in Numbers : record[n] = "started" => fatal = "none" /\ \E i \in DOMAIN slots : slots[i].n = n

(* The observer follows the server, unless a HELLO was answered by a frame   *)
(* larger than its buffer: every answer, acknowledgement or pushed message   *)
(* is booked where it belongs, and once all is answered both agree on the    *)
(* subscriptions and on the protocol as far as the observer has seen it.     *)
RedisInStep == AnswersMatch /\ FollowsTheServer
=============================================================================
