------------------------------- MODULE WebRDP -------------------------------
(***************************************************************************)
(* One Web RDP session, from the ticket to the finished audit row: the     *)
(* HTTP handler (internal/handler/webrdp), the authorization it repeats    *)
(* when the ticket is consumed (internal/service/web_rdp.go), the guacd    *)
(* handshake (internal/proxy/rdpproxy) and the two relay goroutines with   *)
(* their channel filters.                                                  *)
(*                                                                         *)
(* Direction "in" is browser_to_remote, "out" is remote_to_browser.  An    *)
(* instruction is its opcode and the stream it names; a blob carries one   *)
(* unit of data.  "other" is every opcode the filter finds irrelevant (it  *)
(* may open a stream too: img, argv, ...), "bad" one that does not decode  *)
(* or fails validateChannelInstruction.                                    *)
(*                                                                         *)
(* Three history variables say what really happened, apart from what the   *)
(* filters keep: what the sender's open streams are (mine), which opcodes  *)
(* and whose data the receiver got (received), and the rights in force     *)
(* when the ticket was consumed (rights).                                  *)
(***************************************************************************)
EXTENDS Integers, Sequences, FiniteSets

CONSTANTS Id,            \* stream indexes
          NoId,          \* an instruction that names no stream
          Accounts,      \* the account rows a run starts from
          Toggled,       \* the rights an administrator changes
          MaxTracked,    \* maxTrackedChannelStreams
          MaxEvents,     \* maxChannelAuditEvents
          MaxSent,       \* bound: instructions the two peers send in all
          MaxChanges,    \* bound: administrator changes of the account
          ResultCap      \* capacity of the results channel

VARIABLES account, late, ticket, h, conn, online, audit, pump, filter, results,
          mine, received, rights, shown, ledger, sent, changes

guacd == <<mine, received, ledger, sent>>
vars == <<account, late, ticket, h, conn, online, audit, pump, filter, results,
          mine, received, rights, shown, ledger, sent, changes>>

-----------------------------------------------------------------------------
(* Directions, channels and instructions *)

Dir == {"in", "out"}
Source(d) == IF d = "in" THEN "browser" ELSE "guacd"
Sink(d) == IF d = "in" THEN "guacd" ELSE "browser"

Channels == {"clipboard_read", "clipboard_write", "drive_mapping", "file_upload", "file_download"}
StreamOps == {"clipboard", "file", "put", "body"}
ChannelOps == StreamOps \cup {"get", "filesystem"}
Opcodes == ChannelOps \cup {"blob", "end", "other", "error", "bad"}

NoInstruction == [op |-> "other", id |-> NoId]
Errs == {"expected", "guacd", "other", "ctx"}

(* Handler, connections, relays and filters are of their types. *)
TypeOK ==
  /\ account \in [cfg : SUBSET Channels, grants : SUBSET (Channels \cup {"connect"}),
                  disabled : BOOLEAN, expires : BOOLEAN]
  /\ late \in BOOLEAN
  /\ ticket \in {"none", "issued", "consumed"}
  /\ h.pc \in {"idle", "consumed", "begin", "dial", "handshake", "upgrade", "activate",
               "register", "relay", "grace", "relayed", "finish", "returned"}
  /\ h.ctx \in {"live", "canceled", "deadline"}
  /\ h.err \in Errs /\ h.policy \subseteq Channels
  /\ conn \in [{"browser", "guacd"} -> {"absent", "open", "left", "lost", "closed"}]
  /\ audit.state \in {"absent", "connecting", "active", "finished", "unfinished"}
  /\ pump \in [Dir -> [pc : {"off", "read", "forward", "return", "done"},
                       i : [op : Opcodes, id : Id \cup {NoId}], err : Errs]]
  /\ filter \in [Dir -> [blocked : SUBSET Id, streams : SUBSET Id,
                         bytes : [Id -> Nat], events : 0 .. MaxEvents]]
  /\ Len(results) <= ResultCap

-----------------------------------------------------------------------------
(* Initial state *)

NewFilter == [blocked |-> {}, streams |-> {}, bytes |-> [x \in Id |-> 0], events |-> 0]
NewLedger == [noted |-> 0, ended |-> 0, carried |-> [x \in Id |-> 0]]

Init ==
  /\ account \in Accounts
  /\ late = FALSE /\ ticket = "none"
  /\ h = [pc |-> "idle", ctx |-> "live", deadline |-> FALSE, policy |-> {}, err |-> "expected",
          code |-> ""]
  /\ conn = [browser |-> "absent", guacd |-> "absent"]
  /\ online = FALSE
  /\ audit = [state |-> "absent", outcome |-> "none", denied |-> 0]
  /\ pump = [d \in Dir |-> [pc |-> "off", i |-> NoInstruction, err |-> "expected"]]
  /\ filter = [d \in Dir |-> NewFilter]
  /\ results = <<>>
  /\ mine = [d \in Dir |-> [x \in Id |-> "none"]]
  /\ received = [d \in Dir |-> {}]
  /\ rights = {} /\ shown = FALSE
  /\ ledger = [d \in Dir |-> NewLedger]
  /\ sent = 0 /\ changes = 0

-----------------------------------------------------------------------------
(* Authorization: WebRDPService.evaluate *)

Unavailable == account.disabled \/ (account.expires /\ late)
Allowed(action) == action \in account.grants

(* A channel is effective when the account is configured for it and the user *)
(* may use it; the file channels need the drive channel to be effective.     *)
Effective(c) == c \in account.cfg /\ Allowed(c)
EffectivePolicy ==
  LET base == {c \in {"clipboard_read", "clipboard_write", "drive_mapping"} : Effective(c)}
      files == {c \in {"file_upload", "file_download"} : Effective(c)}
  IN IF "drive_mapping" \in base THEN base \cup files ELSE base
Authorized == ~Unavailable /\ Allowed("connect")

(* recordDenied writes a denial row only for a refusal by RBAC, as well as it can. *)
RecordDenied ==
  \/ /\ ~Unavailable /\ ~Allowed("connect")
     /\ audit' = [audit EXCEPT !.denied = @ + 1]
  \/ UNCHANGED audit

(* POST ticket: authorize, then store a single-use ticket bound to the target. *)
CreateTicket ==
  /\ ticket = "none" /\ h.pc = "idle"
  /\ \/ Authorized /\ ticket' = "issued" /\ UNCHANGED audit
     \/ ~Authorized /\ RecordDenied /\ UNCHANGED ticket
  /\ audit.denied = 0                            \* bound: one refused attempt
  /\ UNCHANGED <<account, late, h, conn, online, pump, filter, results, rights, shown, changes>>
  /\ UNCHANGED guacd

(* GET connect: the ticket is consumed before anything else is looked at. *)
ConsumeTicket ==
  /\ h.pc = "idle" /\ ticket = "issued"
  /\ ticket' = "consumed"
  /\ \/ h' = [h EXCEPT !.pc = "consumed"]
     \/ h' = [h EXCEPT !.pc = "returned"]        \* the store or the identity lookup failed
  /\ UNCHANGED <<account, late, conn, online, audit, pump, filter, results, rights, shown, changes>>
  /\ UNCHANGED guacd

(* The second evaluation, and the session context with the account's deadline. *)
Authorize ==
  /\ h.pc = "consumed"
  /\ \/ /\ Authorized /\ h.ctx = "live"
        /\ h' = [h EXCEPT !.pc = "begin", !.policy = EffectivePolicy, !.deadline = account.expires]
        /\ rights' = {c \in account.cfg : Allowed(c)}
        /\ UNCHANGED audit
     \/ /\ ~Authorized \/ h.ctx # "live"
        /\ h' = [h EXCEPT !.pc = "returned"]
        /\ RecordDenied /\ UNCHANGED rights
  /\ UNCHANGED <<account, late, ticket, conn, online, pump, filter, results, shown, changes>>
  /\ UNCHANGED guacd

-----------------------------------------------------------------------------
(* Connect, up to the relay *)

BeginAudit ==
  /\ h.pc = "begin"
  /\ \/ /\ h.ctx = "live"
        /\ audit' = [audit EXCEPT !.state = "connecting"]
        /\ h' = [h EXCEPT !.pc = "dial"]
     \/ h' = [h EXCEPT !.pc = "returned"] /\ UNCHANGED audit
  /\ UNCHANGED <<account, late, ticket, conn, online, pump, filter, results, rights, shown, changes>>
  /\ UNCHANGED guacd

(* preRelayOutcome *)
PreRelayOutcome(code) ==
  IF h.deadline /\ h.ctx = "deadline" THEN <<"terminated", "account_expired">> ELSE <<"failed", code>>

(* The handler goes on to finishAudit with this outcome. *)
EndWith(outcome) == h' = [h EXCEPT !.pc = "finish", !.code = outcome]

(* Connector.Connect: dial guacd ... *)
Dial ==
  /\ h.pc = "dial"
  /\ \/ /\ h.ctx = "live"
        /\ h' = [h EXCEPT !.pc = "handshake"]
        /\ conn' = [conn EXCEPT !["guacd"] = "open"]
     \/ EndWith(PreRelayOutcome("guacd_connect_failed")) /\ UNCHANGED conn
  /\ UNCHANGED <<account, late, ticket, online, audit, pump, filter, results, rights, shown, changes>>
  /\ UNCHANGED guacd

(* ... and shake hands; every failure closes the connection again. *)
PerformHandshake ==
  /\ h.pc = "handshake"
  /\ \/ /\ h.ctx = "live" /\ conn["guacd"] = "open"
        /\ h' = [h EXCEPT !.pc = "upgrade"] /\ UNCHANGED conn
     \/ /\ EndWith(PreRelayOutcome("guacd_connect_failed"))
        /\ conn' = [conn EXCEPT !["guacd"] = "closed"]
  /\ UNCHANGED <<account, late, ticket, online, audit, pump, filter, results, rights, shown, changes>>
  /\ UNCHANGED guacd

(* Mutant: a failed upgrade leaves the guacd connection open. *)
MutantUpgrade ==
  /\ h.pc = "upgrade"
  /\ \/ /\ h' = [h EXCEPT !.pc = "activate"]
        /\ conn' = [conn EXCEPT !["browser"] = "open"]
     \/ EndWith(<<"failed", "websocket_upgrade_failed">>) /\ UNCHANGED conn
  /\ UNCHANGED <<account, late, ticket, online, audit, pump, filter, results, rights, shown, changes>>
  /\ UNCHANGED guacd

Upgrade ==
  /\ h.pc = "upgrade"
  /\ \/ /\ h' = [h EXCEPT !.pc = "activate"]
        /\ conn' = [conn EXCEPT !["browser"] = "open"]
     \/ /\ EndWith(<<"failed", "websocket_upgrade_failed">>)
        /\ conn' = [conn EXCEPT !["guacd"] = "closed"]
  /\ UNCHANGED <<account, late, ticket, online, audit, pump, filter, results, rights, shown, changes>>
  /\ UNCHANGED guacd

Closed == [browser |-> "closed", guacd |-> "closed"]

Activate ==
  /\ h.pc = "activate"
  /\ \/ /\ h.ctx = "live"
        /\ audit' = [audit EXCEPT !.state = "active"]
        /\ h' = [h EXCEPT !.pc = "register"] /\ UNCHANGED conn
     \/ /\ EndWith(PreRelayOutcome("audit_activate_failed"))
        /\ conn' = Closed /\ UNCHANGED audit
  /\ UNCHANGED <<account, late, ticket, online, pump, filter, results, rights, shown, changes>>
  /\ UNCHANGED guacd

(* online.Register, then relay starts its two goroutines. *)
Register ==
  /\ h.pc = "register"
  /\ online' = TRUE
  /\ h' = [h EXCEPT !.pc = "relay"]
  /\ pump' = [d \in Dir |-> [pump[d] EXCEPT !.pc = "read"]]
  /\ UNCHANGED <<account, late, ticket, conn, audit, filter, results, rights, shown, changes>>
  /\ UNCHANGED guacd

-----------------------------------------------------------------------------
(* The channel filter *)

(* channelDecision: may this opcode pass in this direction? *)
ChannelDecision(d, op) ==
  CASE op = "clipboard" -> IF d = "in" THEN "clipboard_write" \in h.policy
                                       ELSE "clipboard_read" \in h.policy
    [] op = "file" -> IF d = "in" THEN "file_upload" \in h.policy ELSE "file_download" \in h.policy
    [] op = "put" -> d = "in" /\ "file_upload" \in h.policy
    [] op = "get" -> d = "in" /\ "file_download" \in h.policy
    [] op = "body" -> d = "out" /\ "file_download" \in h.policy
    [] op = "filesystem" -> d = "out" /\ "drive_mapping" \in h.policy

Audited(d, i) == i.op \in ChannelOps \/ (i.op = "end" /\ i.id \in filter[d].streams)

(* What Allow, allowBlob and allowEnd refuse with an error, which ends the   *)
(* relay: the index of a stream that is still open, one stream too many, or  *)
(* an audited instruction without room for its event.                        *)
Refused(d, i) ==
  LET f == filter[d]
      reused == i.id \in f.blocked \cup f.streams
      full == Cardinality(f.blocked) + Cardinality(f.streams) >= MaxTracked
  IN \/ i.op = "bad"
     \/ i.op \in StreamOps /\ (reused \/ full)
     \/ Audited(d, i) /\ f.events >= MaxEvents

(* Mutant: the data of a denied stream passes like that of an unknown one. *)
MutantVerdict(d, i) ==
  LET denied == \/ i.op = "end" /\ i.id \in filter[d].blocked
                \/ i.op \in ChannelOps /\ ~ChannelDecision(d, i.op)
  IN IF Refused(d, i) THEN "error" ELSE IF denied THEN "drop" ELSE "pass"

(* What Allow does with an instruction: end the relay, drop it, or pass it. *)
Verdict(d, i) ==
  LET denied == \/ i.op \in {"blob", "end"} /\ i.id \in filter[d].blocked
                \/ i.op \in ChannelOps /\ ~ChannelDecision(d, i.op)
  IN IF Refused(d, i) THEN "error" ELSE IF denied THEN "drop" ELSE "pass"

(* Allow's and allowBlob's and allowEnd's effect on the filter's own maps. *)
FilterAfter(d, i) ==
  LET f == filter[d]
      e == IF Audited(d, i) THEN f.events + 1 ELSE f.events
  IN CASE i.op \in StreamOps /\ ChannelDecision(d, i.op) ->
            [f EXCEPT !.streams = @ \cup {i.id}, !.bytes[i.id] = 0, !.events = e]
       [] i.op \in StreamOps /\ ~ChannelDecision(d, i.op) -> [f EXCEPT !.blocked = @ \cup {i.id}, !.events = e]
       [] i.op = "blob" /\ i.id \in f.streams -> [f EXCEPT !.bytes[i.id] = @ + 1]
       [] i.op = "end" -> [f EXCEPT !.blocked = @ \ {i.id}, !.streams = @ \ {i.id},
                                    !.bytes[i.id] = 0, !.events = e]
       [] OTHER -> [f EXCEPT !.events = e]

-----------------------------------------------------------------------------
(* The relay goroutines *)

(* What the sender does to its own streams.  A sender opens a stream of an  *)
(* irrelevant opcode on a free index, and sends data on a stream it opened. *)
MineAfter(d, i) ==
  CASE i.op \in StreamOps \cup {"other"} /\ i.id # NoId -> [mine EXCEPT ![d][i.id] = i.op]
    [] i.op = "end" -> [mine EXCEPT ![d][i.id] = "none"]
    [] OTHER -> mine

Sends(d, i) ==
  /\ i.op \in StreamOps => i.id # NoId
  /\ i.op \in {"blob", "end"} => i.id # NoId /\ mine[d][i.id] # "none"
  /\ i.op = "other" /\ i.id # NoId => mine[d][i.id] = "none"
  /\ i.op \in {"get", "filesystem", "error", "bad"} => i.id = NoId
  /\ i.op = "error" => d = "out"

(* Read one instruction and filter it. *)
ReadInstruction(d, i) ==
  /\ pump[d].pc = "read" /\ conn[Source(d)] = "open"
  /\ sent < MaxSent /\ Sends(d, i)
  /\ sent' = sent + 1
  /\ mine' = MineAfter(d, i)
  /\ \/ /\ Verdict(d, i) = "error" \/ (Audited(d, i) /\ Verdict(d, i) # "error")
        /\ pump' = [pump EXCEPT ![d].pc = "return", ![d].err = "other"]
        /\ UNCHANGED <<filter, ledger>>
     \/ /\ Verdict(d, i) # "error"
        /\ filter' = [filter EXCEPT ![d] = FilterAfter(d, i)]
        /\ ledger' = IF i.op = "end" /\ Audited(d, i)
                     THEN [ledger EXCEPT ![d].noted = @ + filter[d].bytes[i.id]] ELSE ledger
        /\ pump' = IF Verdict(d, i) = "pass"
                   THEN [pump EXCEPT ![d].pc = "forward", ![d].i = i] ELSE pump
  /\ UNCHANGED <<account, late, ticket, h, conn, online, audit, results, received, rights, shown, changes>>

(* The source is gone: a clean close, a reset and our own close count as   *)
(* expected; a browser that vanishes gives an abnormal-closure error.      *)
ReadFails(d) ==
  /\ pump[d].pc = "read" /\ conn[Source(d)] # "open"
  /\ pump' = [pump EXCEPT ![d].pc = "return",
                          ![d].err = IF conn[Source(d)] = "lost" THEN "other" ELSE "expected"]
  /\ UNCHANGED <<account, late, ticket, h, conn, online, audit, filter, results, rights, shown, changes>>
  /\ UNCHANGED guacd

(* The receiver takes the instruction: the opcode itself, or the data of the *)
(* stream the sender opened under that index.                                *)
Receive(d, i) ==
  /\ received' = [received EXCEPT ![d] = @ \cup
        ({IF i.op = "blob" THEN mine[d][i.id] ELSE i.op} \cap ChannelOps)]
  /\ ledger' =
       CASE i.op = "blob" /\ mine[d][i.id] \in StreamOps -> [ledger EXCEPT ![d].carried[i.id] = @ + 1]
         [] i.op = "end" -> [ledger EXCEPT ![d].carried[i.id] = 0,
                              ![d].ended = @ + ledger[d].carried[i.id]]
         [] OTHER -> ledger
  /\ shown' = (shown \/ i.op = "error")

(* Encode to the other side.  guacd's error instruction is shown to the   *)
(* browser first and then ends the relay.                                 *)
Forward(d) ==
  /\ pump[d].pc = "forward" /\ conn[Sink(d)] # "closed"
  /\ \/ conn[Sink(d)] = "open" /\ Receive(d, pump[d].i)
     \/ conn[Sink(d)] # "open" /\ UNCHANGED <<received, ledger, shown>>
  /\ pump' = [pump EXCEPT ![d].pc = IF pump[d].i.op = "error" THEN "return" ELSE "read",
                          ![d].err = IF pump[d].i.op = "error" THEN "guacd" ELSE @, ![d].i = NoInstruction]
  /\ UNCHANGED <<account, late, ticket, h, conn, online, audit, filter, results, mine, rights, sent, changes>>

ForwardFails(d) ==
  /\ pump[d].pc = "forward" /\ conn[Sink(d)] # "open"
  /\ \E err \in {"expected"} \cup (IF conn[Sink(d)] = "closed" THEN {} ELSE {"other"}) :
       pump' = [pump EXCEPT ![d].pc = "return", ![d].err = err, ![d].i = NoInstruction]
  /\ UNCHANGED <<account, late, ticket, h, conn, online, audit, filter, results, rights, shown, changes>>
  /\ UNCHANGED guacd

(* The goroutine's last step: send the result on the buffered channel.  Its *)
(* filter is garbage from then on, and so is what is kept about it here.    *)
SendResult(d) ==
  /\ pump[d].pc = "return" /\ Len(results) < ResultCap
  /\ results' = Append(results, [source |-> Source(d), err |-> pump[d].err])
  /\ pump' = [pump EXCEPT ![d].pc = "done", ![d].err = "expected"]
  /\ filter' = [filter EXCEPT ![d] = NewFilter]
  /\ mine' = [mine EXCEPT ![d] = [x \in Id |-> "none"]]
  /\ ledger' = [ledger EXCEPT ![d] = NewLedger]
  /\ UNCHANGED <<account, late, ticket, h, conn, online, audit, received, rights, shown, sent, changes>>

-----------------------------------------------------------------------------
(* relay's select, and the rest of Connect *)

CloseAndReturn(err) ==
  /\ conn' = Closed
  /\ h' = [h EXCEPT !.pc = "relayed", !.err = err]

RelayUnchanged == UNCHANGED <<account, late, ticket, online, audit, pump, filter, rights, shown, changes>>

RelayDone ==
  /\ h.pc \in {"relay", "grace"} /\ h.ctx # "live"
  /\ CloseAndReturn("ctx")
  /\ UNCHANGED results /\ RelayUnchanged /\ UNCHANGED guacd

(* A browser that merely left gives guacd's result 50 ms to overtake it. *)
RelayResult ==
  /\ h.pc = "relay" /\ results # <<>>
  /\ results' = Tail(results)
  /\ LET r == Head(results)
     IN \/ /\ r.source = "browser" /\ r.err = "expected"
           /\ h' = [h EXCEPT !.pc = "grace", !.err = r.err] /\ UNCHANGED conn
        \/ /\ ~(r.source = "browser" /\ r.err = "expected")
           /\ CloseAndReturn(r.err)
  /\ RelayUnchanged /\ UNCHANGED guacd

GraceResult ==
  /\ h.pc = "grace" /\ results # <<>>
  /\ results' = Tail(results)
  /\ CloseAndReturn(IF Head(results).err = "expected" THEN h.err ELSE Head(results).err)
  /\ RelayUnchanged /\ UNCHANGED guacd

(* 50 ms are enough for a goroutine that holds an instruction or a result. *)
GraceTimeout ==
  /\ h.pc = "grace" /\ results = <<>>
  /\ pump["out"].pc = "read"
  /\ CloseAndReturn(h.err)
  /\ UNCHANGED results /\ RelayUnchanged /\ UNCHANGED guacd

(* relayOutcomeWithDeadline and relayOutcome *)
RelayOutcome ==
  IF h.deadline /\ h.ctx = "deadline" THEN <<"terminated", "account_expired">>
  ELSE CASE h.err = "expected" -> <<"succeeded", "">>
         [] h.err = "guacd" -> <<"failed", "guacd_error">>
         [] h.err = "ctx" \/ (h.err = "other" /\ h.ctx # "live") -> <<"terminated", "session_cancelled">>
         [] OTHER -> <<"failed", "relay_failed">>

Unregister ==
  /\ h.pc = "relayed"
  /\ online' = FALSE
  /\ EndWith(RelayOutcome)
  /\ UNCHANGED <<account, late, ticket, conn, audit, pump, filter, results, rights, shown, changes>>
  /\ UNCHANGED guacd

(* finishAudit runs on a context of its own; a failed Finish is only logged. *)
FinishAudit ==
  /\ h.pc = "finish"
  /\ \E state \in {"finished", "unfinished"} :
       audit' = [audit EXCEPT !.state = state,
                   !.outcome = IF state = "finished" THEN h.code[1] ELSE @]
  /\ h' = [h EXCEPT !.pc = "returned"]
  /\ UNCHANGED <<account, late, ticket, conn, online, pump, filter, results, rights, shown, changes>>
  /\ UNCHANGED guacd

-----------------------------------------------------------------------------
(* The environment *)

(* A peer goes away.  Before the upgrade the browser's departure cancels the *)
(* request context; after it the hijacked connection is not watched.         *)
PeerLeaves(c, how) ==
  /\ conn[c] = "open" /\ h.pc \in {"handshake", "relay", "grace"}
  /\ how = "lost" => c = "browser"
  /\ conn' = [conn EXCEPT ![c] = how]
  /\ UNCHANGED <<account, late, ticket, h, online, audit, pump, filter, results, rights, shown, changes>>
  /\ UNCHANGED guacd

ClientCancels ==
  /\ h.pc \in {"consumed", "begin", "dial", "handshake"} /\ h.ctx = "live"
  /\ h' = [h EXCEPT !.ctx = "canceled"]
  /\ UNCHANGED <<account, late, ticket, conn, online, audit, pump, filter, results, rights, shown, changes>>
  /\ UNCHANGED guacd

(* The account's expiry passes; a session begun before it has it as deadline. *)
ExpiryPasses ==
  /\ ~late /\ h.pc \notin {"finish", "returned"}
  /\ late' = TRUE
  /\ h' = [h EXCEPT !.ctx = IF h.deadline /\ @ = "live" THEN "deadline" ELSE @]
  /\ UNCHANGED <<account, ticket, conn, online, audit, pump, filter, results, rights, shown, changes>>
  /\ UNCHANGED guacd

(* The administrator ends an online session through the registry's closer. *)
Disconnect ==
  /\ online /\ conn # Closed
  /\ conn' = Closed
  /\ UNCHANGED <<account, late, ticket, h, online, audit, pump, filter, results, rights, shown, changes>>
  /\ UNCHANGED guacd

(* The administrator changes the account, or the user's rights on it. *)
ChangeAccount ==
  /\ changes < MaxChanges /\ h.pc \in {"idle", "consumed"}
  /\ changes' = changes + 1
  /\ \/ \E c \in Toggled \cap Channels : account' = [account EXCEPT !.cfg = IF c \in @ THEN @ \ {c} ELSE @ \cup {c}]
     \/ \E c \in Toggled :
          account' = [account EXCEPT !.grants = IF c \in @ THEN @ \ {c} ELSE @ \cup {c}]
     \/ account' = [account EXCEPT !.disabled = TRUE]
  /\ UNCHANGED <<late, ticket, h, conn, online, audit, pump, filter, results, rights, shown>>
  /\ UNCHANGED guacd

-----------------------------------------------------------------------------
(* Specification *)

HandlerStep ==
  \/ Authorize \/ BeginAudit \/ Dial \/ PerformHandshake \/ Upgrade \/ Activate \/ Register
  \/ RelayDone \/ RelayResult \/ GraceResult \/ GraceTimeout \/ Unregister \/ FinishAudit

PumpStep(d) == ReadFails(d) \/ Forward(d) \/ ForwardFails(d) \/ SendResult(d)

Next ==
  \/ CreateTicket \/ ConsumeTicket \/ HandlerStep
  \/ \E d \in Dir : PumpStep(d) \/ \E op \in Opcodes, x \in Id \cup {NoId} : ReadInstruction(d, [op |-> op, id |-> x])
  \/ \E c \in {"browser", "guacd"}, how \in {"left", "lost"} : PeerLeaves(c, how)
  \/ ClientCancels \/ ExpiryPasses \/ Disconnect \/ ChangeAccount

Spec == Init /\ [][Next]_vars

-----------------------------------------------------------------------------
(* Properties *)

(* The right a piece of channel traffic needs, by what it is to the user. *)
Needs(d, op) ==
  CASE op = "clipboard" -> {IF d = "in" THEN "clipboard_write" ELSE "clipboard_read"}
    [] op \in {"file", "put"} /\ d = "in" -> {"file_upload", "drive_mapping"}
    [] op \in {"file", "body"} /\ d = "out" -> {"file_download", "drive_mapping"}
    [] op = "get" /\ d = "in" -> {"file_download", "drive_mapping"}
    [] op = "filesystem" /\ d = "out" -> {"drive_mapping"}
    [] OTHER -> {"never"}

(* Neither a channel instruction nor the data of a channel stream reaches   *)
(* the other side unless account and user had the right to it when the      *)
(* ticket was consumed: a policy or grant withdrawn between the issue of    *)
(* the ticket and its use (Handler.CreateTicket, Handler.Connect) is        *)
(* honoured, and data follows the verdict on the stream it belongs to       *)
(* (channelFilter.Allow, allowBlob, allowEnd).                              *)
OnlyPermittedTraffic ==
  \A d \in Dir : \A op \in received[d] : Needs(d, op) \subseteq rights

(* The byte counts of the audit's "end" events are the bytes of the         *)
(* transfers the receiver saw completed: nothing is counted twice, lost by  *)
(* a dropped stream, or carried over when an index is used again            *)
(* (channelFilter.allowBlob and allowEnd); an event is written before its   *)
(* "end" is forwarded, so the count may run ahead by the one in hand.       *)
EndedTransfersCounted ==
  \A d \in Dir :
    LET l == ledger[d]
    IN /\ l.ended <= l.noted
       /\ pump[d].pc = "read" /\ conn[Sink(d)] = "open" => l.ended = l.noted

(* The audited outcome is the one the session really had: a guacd error the *)
(* user was shown is never filed as a success, however the browser's close, *)
(* or an administrator's disconnect, races it through relay's select and    *)
(* its 50 ms grace; and neither is a session that its account's expiry or a *)
(* cancelled request ended (relayOutcomeWithDeadline).                      *)
OutcomeIsHonest == audit.outcome = "succeeded" => ~shown /\ h.ctx = "live"

(* Nothing of the session is left behind: the handler is back, both         *)
(* connections are closed, the online entry is gone and both relay          *)
(* goroutines have delivered their result.                                  *)
Quiet ==
  /\ h.pc = "returned" /\ ~online
  /\ \A c \in DOMAIN conn : conn[c] \in {"absent", "closed"}
  /\ \A d \in Dir : pump[d].pc \in {"off", "done"}

(* A session that loses a peer, is disconnected or meets its deadline winds *)
(* up completely (Handler.Connect, Handler.relay): until nothing is left of *)
(* it some goroutine of the server can take a step, and every such step     *)
(* brings its goroutine nearer to its return.  No exit path forgets a       *)
(* connection or the registry, and the results channel has room for the     *)
(* goroutine relay no longer waits for.                                     *)
Ending == h.ctx # "live" \/ \E c \in DOMAIN conn : conn[c] \in {"left", "lost", "closed"}
OwnStep == HandlerStep \/ \E d \in Dir : PumpStep(d)
SessionWindsUp == Ending /\ ~Quiet => ENABLED OwnStep

(* Only traffic the policy permits passes the filter, and what passed is     *)
(* counted in the audit.                                                     *)
TrafficPermitted == OnlyPermittedTraffic /\ EndedTransfersCounted

(* An RDP session always has a way to its end, and the outcome filed for it  *)
(* is the one it had.                                                        *)
SessionEndsHonestly == SessionWindsUp /\ OutcomeIsHonest
=============================================================================
