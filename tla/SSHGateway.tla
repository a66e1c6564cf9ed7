----------------------------- MODULE SSHGateway -----------------------------
(***************************************************************************)
(* One SSH session through the bastion: the connection handler             *)
(* (server/sshserver/server.go), the proxy of each of its channels         *)
(* (proxy/sshproxy, proxy/sftpproxy), the recorder they share              *)
(* (recording/session.go, command.go, stream_redactor.go), and the other   *)
(* way in, a web terminal, which has one channel and its own order of      *)
(* deferred calls (server/admin/webterminal*.go).                          *)
(*                                                                         *)
(* The proxies are goroutines nobody waits for: the handler closes the     *)
(* recorder and ends the audit session while they may still hold bytes the *)
(* client sent.  All channels feed one recorder, which tells an answer to  *)
(* a password prompt from a command by what came last on ANY of them.      *)
(*                                                                         *)
(* A frame of input is a whole line, a part of one, or a bare newline; a   *)
(* frame of output is ordinary text, a password prompt, or the first or    *)
(* second half of one.  Terminal sizes, formats and redaction patterns are *)
(* left out; the SSH library and the two peers are external.               *)
(***************************************************************************)
EXTENDS Naturals, Sequences, FiniteSets, SequencesExt

CONSTANTS
    Channels,    \* channels the client may open; a web terminal has one of them
    Fronts,      \* the ways in: a subset of {"ssh", "web"}
    Configs,     \* Configs[front]: the values of config.Recording to explore,
                 \* each [enabled, input, commands, redact : BOOLEAN]
    Grants,      \* what the access control may grant: sets of "ssh" and "sftp"
    MaxFrames,   \* per front, bound on the frames and commands of client and target
    MaxFailures  \* bound on the failures of the audit store and of its files

VARIABLES
    front,      \* which way in
    cfg,        \* the recording options
    pc,         \* where the connection handler stands
    access,     \* what authorizeTarget granted
    clientUp,   \* the client's connection is open
    targetUp,   \* the connection to the target is open
    ctxDone,    \* the connection's context was cancelled by a shutdown
    audit,      \* the audit session: "none", "started", "ended" or "left" open
    online,     \* the session is in the registry of online sessions
    rec,        \* the recorder
    chan,       \* chan[c]: the proxy of a channel
    reached,    \* ghost: the frames and commands that took effect on the target
    answers,    \* ghost: answers to a prompt recorded with nothing in between
    frames,     \* how many frames client and target have sent
    failures    \* how many audit writes have failed

handler == <<front, cfg, pc, access, ctxDone, audit, online>>
links == <<clientUp, targetUp>>
ghosts == <<reached, answers>>
bounds == <<frames, failures>>
vars == <<handler, links, rec, chan, ghosts, bounds>>

Streams == {"out", "err"}
NoFrame == [id |-> 0, kind |-> "none", secret |-> FALSE]

(* prompt: ghost, how far a prompt on this channel is: "no", the stream    *)
(* whose first half came, or "asked" until the answer is recorded;         *)
(* crossed: ghost, other output came between the halves or other input     *)
(* between the prompt and its answer.                                      *)
Idle == [state |-> "none", mode |-> "none", queue |-> <<>>, hold |-> NoFrame,
         todo |-> NoFrame, prompt |-> "no", crossed |-> FALSE]

(* closed and fatal stop the recorder; line and current are the command    *)
(* recorder's; sensitive drops the next command, hide blanks the next      *)
(* line of recorded input; tail and held say how much of a prompt the      *)
(* prompt detector and the output redactor hold.  The ghosts are the lines *)
(* taken for commands and those dropped as answers, the prompts that came, *)
(* the commands the database has, the frames that a call meeting no        *)
(* failure took, and the numbers of those in the command log (a row or a   *)
(* line of the file) and of those recorded in clear.                       *)
NoRecorder ==
    [made |-> FALSE, closed |-> FALSE, fatal |-> FALSE,
     line |-> <<>>, current |-> <<>>, written |-> FALSE, sensitive |-> FALSE,
     hide |-> FALSE, tail |-> FALSE, held |-> "",
     submitted |-> <<>>, dropped |-> <<>>, asks |-> 0, sink |-> <<>>,
     seen |-> {}, kept |-> {}, clear |-> {}]

-----------------------------------------------------------------------------
(* The command recorder.  res says which write of the call fails, if any:  *)
(* "file" the JSON line, "db" the audit store, "cast" the terminal.        *)

(* A shutdown cancels the context the audit store is written under. *)
Expected == IF ctxDone THEN "db" ELSE "ok"
Outcomes == {Expected} \cup (IF failures < MaxFailures THEN {"file", "db", "cast"} ELSE {})

FlushFails(r, res) ==
    r.current # <<>> /\ (res = "file" \/ (res = "db" /\ ~r.written))

FlushCurrent(r, res) ==
    IF r.current = <<>> THEN r
    ELSE IF res = "file" THEN [r EXCEPT !.fatal = TRUE]
    ELSE LET filed == [r EXCEPT !.current = <<>>, !.written = FALSE,
                                !.kept = @ \cup ToSet(r.current)]
         IN  IF r.written THEN filed
             ELSE IF res = "db" THEN [filed EXCEPT !.fatal = TRUE]
             ELSE [filed EXCEPT !.sink = Append(@, r.current)]

SubmitLine(r, res) ==
    LET rest == [r EXCEPT !.line = <<>>]
    IN  IF r.line = <<>> THEN rest
        ELSE IF r.sensitive
             THEN [rest EXCEPT !.sensitive = FALSE, !.dropped = Append(@, r.line)]
        ELSE IF FlushFails(rest, res) THEN FlushCurrent(rest, res)
        ELSE [FlushCurrent(rest, res) EXCEPT
                 !.current = r.line, !.written = FALSE,
                 !.submitted = Append(@, r.line),
                 !.clear = @ \cup ToSet(r.line)]

ObserveInput(r, f, res) ==
    LET typed == IF f.kind = "enter" THEN r ELSE [r EXCEPT !.line = Append(@, f.id)]
    IN  IF f.kind = "part" THEN typed ELSE SubmitLine(typed, res)

(* A command of an exec request goes to the audit store at once; when that *)
(* fails it is tried again when the command is flushed.                    *)
RecordDirect(r, id, res) ==
    IF FlushFails(r, res) THEN FlushCurrent(r, res)
    ELSE LET now == [FlushCurrent(r, res) EXCEPT
                        !.current = <<id>>, !.submitted = Append(@, <<id>>)]
         IN  IF res = "db" THEN [now EXCEPT !.written = FALSE, !.fatal = TRUE]
             ELSE [now EXCEPT !.written = TRUE, !.sink = Append(@, <<id>>),
                              !.kept = @ \cup {id}]

-----------------------------------------------------------------------------
(* The session recorder *)

(* flushPendingOutputLocked: the command recorder looks for a prompt in    *)
(* the output it is handed.                                                *)
FlushPendingOutput(r) ==
    [r EXCEPT !.held = "", !.sensitive = @ \/ (cfg.commands /\ r.held = "full")]

MutantRedactInputFrame(r, f) ==
    IF cfg.redact /\ r.hide THEN [r EXCEPT !.hide = FALSE]
    ELSE [r EXCEPT !.clear = @ \cup {f.id}]

(* A hidden line stays hidden to its end, however many frames it takes. *)
RedactInputFrame(r, f) ==
    IF cfg.redact /\ r.hide THEN [r EXCEPT !.hide = f.kind = "part"]
    ELSE [r EXCEPT !.clear = @ \cup {f.id}]

RecordInput(r, f, res) ==
    LET a == FlushPendingOutput(r)
        b == IF cfg.commands THEN ObserveInput(a, f, res) ELSE a
        c == IF ~cfg.input THEN b
             ELSE IF res = "cast" THEN [b EXCEPT !.fatal = TRUE]
             ELSE RedactInputFrame(b, f)
    IN  IF ~r.made \/ r.closed THEN r
        ELSE [c EXCEPT !.seen = IF c.fatal \/ ~cfg.commands THEN @ ELSE @ \cup {f}]

RecordCommand(r, f, res) ==
    LET done == RecordDirect(FlushPendingOutput(r), f.id, res)
    IN  IF ~r.made \/ r.closed \/ ~cfg.commands THEN r
        ELSE [done EXCEPT !.seen = IF done.fatal THEN @ ELSE @ \cup {f}]

(* A row and a line of a file, the second also when the first fails. *)
RecordFileEvent(r, f, res) ==
    LET both == [r EXCEPT !.kept = @ \cup {f.id}]
    IN  IF ~r.made \/ r.closed THEN r
        ELSE IF res \in {"db", "file"} THEN [both EXCEPT !.fatal = TRUE]
        ELSE [both EXCEPT !.seen = @ \cup {f}]

(* observeSensitivePrompt keeps the end of the last output, so that a      *)
(* prompt cut in two is still seen.                                        *)
ObserveSensitivePrompt(r, kind) ==
    LET seen == kind = "prompt" \/ (kind = "end" /\ r.tail)
    IN  IF ~cfg.redact THEN r
        ELSE [r EXCEPT !.tail = kind = "half", !.hide = @ \/ seen, !.sensitive = @ \/ seen]

(* What the output redactor holds back until the line or the input ends it. *)
Held(r, kind) ==
    IF ~cfg.redact \/ kind = "text" THEN ""
    ELSE IF kind = "prompt" \/ (kind = "end" /\ r.held # "") \/ r.held = "full" THEN "full"
    ELSE IF kind = "half" THEN "half" ELSE ""

RecordOutput(r, kind, res) ==
    LET a == ObserveSensitivePrompt(r, kind)
        shown == \/ ~cfg.redact /\ kind = "prompt"
                 \/ kind = "text" /\ r.held = "full"
    IN  IF ~r.made \/ r.closed THEN r
        ELSE [a EXCEPT !.held = Held(r, kind),
                       !.sensitive = @ \/ (cfg.commands /\ shown),
                       !.asks = IF kind \in {"prompt", "end"} THEN @ + 1 ELSE @,
                       !.fatal = @ \/ res = "cast"]

(* Close flushes the output, then the command that is still open; a line   *)
(* that was not ended is not submitted.  What the open recorder kept       *)
(* between two calls is not read again.                                    *)
Close(r, res) ==
    IF ~r.made \/ r.closed THEN r
    ELSE [FlushCurrent(FlushPendingOutput(r), res) EXCEPT
             !.closed = TRUE, !.fatal = @ \/ res \in {"file", "cast"},
             !.sensitive = FALSE, !.hide = FALSE, !.tail = FALSE]

MutantReportFatal(r) == clientUp' = (clientUp /\ ~r.fatal) /\ UNCHANGED targetUp

(* reportFatal closes both ends through onFatal, once. *)
ReportFatal(r) ==
    /\ targetUp' = (targetUp /\ ~r.fatal)
    /\ clientUp' = (clientUp /\ ~r.fatal)

(* The recorder becomes r; a failure is one the call meets. *)
Recorded(r, res) ==
    /\ res # Expected => r.fatal /\ ~rec.fatal
    /\ rec' = r
    /\ ReportFatal(r)
    /\ failures' = IF res = Expected THEN failures ELSE failures + 1

-----------------------------------------------------------------------------
(* The connection handler *)

(* handleConn's deferred calls in the order they run.  The web terminal's  *)
(* inner function closes the target before any other of them.              *)
Teardown ==
    IF front = "ssh"
    THEN <<"closeRecorder", "endAudit", "closeTarget", "closeClient", "done">>
    ELSE <<"closeTarget", "closeRecorder", "endAudit", "closeClient", "done">>

Leave == pc' = Teardown[1]
AfterStep(step) == Teardown[1 + CHOOSE i \in 1 .. 4 : Teardown[i] = step]

(* One step of setting up: it succeeds and the handler goes on, or the     *)
(* handler returns through its deferred calls.                             *)
Try(here, next, effect) ==
    /\ pc = here
    /\ \/ pc' = next /\ effect
       \/ Leave /\ UNCHANGED <<access, links, audit, rec>>
    /\ UNCHANGED <<front, cfg, ctxDone, online, chan, ghosts, bounds>>

(* NewServerConn: without the client's connection it fails. *)
Handshake ==
    Try("handshake", "resolve", clientUp /\ UNCHANGED <<access, links, audit, rec>>)

ResolveTarget ==
    Try("resolve", "authorize", UNCHANGED <<access, links, audit, rec>>)

(* Two decisions, one for each protocol; a session with neither is refused. *)
AuthorizeTarget ==
    Try("authorize", "dial",
        access' \in Grants \ {{}} /\ UNCHANGED <<links, audit, rec>>)

DialTarget ==
    Try("dial", "audit", targetUp' = TRUE /\ UNCHANGED <<clientUp, access, audit, rec>>)

CreateAuditSession ==
    Try("audit", "record", audit' = "started" /\ UNCHANGED <<access, links, rec>>)

NewSessionRecorder ==
    Try("record", "register",
        rec' = [rec EXCEPT !.made = cfg.enabled] /\ UNCHANGED <<access, links, audit>>)

Register ==
    /\ pc = "register"
    /\ pc' = IF front = "web" THEN "shell" ELSE "serve"
    /\ online' = TRUE
    /\ UNCHANGED <<front, cfg, access, ctxDone, audit, links, rec, chan, ghosts, bounds>>

(* serveWebTerminalSSHSession: a session, a terminal and a shell on the    *)
(* target, or the web terminal is over, though it was registered.          *)
ServeWebTerminal ==
    /\ pc = "shell"
    /\ \/ Leave /\ online' = FALSE /\ UNCHANGED chan
       \/ /\ targetUp /\ pc' = "serve" /\ UNCHANGED online
          /\ \E c \in Channels :
                chan' = [chan EXCEPT ![c].state = "open", ![c].mode = "shell"]
    /\ UNCHANGED <<front, cfg, access, ctxDone, audit, links, rec, ghosts, bounds>>

Drained(c) == chan[c].queue = <<>> /\ chan[c].hold = NoFrame

(* The loop over the client's channels ends with its connection.  A web    *)
(* terminal ends when its session does, or its input, which is read to the *)
(* end unless this side closed the connection, and then the target's too.  *)
(* The first deferred call takes the session off the registry.             *)
ServeReturns ==
    /\ pc = "serve"
    /\ IF front = "ssh" THEN ~clientUp
       ELSE \/ \A c \in Channels : chan[c].state # "open"
            \/ ~clientUp /\ (~targetUp \/ \A c \in Channels : Drained(c))
    /\ online' = FALSE
    /\ Leave
    /\ UNCHANGED <<front, cfg, access, ctxDone, audit, links, rec, chan, ghosts, bounds>>

CloseRecorder ==
    /\ pc = "closeRecorder"
    /\ \E res \in Outcomes : Recorded(Close(rec, res), res)
    /\ pc' = AfterStep(pc)
    /\ UNCHANGED <<front, cfg, access, ctxDone, audit, online, chan, ghosts, frames>>

(* endAuditSession, under a context that the shutdown does not cancel; if  *)
(* it fails the row waits for its lease to lapse.                          *)
EndAuditSession ==
    /\ pc = "endAudit"
    /\ audit' \in IF audit = "started" THEN {"ended", "left"} ELSE {audit}
    /\ pc' = AfterStep(pc)
    /\ UNCHANGED <<front, cfg, access, ctxDone, online, links, rec, chan, ghosts, bounds>>

CloseTarget ==
    /\ pc = "closeTarget"
    /\ targetUp' = FALSE
    /\ pc' = AfterStep(pc)
    /\ UNCHANGED <<front, cfg, access, ctxDone, audit, online, clientUp, rec, chan, ghosts, bounds>>

CloseClient ==
    /\ pc = "closeClient"
    /\ clientUp' = FALSE
    /\ pc' = "done"
    /\ UNCHANGED <<front, cfg, access, ctxDone, audit, online, targetUp, rec, chan, ghosts, bounds>>

(* The watcher of an SSH connection: a shutdown closes the raw connection. *)
Watcher ==
    /\ ctxDone /\ clientUp /\ pc # "done"
    /\ clientUp' = FALSE
    /\ UNCHANGED <<handler, targetUp, rec, chan, ghosts, bounds>>

(* An administrator disconnects the session: both ends are closed. *)
Disconnect ==
    /\ online
    /\ online' = FALSE
    /\ clientUp' = FALSE
    /\ targetUp' = FALSE
    /\ UNCHANGED <<front, cfg, pc, access, ctxDone, audit, rec, chan, ghosts, bounds>>

-----------------------------------------------------------------------------
(* The proxy of a channel *)

(* The handler accepts a channel and starts its proxy. *)
AcceptChannel(c) ==
    /\ front = "ssh" /\ pc = "serve" /\ clientUp
    /\ chan[c].state = "none"
    /\ chan' = [chan EXCEPT ![c].state = "open"]
    /\ UNCHANGED <<handler, links, rec, ghosts, bounds>>

(* Access.allows *)
Allows(mode) == (IF mode = "sftp" THEN "sftp" ELSE "ssh") \in access

(* SetProtocolSubtype tells the audit store; a failure ends the session. *)
SetProtocolSubtype(r, res) ==
    IF r.made /\ res \in {"db", "file"} THEN [r EXCEPT !.fatal = TRUE] ELSE r

(* forwardRequest, which opens the channel to the target at the first.     *)
(* Serve handles one request after the other.                              *)
ForwardRequest(c, mode) ==
    /\ chan[c].state = "open" /\ chan[c].mode = "none" /\ chan[c].todo = NoFrame
    /\ clientUp /\ targetUp
    /\ Allows(mode)

(* What startCopy copies.  "shell" is also a subsystem other than sftp:    *)
(* asked, forwarded and copied alike, and no command itself.               *)
Copied == {"shell", "exec"}

(* handleRequest for "shell" and "subsystem": the first starts the copiers *)
(* if the target agrees, and so does any subsystem but sftp, served here.  *)
StartMode(c, mode) ==
    /\ ForwardRequest(c, mode)
    /\ chan' = [chan EXCEPT ![c].mode = mode]
    /\ IF mode = "sftp"
       THEN \E res \in Outcomes : Recorded(SetProtocolSubtype(rec, res), res)
       ELSE UNCHANGED <<rec, links, failures>>
    /\ UNCHANGED <<handler, ghosts, frames>>

(* handleRequest for "exec": the target runs the command and the copiers   *)
(* start, or it refuses; the command is recorded after that, whatever the  *)
(* answer was, while input and output already flow.                        *)
Exec(c) ==
    /\ ForwardRequest(c, "exec")
    /\ frames < MaxFrames[front]
    /\ frames' = frames + 1
    /\ LET f == [id |-> frames + 1, kind |-> "exec", secret |-> FALSE]
       IN  \E runs \in BOOLEAN :
              /\ reached' = IF runs THEN reached \cup {f} ELSE reached
              /\ chan' = [chan EXCEPT ![c].mode = IF runs THEN "exec" ELSE "none",
                                      ![c].todo = f]
    /\ UNCHANGED <<handler, answers, links, rec, failures>>

(* The copier records a frame of input, then writes it to the target.      *)
(* Input that is not the answer uses up what the recorder knows of a       *)
(* prompt, on this channel or on another.                                  *)
TakeInput(c) ==
    LET f == Head(chan[c].queue)
        uses(d) == chan[d].prompt = "asked" /\ ~(d = c /\ f.secret)
        answered == f.secret /\ f.kind # "part"
    IN  /\ chan[c].mode \in Copied /\ chan[c].state = "open"
        /\ chan[c].queue # <<>> /\ chan[c].hold = NoFrame
        /\ \E res \in Outcomes : Recorded(RecordInput(rec, f, res), res)
        /\ answers' = IF f.secret /\ ~chan[c].crossed THEN answers \cup {f.id} ELSE answers
        /\ chan' = [d \in Channels |->
              LET p == [chan[d] EXCEPT !.crossed = @ \/ uses(d)]
              IN  IF d # c THEN p
                  ELSE [p EXCEPT !.queue = Tail(@), !.hold = f,
                                 !.prompt = IF answered THEN "no" ELSE @]]
        /\ UNCHANGED <<handler, reached, frames>>

WriteTarget(c) ==
    /\ chan[c].hold # NoFrame
    /\ reached' = IF targetUp /\ chan[c].state = "open"
                  THEN reached \cup {chan[c].hold} ELSE reached
    /\ chan' = [chan EXCEPT ![c].hold = NoFrame,
                            ![c].queue = IF targetUp THEN @ ELSE <<>>]
    /\ UNCHANGED <<handler, answers, links, rec, bounds>>

(* What an SFTP operation may come to, seen from here. *)
OpenFile == {"ok", "fails"}
FileCommand == {"ok", "fails"}
Inspect == {"fails", "nothing"}
ListDirectory == {"nothing", "fails", "timeout"}
Transfer == {"ok", "fails", "end"}

(* An SFTP operation: the target does it, or fails, or only answers, and   *)
(* it is recorded once that is known, but for a read at the end of a file. *)
(* A directory listing that takes too long ends the client's side of the   *)
(* channel, and is recorded as a failure.                                  *)
FileOperation(c) ==
    LET f == Head(chan[c].queue)
        results == OpenFile \cup FileCommand \cup Inspect \cup ListDirectory \cup Transfer
    IN  /\ chan[c].mode = "sftp" /\ chan[c].state = "open"
        /\ chan[c].queue # <<>> /\ chan[c].todo = NoFrame
        /\ \E result \in (IF targetUp THEN results ELSE {"fails"}) :
              /\ reached' = IF result = "ok" THEN reached \cup {f} ELSE reached
              /\ chan' = [chan EXCEPT ![c].todo = IF result = "end" THEN @ ELSE f,
                             ![c].queue = IF result = "timeout" THEN <<>> ELSE Tail(@)]
        /\ UNCHANGED <<handler, answers, links, rec, bounds>>

RecordTodo(c) ==
    LET f == chan[c].todo
    IN  /\ f # NoFrame
        /\ \E res \in Outcomes :
              Recorded(IF f.kind = "exec" THEN RecordCommand(rec, f, res)
                       ELSE RecordFileEvent(rec, f, res), res)
        /\ chan' = [chan EXCEPT ![c].todo = NoFrame]
        /\ UNCHANGED <<handler, ghosts, frames>>

(* The target writes on one of the channel's two streams; each has its own *)
(* copier.  What is recorded is then shown, if the client is still there.  *)
CopyOutput(c, stream, kind) ==
    LET before == chan[c].prompt
        asked == kind = "prompt" \/ (kind = "end" /\ before = stream)
        after == IF asked THEN "asked"
                 ELSE IF before = "asked" THEN before
                 ELSE IF kind = "half" THEN stream
                 ELSE IF before = stream THEN "no" ELSE before
        cuts(d) == chan[d].prompt \in Streams /\ ~(d = c /\ chan[d].prompt = stream)
        afresh == kind = "prompt" \/ (kind = "half" /\ before # "asked")
    IN  /\ chan[c].state = "open" /\ chan[c].mode \in Copied
        /\ targetUp
        /\ frames < MaxFrames[front]
        /\ frames' = frames + 1
        /\ \E res \in {Expected} \cup (Outcomes \cap {"cast"}) :
              Recorded(RecordOutput(rec, kind, res), res)
        /\ chan' = [d \in Channels |->
              LET p == [chan[d] EXCEPT !.crossed = @ \/ cuts(d)]
              IN  IF d # c THEN p
                  ELSE [p EXCEPT !.prompt = after, !.crossed = IF afresh THEN FALSE ELSE @]]
        /\ UNCHANGED <<handler, ghosts>>

(* Serve returns: the client's requests end, the context is cancelled, or  *)
(* the target's channel ended, as it may at any time.  It is busy while it *)
(* handles a request, and an SFTP server works its queue off first.        *)
CloseChannel(c) ==
    /\ chan[c].state = "open"
    /\ chan[c].mode = "sftp" => chan[c].queue = <<>> \/ ctxDone
    /\ chan[c].todo = NoFrame
    /\ chan' = [chan EXCEPT ![c] = [Idle EXCEPT !.state = "over"]]
    /\ UNCHANGED <<handler, links, rec, ghosts, bounds>>

-----------------------------------------------------------------------------
(* The client, the target and the operator *)

(* What the client types once it has seen a prompt is the answer to it. *)
ClientSends(c, kind) ==
    LET queue == chan[c].queue
        secret == /\ chan[c].prompt = "asked"
                  /\ ~\E i \in DOMAIN queue : queue[i].secret /\ queue[i].kind # "part"
    IN  /\ clientUp /\ chan[c].state = "open"
        /\ chan[c].mode \in IF kind = "op" THEN {"sftp"} ELSE Copied
        /\ frames < MaxFrames[front]
        /\ frames' = frames + 1
        /\ chan' = [chan EXCEPT
              ![c].queue = Append(@, [id |-> frames + 1, kind |-> kind, secret |-> secret])]
        /\ UNCHANGED <<handler, links, rec, ghosts, failures>>

ClientCloses ==
    /\ clientUp
    /\ clientUp' = FALSE
    /\ UNCHANGED <<handler, targetUp, rec, chan, ghosts, bounds>>

TargetCloses ==
    /\ targetUp
    /\ targetUp' = FALSE
    /\ UNCHANGED <<handler, clientUp, rec, chan, ghosts, bounds>>

(* The server's context is cancelled.  A web terminal does not follow it. *)
Shutdown ==
    /\ front = "ssh" /\ ~ctxDone
    /\ ctxDone' = TRUE
    /\ UNCHANGED <<front, cfg, pc, access, audit, online, links, rec, chan, ghosts, bounds>>

-----------------------------------------------------------------------------
Init ==
    /\ front \in Fronts
    /\ cfg \in Configs[front]
    /\ pc = IF front = "ssh" THEN "handshake" ELSE "dial"
    /\ access = IF front = "ssh" THEN {} ELSE {"ssh"}
    /\ clientUp = TRUE
    /\ targetUp = FALSE
    /\ ctxDone = FALSE
    /\ audit = "none"
    /\ online = FALSE
    /\ rec = NoRecorder
    /\ chan = [c \in Channels |-> Idle]
    /\ reached = {} /\ answers = {}
    /\ frames = 0 /\ failures = 0

(* Handler, recorder and channels are of their types; frames are numbered.  *)
TypeOK ==
    LET Ids == 0 .. MaxFrames[front]
    IN  /\ front \in Fronts /\ cfg \in Configs[front]
        /\ pc \in {"handshake", "resolve", "authorize", "dial", "audit", "record", "register", "shell",
                   "serve", "closeRecorder", "endAudit", "closeTarget", "closeClient", "done"}
        /\ access \subseteq {"ssh", "sftp"}
        /\ clientUp \in BOOLEAN /\ targetUp \in BOOLEAN /\ ctxDone \in BOOLEAN /\ online \in BOOLEAN
        /\ audit \in {"none", "started", "ended", "left"}
        /\ DOMAIN rec = DOMAIN NoRecorder
        /\ ToSet(rec.line) \cup ToSet(rec.current) \cup rec.kept \cup rec.clear \subseteq Ids
        /\ \A c \in Channels : /\ chan[c].state \in {"none", "open", "over"}
                               /\ chan[c].mode \in {"none", "shell", "exec", "sftp"}
                               /\ chan[c].prompt \in Streams \cup {"no", "asked"}
        /\ \A f \in reached \cup rec.seen : f.id \in Ids
        /\ answers \subseteq Ids /\ frames \in Ids /\ failures \in 0 .. MaxFailures

HandlerStep ==
    \/ Handshake \/ ResolveTarget \/ AuthorizeTarget \/ DialTarget
    \/ CreateAuditSession \/ NewSessionRecorder \/ Register \/ ServeWebTerminal
    \/ ServeReturns
    \/ CloseRecorder \/ EndAuditSession \/ CloseTarget \/ CloseClient

ProxyStep(c) ==
    TakeInput(c) \/ WriteTarget(c) \/ FileOperation(c) \/ RecordTodo(c)

ClientStep(c) ==
    \/ \E mode \in {"shell", "sftp"} : StartMode(c, mode)
    \/ Exec(c)
    \/ \E kind \in {"line", "part", "enter", "op"} : ClientSends(c, kind)
    \/ \E kind \in {"text", "prompt", "half", "end"} : CopyOutput(c, "out", kind)
    \/ CopyOutput(c, "err", "text")

Next ==
    \/ HandlerStep
    \/ Watcher
    \/ Disconnect
    \/ \E c \in Channels : AcceptChannel(c) \/ ProxyStep(c) \/ CloseChannel(c) \/ ClientStep(c)
    \/ ClientCloses \/ TargetCloses \/ Shutdown

Spec == Init /\ [][Next]_vars

-----------------------------------------------------------------------------
Recording == cfg.enabled /\ cfg.commands

(* Frames that had their effect and that no call took, nor will. *)
Unseen ==
    {f \in reached : f \notin rec.seen /\ \A c \in Channels : chan[c].todo # f}

(* Of input, a copier hands every frame to the recorder before the target  *)
(* gets it, and passes none on once the recorder has failed; what a proxy  *)
(* still had when the handler closed the recorder slips through, and so    *)
(* does a command or file operation whose record, made after the fact,     *)
(* fails (server.go:244-262, sshproxy/session.go:114-126, 259-276).  A     *)
(* web terminal leaves no such gap.                                        *)
SeenFirst ==
    \A f \in Unseen :
        /\ front = "ssh"
        /\ rec.closed \/ (rec.fatal /\ f.kind \in {"exec", "op"})

(* A command that was typed waits in memory for the next one, and the next *)
(* one reaches the target only when it is in the command log: whatever     *)
(* fails, at most the last command is without a trace                      *)
(* (command.go:236-267, sshproxy/session.go:198-238).                      *)
OneBehind ==
    \A i, j \in DOMAIN rec.submitted : i < j => ToSet(rec.submitted[i]) \subseteq rec.kept

(* The order of audit and effect on a connection that records commands.    *)
FailClosed == Recording => SeenFirst /\ OneBehind

(* What has been made of a frame the recorder took: it is in the command   *)
(* log, in a command or line still in memory, or in a line that was        *)
(* dropped as the answer to a prompt.                                      *)
Accounted(f) ==
    \/ f.kind = "enter"
    \/ f.id \in rec.kept \cup ToSet(rec.line) \cup ToSet(rec.current)
    \/ \E i \in DOMAIN rec.dropped : f.id \in ToSet(rec.dropped[i])

(* Each command is written to the audit store once, in the order in which  *)
(* the recorder took them, and a recorder that closes without a failure    *)
(* has written them all.  Until it fails everything it took is accounted   *)
(* for, and a password prompt costs at most one line, be it the answer or  *)
(* not: across commands typed and commands of exec requests, channels that *)
(* mix, the retry of a failed write, and the flush at the end              *)
(* (command.go:132-174, 236-300).                                          *)
CommandsKept ==
    /\ \A i, j \in DOMAIN rec.sink : rec.sink[i] = rec.sink[j] => i = j
    /\ Len(rec.dropped) <= rec.asks
    /\ ~rec.fatal =>
          /\ rec.submitted = rec.sink
                \o (IF rec.current # <<>> /\ ~rec.written THEN <<rec.current>> ELSE <<>>)
          /\ rec.closed => rec.current = <<>>
          /\ \A f \in rec.seen : Accounted(f)

(* With redaction on, what is typed in answer to a password prompt is      *)
(* recorded in clear neither as input nor as a command, even if the prompt *)
(* came in two frames and the answer in several.  This is promised only    *)
(* when nothing was typed between the two, on this channel or on another,  *)
(* and nothing came between the halves: the recorder hides the next line   *)
(* of ANY channel (session.go:505-556, command.go:236-246).                *)
SecretHidden == cfg.redact => answers \cap rec.clear = {}

Over ==
    /\ pc = "done"
    /\ ~targetUp /\ ~online /\ audit # "started"
    /\ \A c \in Channels : chan[c].state # "open"

(* What the goroutines do by themselves. *)
OwnStep ==
    \/ HandlerStep
    \/ Watcher
    \/ \E c \in Channels :
          ProxyStep(c) \/ (~(clientUp /\ targetUp) /\ CloseChannel(c))

(* A session whose client has gone, that was disconnected, or whose server *)
(* shuts down never gets stuck: either some goroutine has a step to take,  *)
(* or the session is over, with both connections, its audit session, its   *)
(* entry among the online sessions and the proxy of each of its channels   *)
(* (server.go:170-189, session.go:62-82).  Every goroutine has a bounded   *)
(* number of steps left, so the session ends.                              *)
SessionEnds ==
    (~clientUp \/ ctxDone) /\ ~Over => ENABLED OwnStep

(* "审计写不进去就拒绝执行" (CONTRIBUTING.md:148) taken by the letter: when   *)
(* the session is over, what took effect on the target is in the command   *)
(* log.  It does not hold: the last command is lost when its row or line   *)
(* cannot be written, input may follow the recorder's end, and a line that *)
(* was dropped may have been a command.                                    *)
EveryEffectTraced ==
    Recording /\ pc = "done" => \A f \in reached : f.kind = "enter" \/ f.id \in rec.kept

(* What is typed at a prompt is hidden, without conditions.  It does not   *)
(* hold: input typed ahead, or on another channel, is hidden in its place. *)
EveryAnswerHidden ==
    cfg.redact => \A f \in reached : f.secret => f.id \notin rec.clear

(* A failed recorder lets no more input through, only the last command can  *)
(* be without a trace, and every session that should end does.              *)
SSHFailsClosed == FailClosed /\ SessionEnds

(* What the recorder took is written once and in order, dropped only for a  *)
(* prompt, or still to come; with redaction on, the answer that follows its *)
(* prompt directly is not in clear.                                         *)
SSHRecordKept == CommandsKept /\ SecretHidden
=============================================================================
