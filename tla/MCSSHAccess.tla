----------------------------- MODULE MCSSHAccess ----------------------------
(*****************************************************************************)
(* What stands between a user and an SSH host: the pinned host keys, the     *)
(* credentials that open a connection, and the gateway that proxies and      *)
(* records it.                                                               *)
(*****************************************************************************)
EXTENDS HostInventory, TLC

CONSTANTS
    UserAccounts, AIAccounts, Passwords, Procs, NoOne, Expiries, MaxTime,
    MaxSeq, MaxSecret, MaxAttempts,
    Channels, Fronts, Configs, Grants, MaxFrames, MaxFailures

(* The tables of accounts and passwords are apart, "no request" is no request *)
(* and times, numbers and secrets count from zero.                           *)
ASSUME CredentialsAssumption ==
    /\ UserAccounts \cap AIAccounts = {} /\ UserAccounts \cap Passwords = {}
    /\ NoOne \notin Procs \cup UserAccounts \cup AIAccounts
    /\ MaxTime \in Nat /\ MaxSeq \in Nat /\ Expiries \subseteq Nat

(* The options of config.Recording are switches.                             *)
ASSUME GatewayAssumption ==
    \A f \in Fronts :
        Configs[f] \subseteq [enabled : BOOLEAN, input : BOOLEAN, commands : BOOLEAN, redact : BOOLEAN]

VARIABLES
    part,   \* which of the components the behaviour is of
    now, user, target, allowed, tempAcct, sess, grant, pw, tok, seq, secret,
    userLock, credReq, credStarted, exchanged, overtaken, moved, ended, issued,
    front, cfg, pc, access, clientUp, targetUp, ctxDone, audit, online, rec,
    chan, reached, answers, frames, failures

Cred == INSTANCE Credentials WITH acct <- tempAcct, req <- credReq, started <-
    credStarted, MaxStarted <- 2
SSH == INSTANCE SSHGateway

credentialVars == <<now, user, target, allowed, tempAcct, sess, grant, pw, tok, seq,
                    secret, userLock, credReq, credStarted, exchanged, overtaken,
                    moved, ended, issued>>
sshVars == <<front, cfg, pc, access, clientUp, targetUp, ctxDone, audit, online, rec,
             chan, reached, answers, frames, failures>>
all == <<part, vars, credentialVars, sshVars>>

(* Everything is recorded and secrets are hidden; a web terminal, which has  *)
(* one channel, is also tried with less.                                     *)
Full == [enabled |-> TRUE, input |-> TRUE, commands |-> TRUE, redact |-> TRUE]
MCConfigs ==
    [ssh |-> {Full},
     web |-> {Full, [Full EXCEPT !.input = FALSE], [Full EXCEPT !.redact = FALSE],
              [Full EXCEPT !.commands = FALSE], [Full EXCEPT !.enabled = FALSE]}]
MCGrants == {{}, {"ssh", "sftp"}}

(* One channel of a web terminal, or two, with three frames between them.    *)
MCFrames == [ssh |-> 3, web |-> 3]

Symmetric ==
    Permutations(Keys) \cup Permutations(Endpoints) \cup Permutations(Requests)

(* A component that is not looked at stays in one of its initial states. *)
MCInit ==
    /\ part \in {"hosts", "credentials", "gateway"}
    /\ Init /\ Cred!Init /\ SSH!Init
    /\ part # "hosts" => collected = {} /\ \A e, f \in Endpoints : server[e] = server[f]
    /\ part # "gateway" => front = "web" /\ cfg = Full

HostsNext == part = "hosts" /\ Next /\ UNCHANGED <<part, credentialVars, sshVars>>
CredNext == part = "credentials" /\ Cred!Next /\ UNCHANGED <<part, vars, sshVars>>
SSHNext == part = "gateway" /\ SSH!Next /\ UNCHANGED <<part, vars, credentialVars>>

(* Nothing fails, and the client leaves when its input has been passed on.   *)
Calm ==
    /\ failures = 0 /\ ~ctxDone
    /\ pc = "serve" => targetUp
    /\ ~clientUp => \A c \in Channels : SSH!Drained(c)
    /\ \A c \in Channels : chan[c].mode # "sftp"

(* A third frame on two channels, for a prompt, other input and the answer,  *)
(* is explored where nothing else happens; with two frames everything is.    *)
Within == part = "gateway" /\ front = "ssh" /\ frames > 2 => Calm

MCSpec == MCInit /\ [][HostsNext \/ CredNext \/ SSHNext]_all

-----------------------------------------------------------------------------
(* The rows of a temporary access are disabled together and, for a user's    *)
(* account, extended together; what was issued with an AI account's token    *)
(* runs out within its time to live once the account is disabled.            *)
AccessEndsTogether == part = "credentials" => Cred!AccessEndsTogether

(* No two requests win the same race: a refresh token buys one pair, and a   *)
(* user has one active permanent session.                                    *)
OneLiveSecret == part = "credentials" => Cred!OneLiveSecret

(* On a connection that records commands every frame of input is handed to   *)
(* the recorder before the target gets it, nothing follows once a write      *)
(* failed, but for what a proxy still held when the handler closed the       *)
(* recorder and for a command or file operation recorded after the fact, and *)
(* the previous command is in the log before the next one is passed on; and  *)
(* every session that should end does.                                       *)
SSHFailsClosed == part = "gateway" => SSH!SSHFailsClosed

(* What the recorder took is written once and in order, is still to come, or *)
(* was dropped, one line for each prompt at most; with redaction on, an      *)
(* answer typed directly after its prompt is not in clear.                   *)
SSHRecordKept == part = "gateway" => SSH!SSHRecordKept
=============================================================================
