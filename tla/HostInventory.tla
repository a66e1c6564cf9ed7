--------------------------- MODULE HostInventory ---------------------------
(***************************************************************************)
(* Hosts, their accounts and the pinned SSH host key                       *)
(* (internal/service/host_management*.go, internal/store/dbstore_hosts.go, *)
(* dbstore_targets.go, dbstore_ssh_host_identity.go, internal/sshhost).    *)
(*                                                                         *)
(* The service reads the host, may probe the SSH server for its key, and   *)
(* then writes: three moments with nothing that holds them together except *)
(* the comparison RefreshHostIdentity and disableHostForKeyChange make     *)
(* with the row they were built from.  Connections resolve an account,     *)
(* dial, and report a changed key through a callback that closes over the  *)
(* row as it was when the connection was resolved.                         *)
(*                                                                         *)
(* A row keeps the endpoint (address and port), the protocol, the status,  *)
(* the pinned key (fingerprint and known_hosts line, which the code writes *)
(* together), updated_at as a revision number, and live for                *)
(* active_marker = 1.  Requests that the authorizer refuses change nothing *)
(* and are left out.                                                       *)
(***************************************************************************)
EXTENDS Naturals, FiniteSets

CONSTANTS
    Hosts,        \* host identifiers
    Accounts,     \* host-account identifiers
    Endpoints,    \* address:port pairs
    Keys,         \* SSH host keys
    NoKey,        \* no pinned key, or a server that does not answer
    Requests,     \* management requests that can be in progress at once
    Dialers,      \* connections that can be in progress at once
    MaxRev,       \* bound on the number of writes to host rows
    MaxStarted,   \* bound on the number of management requests
    MaxRekeys     \* bound on the number of times a server changes its key

ASSUME HostInventoryAssumption == NoKey \notin Keys /\ MaxRev \in Nat
                                   /\ MaxStarted \in Nat /\ MaxRekeys \in Nat

VARIABLES
    server,       \* server[e]: the key the SSH server at e presents
    host,         \* host[h]: the row of the table hosts
    acct,         \* acct[a]: the row of the table host_accounts
    req,          \* req[r]: the management request r is in the middle of
    dial,         \* dial[d]: the connection d is setting up, or its outcome
    rev,          \* the last updated_at handed out
    started,      \* how many management requests were started
    rekeys,       \* how often a server changed its key
    collected     \* ghost: the pairs <<endpoint, key>> a probe ever returned

vars == <<server, host, acct, req, dial, rev, started, rekeys, collected>>

Row == [ep : Endpoints, proto : {"ssh", "rdp"}, status : {"active", "disabled"},
        pin : Keys \cup {NoKey}, rev : 0 .. MaxRev, live : BOOLEAN]
NoHost == [ep |-> "none", proto |-> "none", status |-> "none", pin |-> NoKey,
           rev |-> 0, live |-> FALSE]
NoAccount == [host |-> "none", pin |-> NoKey, status |-> "none", live |-> FALSE]

IdleReq == [pc |-> "idle"]
IdleDial == [pc |-> "idle"]

AccountRow == [host : Hosts, pin : Keys \cup {NoKey}, status : {"active", "disabled"}, live : BOOLEAN]

(* What a management request carries, by the statement it is on its way to. *)
CreateReq == [pc : {"create"}, host : Hosts, next : Row]
UpdateReq == [pc : {"probe", "update"}, host : Hosts, read : Row, next : Row]
ConfirmReq == [pc : {"confirming", "refresh"}, host : Hosts, read : Row, key : Keys]
DeleteReq == [pc : {"deleteHost"}, host : Hosts, accounts : SUBSET Accounts]
TargetReq == [pc : {"updateTarget"}, acct : Accounts, next : AccountRow]

(* What a connection was resolved to: the row read, the key to expect, the  *)
(* key presented.                                                           *)
DialState == [pc : {"resolved", "connected", "changed"}, host : Hosts, read : Row,
              pin : Keys \cup {NoKey}, legacy : BOOLEAN, key : Keys \cup {NoKey}]

Exists(h) == host[h] # NoHost

(* activeHostAccountScope: the account and its host are both active.       *)
ActiveAccount(a) ==
    /\ acct[a].live
    /\ host[acct[a].host].live

-----------------------------------------------------------------------------
(***************************************************************************)
(* The probe.  Collector.Collect returns the key the server presents now;  *)
(* a server that does not answer, or no timely answer, is a failure.       *)
(***************************************************************************)
Collect(e) == {server[e], NoKey}

(* Ghost: remember what a probe of e returned. *)
Learn(e, k) == collected' = IF k = NoKey THEN collected ELSE collected \cup {<<e, k>>}

(* hostEndpointChanged *)
EndpointChanged(row, next) == row.proto # next.proto \/ row.ep # next.ep

(* HostManagementService.CreateHost up to the INSERT: an SSH host is       *)
(* probed, and becomes disabled and without a key when the probe fails.    *)
BeginCreateHost(r, h, next) ==
    /\ ~Exists(h)
    /\ \E k \in IF next.proto = "ssh" THEN Collect(next.ep) ELSE {NoKey} :
          /\ req' = [req EXCEPT ![r] =
                [pc |-> "create", host |-> h,
                 next |-> [next EXCEPT !.pin = k,
                                       !.status = IF next.proto = "ssh" /\ k = NoKey
                                                  THEN "disabled" ELSE next.status]]]
          /\ Learn(next.ep, k)
    /\ UNCHANGED <<server, host, acct, dial, rev, rekeys>>

(* Every write of a host row hands out a new updated_at. *)
WriteHost(h, row) ==
    /\ rev < MaxRev
    /\ rev' = rev + 1
    /\ host' = [host EXCEPT ![h] = [row EXCEPT !.rev = rev + 1]]

EndRequest(r) == req' = [req EXCEPT ![r] = IdleReq]

(* createHost: one transaction.  The identifier may have been taken in the *)
(* meantime, and the creator may be gone: then nothing is written.         *)
CreateManagedHost(r) ==
    /\ req[r].pc = "create"
    /\ \/ /\ ~Exists(req[r].host)
          /\ WriteHost(req[r].host, req[r].next)
       \/ UNCHANGED <<host, rev>>
    /\ EndRequest(r)
    /\ UNCHANGED <<server, acct, dial, started, rekeys, collected>>

(* UpdateHost probes when an SSH host is enabled again or moves while      *)
(* enabled.                                                                *)
NeedsProbe(cur, next) ==
    /\ next.proto = "ssh"
    /\ next.status = "active"
    /\ cur.status = "disabled" \/ EndpointChanged(cur, next)

MutantKeptIdentity(cur, next) == IF next.proto # "ssh" THEN NoKey ELSE cur.pin

(* The key the row carries without a probe: none for RDP and for a host    *)
(* that moves while disabled, else the key that was read.                  *)
KeptIdentity(cur, next) ==
    IF next.proto # "ssh" \/ EndpointChanged(cur, next) THEN NoKey ELSE cur.pin

(***************************************************************************)
(* HostManagementService.UpdateHost: load the row, then the fields of the  *)
(* request over it.  An empty status in the request means the current one. *)
(***************************************************************************)
BeginUpdateHost(r, h, input) ==
    /\ host[h].live
    /\ LET cur == host[h]
           next == [input EXCEPT !.status = IF @ = "unset" THEN cur.status ELSE @]
       IN  req' = [req EXCEPT ![r] =
               [pc |-> IF NeedsProbe(cur, next) THEN "probe" ELSE "update",
                host |-> h, read |-> cur, next |-> [next EXCEPT !.pin = KeptIdentity(cur, next)]]]
    /\ UNCHANGED <<server, host, acct, dial, rev, rekeys, collected>>

(* The probe of an update: the request ends where it fails. *)
ProbeForUpdate(r) ==
    /\ req[r].pc = "probe"
    /\ \E k \in Collect(req[r].next.ep) :
          /\ req' = [req EXCEPT ![r] = IF k = NoKey THEN IdleReq
                                       ELSE [@ EXCEPT !.pc = "update", !.next.pin = k]]
          /\ Learn(req[r].next.ep, k)
    /\ UNCHANGED <<server, host, acct, dial, rev, started, rekeys>>

(* store.UpdateHost: the row is locked and every field of the request is   *)
(* written over it, whatever it has become since it was read; a change of  *)
(* protocol is refused while the host has accounts.                        *)
UpdateHost(r) ==
    /\ req[r].pc = "update"
    /\ LET h == req[r].host
           refused == \/ ~host[h].live
                      \/ /\ host[h].proto # req[r].next.proto
                         /\ \E a \in Accounts : acct[a].live /\ acct[a].host = h
       IN  IF refused THEN UNCHANGED <<host, rev>> ELSE WriteHost(h, req[r].next)
    /\ EndRequest(r)
    /\ UNCHANGED <<server, acct, dial, started, rekeys, collected>>

(***************************************************************************)
(* ConfirmHostIdentity: an operator has seen a key and accepts it.  Load,  *)
(* probe again, compare with what was seen, refresh.                       *)
(***************************************************************************)
ConfirmHostIdentity(r, h, expected) ==
    /\ host[h].live
    /\ host[h].proto = "ssh"
    /\ req' = [req EXCEPT ![r] = [pc |-> "confirming", host |-> h, read |-> host[h],
                                  key |-> expected]]
    /\ UNCHANGED <<server, host, acct, dial, rev, rekeys, collected>>

CollectForConfirm(r) ==
    /\ req[r].pc = "confirming"
    /\ \E k \in Collect(req[r].read.ep) :
          /\ req' = [req EXCEPT ![r] = IF k = req[r].key THEN [@ EXCEPT !.pc = "refresh"]
                                       ELSE IdleReq]
          /\ Learn(req[r].read.ep, k)
    /\ UNCHANGED <<server, host, acct, dial, rev, started, rekeys>>

(* RefreshHostIdentity: one UPDATE that applies only to the row that was   *)
(* read.  Otherwise the request succeeds only if another one has already   *)
(* written the same identity, and writes nothing.                          *)
RefreshHostIdentity(r) ==
    /\ req[r].pc = "refresh"
    /\ LET h == req[r].host
       IN  IF host[h] = req[r].read
           THEN WriteHost(h, [host[h] EXCEPT !.pin = req[r].key, !.status = "active"])
           ELSE UNCHANGED <<host, rev>>
    /\ EndRequest(r)
    /\ UNCHANGED <<server, acct, dial, started, rekeys, collected>>

(* DeleteHost: the transaction reads the host, marks the accounts its       *)
(* UPDATE matches, and then the host.  Nothing holds the host row until it *)
(* is marked, so an account can be added in between.                       *)
BeginDeleteHost(r, h) ==
    /\ host[h].live
    /\ req' = [req EXCEPT ![r] = [pc |-> "deleteHost", host |-> h,
                  accounts |-> {a \in Accounts : acct[a].live /\ acct[a].host = h}]]
    /\ UNCHANGED <<server, host, acct, dial, rev, rekeys, collected>>

DeleteHost(r) ==
    /\ req[r].pc = "deleteHost"
    /\ LET h == req[r].host
       IN  IF host[h].live THEN WriteHost(h, [host[h] EXCEPT !.live = FALSE, !.status = "disabled"])
           ELSE UNCHANGED <<host, rev>>
    /\ acct' = [a \in Accounts |-> IF a \in req[r].accounts /\ acct[a].live
                                   THEN [acct[a] EXCEPT !.live = FALSE, !.status = "disabled"]
                                   ELSE acct[a]]
    /\ EndRequest(r)
    /\ UNCHANGED <<server, dial, started, rekeys, collected>>

-----------------------------------------------------------------------------
(* lockTargetHost: the active host, or a host made up from the address     *)
(* when the identifier was never used; a tombstone refuses.                *)
LockTargetHost(h, e) ==
    IF host[h].live THEN {host[h]}
    ELSE IF Exists(h) THEN {}
    ELSE {[ep |-> e, proto |-> "ssh", status |-> "active", pin |-> NoKey, rev |-> 0, live |-> TRUE]}

(* ensureHostAccountUsernameAvailable, with one user name per host.        *)
UsernameAvailable(h, a) == ~ \E b \in Accounts \ {a} : acct[b].live /\ acct[b].host = h

(* AddTarget: one transaction.  The account may bring a fingerprint.       *)
AddTarget(a, h, e, pin) ==
    /\ acct[a] = NoAccount
    /\ UsernameAvailable(h, a)
    /\ \E row \in LockTargetHost(h, e) :
          IF Exists(h) /\ host[h].live THEN UNCHANGED <<host, rev>> ELSE WriteHost(h, row)
    /\ acct' = [acct EXCEPT ![a] = [host |-> h, pin |-> pin, status |-> "active", live |-> TRUE]]
    /\ UNCHANGED <<server, req, dial, rekeys, collected>>

(* CreateTarget: without an existing host only a super administrator gets  *)
(* past the checks of the service.                                         *)
CreateTarget(a, h, e, pin, super) == (host[h].live \/ super) /\ AddTarget(a, h, e, pin)

(* UpdateTarget: the account is read without a lock, and its whole row is  *)
(* saved as it was read, but for the fields of the request.                *)
BeginUpdateTarget(r, a, pin, status) ==
    /\ ActiveAccount(a)
    /\ UsernameAvailable(acct[a].host, a)
    /\ req' = [req EXCEPT ![r] = [pc |-> "updateTarget", acct |-> a,
                                  next |-> [acct[a] EXCEPT !.pin = pin, !.status = status]]]
    /\ UNCHANGED <<server, host, acct, dial, rev, rekeys, collected>>

(* The save, which also restores an account deleted since; then the row is *)
(* read again with its host, and the transaction undone without one.       *)
UpdateTarget(r) ==
    /\ req[r].pc = "updateTarget"
    /\ acct' = IF host[req[r].next.host].live THEN [acct EXCEPT ![req[r].acct] = req[r].next]
               ELSE acct
    /\ EndRequest(r)
    /\ UNCHANGED <<server, host, dial, rev, started, rekeys, collected>>

DeleteTarget(a) ==
    /\ acct[a].live
    /\ acct' = [acct EXCEPT ![a] = [@ EXCEPT !.live = FALSE, !.status = "disabled"]]
    /\ UNCHANGED <<server, host, req, dial, rev, rekeys, collected>>

-----------------------------------------------------------------------------
(* effectiveHostIdentity: the host's key, or the account's own fingerprint *)
(* while the host has none.                                                *)
EffectiveHostIdentity(a) ==
    IF host[acct[a].host].pin # NoKey THEN host[acct[a].host].pin ELSE acct[a].pin

(* targetConfig: the row of the host as the connection will use it.        *)
TargetConfig(a) ==
    [pc |-> "resolved", host |-> acct[a].host, read |-> host[acct[a].host],
     pin |-> EffectiveHostIdentity(a), legacy |-> host[acct[a].host].pin = NoKey,
     key |-> NoKey]

Resolve(d, config) ==
    /\ dial[d] = IdleDial
    /\ dial' = [dial EXCEPT ![d] = config]
    /\ UNCHANGED <<server, host, acct, req, rev, started, rekeys, collected>>

(* DefaultTarget, for an SSH client: account active, host not disabled,    *)
(* protocol SSH.                                                           *)
DefaultTarget(d, a) ==
    /\ ActiveAccount(a)
    /\ acct[a].status = "active"
    /\ host[acct[a].host].status # "disabled"
    /\ host[acct[a].host].proto = "ssh"
    /\ Resolve(d, TargetConfig(a))

(* ResolveWebTerminalTarget: the same account for the browser, refused     *)
(* when the account or its host is disabled.                               *)
ResolveWebTerminalTarget(d, a) ==
    /\ ActiveAccount(a)
    /\ ~(acct[a].status = "disabled" \/ host[acct[a].host].status = "disabled")
    /\ host[acct[a].host].proto = "ssh"
    /\ Resolve(d, TargetConfig(a))

(* ResolveConnectionTest: a stored account, or credentials typed in for a  *)
(* stored host, with the endpoint and the key of the host.  A host without *)
(* a key is only observed.  A test that names neither touches no row and   *)
(* is left out: it is held to the fingerprint typed into it.               *)
ResolveConnectionTest(d, a, h) ==
    /\ host[h].live /\ host[h].status # "disabled"
    /\ host[h].proto = "ssh" /\ host[h].pin # NoKey
    /\ \/ /\ ActiveAccount(a) /\ acct[a].host = h /\ acct[a].status # "disabled"
          /\ Resolve(d, TargetConfig(a))
       \/ Resolve(d, [pc |-> "resolved", host |-> h, read |-> host[h], pin |-> host[h].pin,
                      legacy |-> FALSE, key |-> NoKey])

(* observeUnavailableHostIdentity: probe, report, store nothing. *)
ObserveUnavailableHostIdentity(a) ==
    /\ ActiveAccount(a)
    /\ host[acct[a].host].pin = NoKey
    /\ \E k \in Collect(host[acct[a].host].ep) : Learn(host[acct[a].host].ep, k)
    /\ UNCHANGED <<server, host, acct, req, dial, rev, rekeys>>

(* VerificationCallback, first part: no key at hand, no connection; the    *)
(* key the server presents must be the one the verifier was built with.    *)
Handshake(d) ==
    /\ dial[d].pc = "resolved"
    /\ LET k == server[dial[d].read.ep]
       IN  dial' = [dial EXCEPT ![d] =
                IF dial[d].pin = NoKey \/ k = NoKey THEN IdleDial
                ELSE IF k = dial[d].pin THEN [@ EXCEPT !.pc = "connected", !.key = k]
                ELSE [@ EXCEPT !.pc = "changed", !.key = k]]
    /\ UNCHANGED <<server, host, acct, req, rev, started, rekeys, collected>>

MutantDisableHostForKeyChange(d) ==
    /\ dial[d].pc = "changed"
    /\ LET h == dial[d].host
       IN  IF host[h].live /\ host[h].status # "disabled"
           THEN WriteHost(h, [host[h] EXCEPT !.status = "disabled"])
           ELSE UNCHANGED <<host, rev>>
    /\ dial' = [dial EXCEPT ![d] = IdleDial]
    /\ UNCHANGED <<server, acct, req, started, rekeys, collected>>

(* The change handler, disableHostForKeyChange: the UPDATE applies only to *)
(* the complete row the verifier was built from.                           *)
DisableHostForKeyChange(d) ==
    /\ dial[d].pc = "changed"
    /\ LET h == dial[d].host
       IN  IF host[h] = dial[d].read /\ host[h].status # "disabled"
           THEN WriteHost(h, [host[h] EXCEPT !.status = "disabled"])
           ELSE UNCHANGED <<host, rev>>
    /\ dial' = [dial EXCEPT ![d] = IdleDial]
    /\ UNCHANGED <<server, acct, req, started, rekeys, collected>>

Hangup(d) ==
    /\ dial[d].pc = "connected"
    /\ dial' = [dial EXCEPT ![d] = IdleDial]
    /\ UNCHANGED <<server, host, acct, req, rev, started, rekeys, collected>>

(* The SSH servers are outside: a key can change, and a server can be      *)
(* unreachable.                                                            *)
Rekey(e, k) ==
    /\ rekeys < MaxRekeys
    /\ rekeys' = rekeys + 1
    /\ server' = [server EXCEPT ![e] = k]
    /\ UNCHANGED <<host, acct, req, dial, rev, started, collected>>

(* A statement fails or the client goes away. *)
Abandon(r) ==
    /\ req[r] # IdleReq
    /\ EndRequest(r)
    /\ UNCHANGED <<server, host, acct, dial, rev, started, rekeys, collected>>

-----------------------------------------------------------------------------
Count == started < MaxStarted /\ started' = started + 1

HostInput(statuses) ==
    [ep : Endpoints, proto : {"ssh", "rdp"}, status : statuses, pin : {NoKey}, rev : {0}, live : {TRUE}]

(* The methods of /api/hosts, /api/hosts/{id} and its refresh-identity. *)
HandleHosts(r) ==
    \E h \in Hosts, next \in HostInput({"active", "disabled"}) : BeginCreateHost(r, h, next)

HandleHost(r) ==
    \E h \in Hosts :
        \/ \E next \in HostInput({"active", "disabled", "unset"}) : BeginUpdateHost(r, h, next)
        \/ BeginDeleteHost(r, h)

HandleRefreshHostIdentity(r) == \E h \in Hosts, k \in Keys : ConfirmHostIdentity(r, h, k)

HandleUpdateTarget(r) ==
    \E a \in Accounts, k \in Keys \cup {NoKey}, s \in {"active", "disabled"} :
        BeginUpdateTarget(r, a, k, s)

BeginRequest(r) ==
    /\ req[r] = IdleReq
    /\ Count
    /\ \/ HandleHosts(r) \/ HandleHost(r) \/ HandleRefreshHostIdentity(r)
       \/ HandleUpdateTarget(r)

(* The other methods of /api/targets and /api/targets/{id}: one step each. *)
HandleTargets ==
    \E a \in Accounts, h \in Hosts, e \in Endpoints, k \in Keys \cup {NoKey}, super \in BOOLEAN :
        CreateTarget(a, h, e, k, super)

HandleTarget == \E a \in Accounts : DeleteTarget(a)

TargetRequest ==
    /\ Count
    /\ \/ HandleTargets
       \/ HandleTarget
       \/ \E a \in Accounts : ObserveUnavailableHostIdentity(a)

HostStep(r) ==
    \/ BeginRequest(r) \/ CreateManagedHost(r) \/ ProbeForUpdate(r) \/ UpdateHost(r)
    \/ CollectForConfirm(r) \/ RefreshHostIdentity(r) \/ DeleteHost(r) \/ UpdateTarget(r)
    \/ Abandon(r)

(* Connections: SSH clients, the web terminal, /api/test-connection. *)
DialStep(d) ==
    \/ \E a \in Accounts :
          \/ DefaultTarget(d, a)
          \/ ResolveWebTerminalTarget(d, a)
          \/ \E h \in Hosts : ResolveConnectionTest(d, a, h)
    \/ Handshake(d) \/ DisableHostForKeyChange(d) \/ Hangup(d)

(* A host that was created with the key its server presents, with or       *)
(* without an account, or no host at all.                                  *)
Init ==
    /\ server \in [Endpoints -> Keys]
    /\ \E h \in Hosts, e \in Endpoints, a \in Accounts : \E hosts \in SUBSET {h}, accts \in SUBSET {a} :
          /\ hosts = {} => accts = {}
          /\ host = [x \in Hosts |-> IF x \in hosts
                        THEN [ep |-> e, proto |-> "ssh", status |-> "active", pin |-> server[e],
                              rev |-> 0, live |-> TRUE]
                        ELSE NoHost]
          /\ acct = [x \in Accounts |-> IF x \in accts
                        THEN [host |-> h, pin |-> NoKey, status |-> "active", live |-> TRUE]
                        ELSE NoAccount]
          /\ collected = IF hosts = {} THEN {} ELSE {<<e, server[e]>>}
    /\ req = [r \in Requests |-> IdleReq]
    /\ dial = [d \in Dialers |-> IdleDial]
    /\ rev = 0
    /\ started = 0
    /\ rekeys = 0

Next ==
    \/ \E r \in Requests : HostStep(r)
    \/ \E d \in Dialers : DialStep(d)
    \/ TargetRequest
    \/ \E e \in Endpoints, k \in Keys \cup {NoKey} : Rekey(e, k)

Spec == Init /\ [][Next]_vars

-----------------------------------------------------------------------------
(* Every variable holds a value of its type. *)
TypeOK ==
    /\ server \in [Endpoints -> Keys \cup {NoKey}]
    /\ host \in [Hosts -> Row \cup {NoHost}]
    /\ acct \in [Accounts -> AccountRow \cup {NoAccount}]
    /\ req \in [Requests -> {IdleReq} \cup CreateReq \cup UpdateReq \cup ConfirmReq \cup DeleteReq
                         \cup TargetReq]
    /\ dial \in [Dialers -> {IdleDial} \cup DialState]
    /\ rev \in 0 .. MaxRev
    /\ started \in 0 .. MaxStarted
    /\ rekeys \in 0 .. MaxRekeys
    /\ collected \subseteq Endpoints \X Keys

(* The key pinned on a host was presented by the server at the endpoint    *)
(* the row has now, however updates that move the host, confirmations and  *)
(* late writes interleave.                                                 *)
PinWasCollectedHere ==
    \A h \in Hosts : host[h].live /\ host[h].pin # NoKey => <<host[h].ep, host[h].pin>> \in collected

(* A connection is accepted only with a key that a probe of that very      *)
(* endpoint returned before, or that the account names itself while its    *)
(* host has none: there is no trust on first use at connect time.          *)
OnlyKnownKeyAccepted ==
    \A d \in Dialers : dial[d].pc = "connected" =>
        \/ <<dial[d].read.ep, dial[d].key>> \in collected
        \/ dial[d].legacy /\ dial[d].key = dial[d].pin

(* A deleted host identifier is never used again: an account added later   *)
(* does not bring the host back.                                           *)
HostTombstoneStays == [][\A h \in Hosts : Exists(h) /\ ~host[h].live => ~host'[h].live]_vars

(* A key-change report disables a host only while the key it complains     *)
(* about is not the one pinned for that endpoint: a report that comes late *)
(* cannot undo an operator's confirmation.                                 *)
KeyChangeHitsItsPin ==
    [][\A d \in Dialers :
          (dial[d].pc = "changed" /\ dial'[d].pc = "idle" /\ host' # host) =>
              host[dial[d].host].pin # dial[d].key /\ host[dial[d].host].ep = dial[d].read.ep]_vars

(* A disabled SSH host becomes active again only with a key that was       *)
(* probed for it, never with the one it was disabled for.                  *)
ReenableNeedsRefresh ==
    [][\A h \in Hosts : (host[h].live /\ host[h].proto = "ssh" /\ host[h].status = "disabled"
                         /\ host'[h].live /\ host'[h].proto = "ssh" /\ host'[h].status = "active") =>
          \E r \in Requests : /\ req[r].pc \in {"update", "refresh"}
                              /\ req[r].host = h
                              /\ req[r].read.status = "disabled" \/ req[r].pc = "refresh"]_vars

(* The chain of trust in a host key: a pin comes from a probe of that        *)
(* endpoint, and a connection is made only to a key that is pinned.          *)
HostKeyTrusted == PinWasCollectedHere /\ OnlyKnownKeyAccepted

(* Late changes do no harm: a deleted host stays deleted, and a report of a  *)
(* changed key disables the host only for the pin it is about.               *)
HostChangesInOrder == HostTombstoneStays /\ KeyChangeHitsItsPin
=============================================================================
