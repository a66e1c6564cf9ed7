----------------------------- MODULE MCGateways -----------------------------
(*****************************************************************************)
(* The ways in for databases and desktops: listeners, handshakes, cancel     *)
(* requests and shutdown of the database gateway, where two PostgreSQL       *)
(* instances may hand out the same cancellation key; and a web RDP session   *)
(* from its ticket to the end of its relay.                                  *)
(*****************************************************************************)
EXTENDS Gateway, TLC, Sequences

CONSTANTS
    Id, NoId, Accounts, Toggled, MaxTracked, MaxEvents, MaxSent, MaxChanges,
    ResultCap,
    pg1, pg2, my, rd

VARIABLES
    part,   \* which of the components the behaviour is of
    account, late, ticket, h, rdpConn, online, audit, pump, filter, results,
    mine, received, rights, shown, ledger, sent, changes

RDP == INSTANCE WebRDP WITH conn <- rdpConn

rdpVars == <<account, late, ticket, h, rdpConn, online, audit, pump, filter, results,
             mine, received, rights, shown, ledger, sent, changes>>
all == <<part, vars, rdpVars>>

MCProtocol == (pg1 :> "postgresql") @@ (pg2 :> "postgresql") @@ (my :> "mysql") @@ (rd :> "redis")
MCTLS == (pg1 :> "verify") @@ (pg2 :> "disable") @@ (my :> "verify") @@ (rd :> "verify")
MCEnabled == {{"mysql", "postgresql"}, {"redis"}}

(* Three connections at a time (two sessions and a cancel request, or one    *)
(* more than there are slots) on the PostgreSQL listener, with client TLS    *)
(* required and no shutdown; two everywhere else.                            *)
Busy == {c \in Conns : conn[c] # Idle}
Bounded ==
    Cardinality(Busy) <=
        IF tlsRequired /\ ctx = "running" /\ \A c \in Busy : conn[c].at = "postgresql"
        THEN 3 ELSE 2

AllRights == {"connect", "clipboard_read", "clipboard_write", "drive_mapping",
              "file_upload", "file_download"}
MCAccounts ==
    [cfg : {AllRights \ {"connect"}}, disabled : {FALSE}, expires : {TRUE},
     grants : {AllRights, {"connect", "clipboard_write", "file_download"}}]
MCToggled == {"connect", "drive_mapping"}

(* The two directions have filters of their own: one carries channels at a time. *)
OneWay == \E d \in {"in", "out"} : filter[d] = RDP!NewFilter /\ \A x \in Id : mine[d][x] = "none"

(* Traffic is followed to the last instruction, with whatever rights, in     *)
(* sessions nothing else happens to; how a session ends, and what is changed *)
(* or left while it does, in those of at most two instructions.              *)
Calm ==
    /\ h.pc = "relay" /\ h.ctx = "live" /\ ~late /\ results = <<>>
    /\ \A c \in {"browser", "guacd"} : rdpConn[c] = "open"

Within == IF part = "gateway" THEN Bounded ELSE OneWay /\ (sent > 2 => Calm)

Symmetric == Permutations(Conns) \cup Permutations(Id)

(* A component that is not looked at stays in one of its initial states. *)
MCInit ==
    /\ part \in {"gateway", "rdp"}
    /\ Init /\ RDP!Init
    /\ part # "gateway" => tlsRequired /\ mode = "unified"
    /\ part # "rdp" => account.grants = AllRights

GatewayNext == part = "gateway" /\ Next /\ UNCHANGED <<part, rdpVars>>
RDPNext == part = "rdp" /\ RDP!Next /\ UNCHANGED <<part, vars>>

MCSpec == MCInit /\ [][GatewayNext \/ RDPNext]_all

-----------------------------------------------------------------------------
(* Only instructions the policy of the ticket permits pass the relay in      *)
(* either direction, and the transfers that ended are counted in the audit.  *)
TrafficPermitted == part = "rdp" => RDP!TrafficPermitted

(* A web RDP session always has a way to its end, and the outcome filed for  *)
(* it is the one it had.                                                     *)
SessionEndsHonestly == part = "rdp" => RDP!SessionEndsHonestly
=============================================================================
