------------------------------ MODULE MCConsole -----------------------------
(*****************************************************************************)
(* How an administrator gets into the console and what a browser session may *)
(* do there: the login with its captcha and lockout, the sessions, tickets   *)
(* and web terminals that follow it, and the database instances and accounts *)
(* that are managed from it.                                                 *)
(*****************************************************************************)
EXTENDS AdminLogin, TLC

CONSTANTS
    Sessions, Tickets, SessionTTL, TicketTTL,
    Instances, Accounts, Managers, Operations, Passwords, Inputs, ProbeSlots,
    MaxStarted, LimiterRequests

VARIABLES
    part,   \* which of the components the behaviour is of
    webNow, webUsable, revoked, ticket, webReq, webLog, audit, online, cut,
    webLeft,
    inst, acct, resource, grant, dbReq, op, started, probed, defaulted, straddled

(* The login with the captcha switched off, for the limiter.                 *)
Limiter == INSTANCE AdminLogin WITH MaxRequests <- LimiterRequests, Captchas <- {}
Web == INSTANCE WebSession WITH now <- webNow, usable <- webUsable, req <- webReq, log
    <- webLog, left <- webLeft
Inventory == INSTANCE DatabaseInventory WITH Requests <- Managers, req <- dbReq

webVars == <<webNow, webUsable, revoked, ticket, webReq, webLog, audit, online, cut,
             webLeft>>
inventoryVars == <<inst, acct, resource, grant, dbReq, op, started, probed, defaulted,
                   straddled>>
all == <<part, vars, webVars, inventoryVars>>

ASSUME ConsoleBounds == LoginAssumption /\ Web!WebSessionAssumption

(* The fields of a request have the values its handler accepts, and "none"   *)
(* is not the name of an operation.                                          *)
ASSUME InventoryAssumption == Inputs \subseteq Inventory!InputType /\ "none" \notin Operations

(* In one behaviour a database call fails, or the process restarts, or the   *)
(* account is closed.                                                        *)
OneDisturbance ==
    LET spent(l) == MaxFaults - l.faults + MaxRestarts - l.restarts + MaxChanges - l.changes
    IN  spent(left) <= 1 /\ spent(webLeft) <= 1

(* TLS settings in every combination that matters, and a change of status. *)
MCInputs ==
    {x \in [proto : {"mysql", "postgres"}, port : {0, 3306, 5432},
            mode : {"unset", "disable", "verify"}, ca : {"keep", "c1"},
            status : {"unset", "active", "disabled"}] :
        /\ x.mode = "disable" => x.ca = "keep" /\ x.proto = "mysql"
        /\ x.proto = "postgres" => x.port # 3306
        /\ x.mode # "disable" => x.status = "unset"
        /\ x.ca = "c1" => x.port = 3306
        /\ x.mode # "verify" => x.port # 0
        /\ x.mode = "unset" => x.proto = "mysql" /\ x.ca = "keep"
        /\ x.status # "unset" => x.port = 3306}

Symmetric == Permutations(Captchas)

(* A component that is not looked at stays in one of its initial states. *)
MCInit ==
    /\ part \in {"login", "limiter", "web", "inventory"}
    /\ IF part = "limiter" THEN Limiter!Init ELSE Init
    /\ Web!Init /\ Inventory!Init
    /\ part # "inventory" => resource = {}

LoginNext == part = "login" /\ Next /\ UNCHANGED <<part, webVars, inventoryVars>>
LimiterNext == part = "limiter" /\ Limiter!Next /\ UNCHANGED <<part, webVars, inventoryVars>>
WebNext == part = "web" /\ Web!Next /\ UNCHANGED <<part, vars, inventoryVars>>
InventoryNext == part = "inventory" /\ Inventory!Next /\ UNCHANGED <<part, vars, webVars>>

MCSpec == MCInit /\ [][LoginNext \/ LimiterNext \/ WebNext \/ InventoryNext]_all

-----------------------------------------------------------------------------
(* A ticket opens one terminal, a request not yet looked up when its session *)
(* is logged out has no effect, and the effects and terminals of a browser   *)
(* session are in the audit.                                                 *)
WebSessionHonoured == part = "web" => Web!WebSessionHonoured

(* Instances that use TLS carry settings a trial accepted, a retained        *)
(* provisioning operation keeps its administrator, and the resources table   *)
(* agrees with instances and accounts.                                       *)
InventoryConsistent == part = "inventory" => Inventory!InventoryConsistent

(* Of the failures within one lockout only so many are of requests that came *)
(* one after the other when the limiter lets the next one pass.              *)
LockoutHolds ==
    [][/\ part = "login" => LockoutRespected
       /\ part = "limiter" => Limiter!LockoutRespected]_all
=============================================================================
