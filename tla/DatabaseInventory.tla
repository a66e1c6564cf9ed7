------------------------- MODULE DatabaseInventory -------------------------
(***************************************************************************)
(* Database instances and accounts as an administrator manages them        *)
(* (internal/service/database_management.go, database_tls_preflight.go,    *)
(* internal/store/dbstore_databases.go, dbstore_database_instance_         *)
(* mutations.go, database_provisioning_protection.go).                     *)
(*                                                                         *)
(* A change of an instance that uses TLS is tried out against the server   *)
(* before it is stored, outside any transaction; the store compares the    *)
(* row with the one the trial started from.  Provisioning operations hold  *)
(* references to an instance and to an administrator account, and the      *)
(* management path must leave both alone while they do.                    *)
(*                                                                         *)
(* An endpoint is reduced to its port, so that a port that is left out can *)
(* be told from one that is given; the names, the server name of the       *)
(* certificate and the user names are left out.                            *)
(***************************************************************************)
EXTENDS Naturals, FiniteSets

CONSTANTS
    Instances,    \* identifiers of database instances
    Accounts,     \* identifiers of database accounts
    Requests,     \* management requests that can be in progress at once
    Operations,   \* provisioning operations
    Passwords,    \* upstream passwords
    Inputs,       \* the fields of an instance request, a set of InputType
    ProbeSlots,   \* maxConcurrentDatabaseTLSPreflights
    MaxStarted    \* bound on the number of requests that are started

VARIABLES
    inst,         \* inst[i]: the row of database_instances
    acct,         \* acct[a]: the row of database_accounts
    resource,     \* the active rows of resources, as <<type, id>>
    grant,        \* the instances whose creator holds an active grant
    req,          \* req[r]: the request r is in the middle of
    op,           \* op[o]: the provisioning operation and what it refers to
    started,      \* how many requests were started
    probed,       \* ghost: the settings a trial of a create or an update has accepted
    defaulted,    \* ghost: the settings a create stored for an input without a port
    straddled     \* ghost: accounts inserted after their instance was deleted

vars == <<inst, acct, resource, grant, req, op, started, probed, defaulted, straddled>>
table == <<inst, acct, resource, grant, op, defaulted, straddled>>

NoCA == "none"
Protocols == {"mysql", "postgres"}
Ports == {3306, 5432}
Unset == 0

NoInstance == [proto |-> "none", port |-> Unset, tls |-> FALSE, ca |-> NoCA,
               status |-> "none", live |-> FALSE]
NoAccount == [inst |-> "none", pw |-> "none", status |-> "none", op |-> "none", live |-> FALSE]
IdleReq == [pc |-> "idle"]
NoOp == [pc |-> "none"]

Exists(i) == inst[i] # NoInstance
Settings(row) == [proto |-> row.proto, port |-> row.port, tls |-> row.tls, ca |-> row.ca]

(* defaultTLSPreflightPort: the port the trial uses when none is given.    *)
DefaultTLSPreflightPort(proto) == IF proto = "postgres" THEN 5432 ELSE 3306

(* The default of the column port, which a create stores for an unset one. *)
ColumnPort(port) == IF port = Unset THEN 3306 ELSE port

(* The payload of an instance request: every field as the request gives it. *)
InputType == [proto : Protocols, port : {Unset} \cup Ports, mode : {"unset", "disable", "verify"},
              ca : {"keep", "clear", "c1"}, status : {"unset", "active", "disabled"}]

InputCA(input, existing) ==
    IF input.ca = "clear" THEN NoCA ELSE IF input.ca = "keep" THEN existing ELSE input.ca

(* normalizeDatabaseInstanceInput; tls and status are already resolved.    *)
Normalize(input, tls, status, existing) ==
    [proto |-> input.proto, port |-> input.port, tls |-> tls,
     ca |-> IF tls THEN InputCA(input, existing) ELSE NoCA, status |-> status, live |-> TRUE]

-----------------------------------------------------------------------------
(* softDeleteWhere: the row stays, disabled and without its active marker. *)
SoftDeleted(row) == [row EXCEPT !.live = FALSE, !.status = "disabled"]

(* syncResourceTx and deleteResourceTx; the second drops the grants too.   *)
SyncResource(rows) == resource' = resource \cup rows
DeleteResource(rows) ==
    /\ resource' = resource \ rows
    /\ grant' = {i \in grant : <<"instance", i>> \notin rows}

(* resolveDatabaseTLSPreflightTarget: the settings the trial connects to.  *)
ResolveTarget(input, existing) ==
    [proto |-> input.proto,
     port |-> IF input.port = Unset THEN DefaultTLSPreflightPort(input.proto) ELSE input.port,
     tls |-> TRUE, ca |-> InputCA(input, existing)]

EndRequest(r) == req' = [req EXCEPT ![r] = IdleReq]

(* CreateInstance: an input with TLS is tried first. *)
CreateInstance(r, i, input) ==
    /\ ~Exists(i)
    /\ req' = [req EXCEPT ![r] =
          [pc |-> IF input.mode = "verify" THEN "try" ELSE "insert", inst |-> i, input |-> input,
           target |-> ResolveTarget(input, NoCA), proof |-> Settings(NoInstance), then |-> "insert"]]
    /\ UNCHANGED <<table, probed>>

(* databaseTLSSettingsChanged, the mode being enabled. *)
TLSSettingsChanged(cur, input) ==
    \/ cur.proto # input.proto \/ cur.port # input.port \/ ~cur.tls
    \/ cur.ca # InputCA(input, cur.ca)

(***************************************************************************)
(* UpdateInstance with preflightInstanceUpdate: read the row, keep its     *)
(* settings as the proof; without TLS there is no proof, with unchanged    *)
(* settings no trial.                                                      *)
(***************************************************************************)
UpdateInstance(r, i, input) ==
    /\ inst[i].live
    /\ LET cur == inst[i]
           mode == IF input.mode = "unset" THEN (IF cur.tls THEN "verify" ELSE "disable") ELSE input.mode
           next == [input EXCEPT !.mode = mode]
       IN  req' = [req EXCEPT ![r] =
              [pc |-> IF mode = "disable" THEN "update"
                      ELSE IF TLSSettingsChanged(cur, next) THEN "try" ELSE "proved",
               inst |-> i, input |-> next, target |-> ResolveTarget(next, cur.ca),
               proof |-> Settings(cur), then |-> "proved"]]
    /\ UNCHANGED <<table, probed>>

(* The standalone trial of the console reads the stored CA and stores      *)
(* nothing.                                                                *)
ProbeOnly(r, i, input) ==
    /\ input.mode = "verify"
    /\ req' = [req EXCEPT ![r] =
          [pc |-> "try", inst |-> i, input |-> input,
           target |-> ResolveTarget(input, IF inst[i].live THEN inst[i].ca ELSE NoCA),
           proof |-> Settings(NoInstance), then |-> "idle"]]
    /\ UNCHANGED <<table, probed>>

(* probeResolved: wait for one of the slots. *)
TakeProbeSlot(r) ==
    /\ req[r].pc = "try"
    /\ Cardinality({q \in Requests : req[q].pc = "probing"}) < ProbeSlots
    /\ req' = [req EXCEPT ![r].pc = "probing"]
    /\ UNCHANGED <<table, started, probed>>

(* ProbeTLS: the server accepts or refuses.  An update then carries the    *)
(* settings that were tried; a create keeps its input as it was.           *)
Probed(r) ==
    /\ req[r].pc = "probing"
    /\ \/ /\ probed' = IF req[r].then = "idle" THEN probed ELSE probed \cup {req[r].target}
          /\ req' = [req EXCEPT ![r] =
                CASE req[r].then = "idle" -> IdleReq
                  [] req[r].then = "insert" -> [@ EXCEPT !.pc = "insert"]
                  [] OTHER -> [@ EXCEPT !.pc = "proved",
                                        !.input.port = req[r].target.port,
                                        !.input.ca = IF req[r].target.ca = NoCA THEN "clear"
                                                     ELSE req[r].target.ca]]
       \/ EndRequest(r) /\ UNCHANGED probed
    /\ UNCHANGED <<table, started>>

-----------------------------------------------------------------------------
(* CreateDatabaseInstanceWithCreatorGrant: one transaction; a creator that *)
(* is gone rolls it back.                                                  *)
CreateDatabaseInstanceWithCreatorGrant(r, superAdmin) ==
    /\ req[r].pc = "insert"
    /\ ~Exists(req[r].inst)
    /\ LET i == req[r].inst
           input == req[r].input
           tls == input.mode = "verify"
           status == IF input.status = "unset" THEN "active" ELSE input.status
           row == [Normalize(input, tls, status, NoCA) EXCEPT !.port = ColumnPort(@)]
       IN  /\ inst' = [inst EXCEPT ![i] = row]
           /\ SyncResource({<<"instance", i>>})
           /\ grant' = IF superAdmin THEN grant ELSE grant \cup {i}
           /\ defaulted' = IF input.port = Unset /\ tls THEN defaulted \cup {Settings(row)} ELSE defaulted
    /\ EndRequest(r)
    /\ UNCHANGED <<acct, op, started, probed, straddled>>

(* hasProvisioningOperationForInstance and ...ForAdministrator: a retained *)
(* operation refers to the row.                                            *)
ReferencedInstance(i) == \E o \in Operations : op[o].pc = "live" /\ op[o].inst = i
ReferencedAdministrator(a) == \E o \in Operations : op[o].pc = "live" /\ op[o].admin = a

MutantMatchesTLSProof(row, proof) == TRUE

(* databaseInstanceMatchesTLSProof *)
MatchesTLSProof(row, proof) == Settings(row) = proof

(* hasCriticalDatabaseInstanceChange *)
CriticalChange(cur, next) == Settings(cur) # Settings(next) \/ cur.status # next.status

(***************************************************************************)
(* updateDatabaseInstance: the row is locked, compared with the proof if   *)
(* there is one, and written with the request's fields; a critical change  *)
(* is refused while an operation refers to the instance.                   *)
(***************************************************************************)
UpdateDatabaseInstance(r) ==
    /\ req[r].pc \in {"update", "proved"}
    /\ LET i == req[r].inst
           cur == inst[i]
           input == req[r].input
           next == Normalize(input, input.mode = "verify",
                             IF input.status = "unset" THEN cur.status ELSE input.status, cur.ca)
           allowed == /\ cur.live
                      /\ req[r].pc = "proved" => MatchesTLSProof(cur, req[r].proof)
                      /\ CriticalChange(cur, next) => ~ReferencedInstance(i)
       IN  IF allowed
           THEN /\ inst' = [inst EXCEPT ![i] = next]
                /\ SyncResource({<<"instance", i>>})
           ELSE UNCHANGED <<inst, resource>>
    /\ EndRequest(r)
    /\ UNCHANGED <<acct, grant, op, started, probed, defaulted, straddled>>

(* DeleteDatabaseInstance: one transaction under the lock of the row. *)
DeleteDatabaseInstance(i) ==
    /\ inst[i].live
    /\ ~ReferencedInstance(i)
    /\ LET gone == {a \in Accounts : acct[a].live /\ acct[a].inst = i}
       IN  /\ acct' = [a \in Accounts |-> IF a \in gone THEN SoftDeleted(acct[a]) ELSE acct[a]]
           /\ DeleteResource({<<"instance", i>>} \cup ({"account"} \X gone))
    /\ inst' = [inst EXCEPT ![i] = SoftDeleted(@)]
    /\ UNCHANGED <<req, op, probed, defaulted, straddled>>

DeleteInstance(i) == DeleteDatabaseInstance(i)

-----------------------------------------------------------------------------
(* CreateAccount and the first statement of AddDatabaseAccount: the        *)
(* instance is read without a lock.                                        *)
CreateAccount(r, a, i, pw) ==
    /\ inst[i].live
    /\ acct[a] = NoAccount
    /\ req' = [req EXCEPT ![r] = [pc |-> "account", acct |-> a, inst |-> i, pw |-> pw]]
    /\ UNCHANGED <<table, probed>>

AddDatabaseAccount(r) ==
    /\ req[r].pc = "account"
    /\ LET a == req[r].acct
       IN  IF acct[a] = NoAccount
           THEN /\ acct' = [acct EXCEPT ![a] = [inst |-> req[r].inst, pw |-> req[r].pw,
                                                status |-> "active", op |-> "none", live |-> TRUE]]
                /\ SyncResource({<<"account", a>>})
                /\ straddled' = IF inst[req[r].inst].live THEN straddled ELSE straddled \cup {a}
           ELSE UNCHANGED <<acct, resource, straddled>>
    /\ EndRequest(r)
    /\ UNCHANGED <<inst, grant, op, started, probed, defaulted>>

(* activeDatabaseAccountScope: the account and its instance are active.    *)
ActiveAccount(a) == acct[a].live /\ inst[acct[a].inst].live

(* UpdateDatabaseAccount: the instance and the account are locked.  The    *)
(* password and a status other than active are protected; the identity of  *)
(* a managed account is immutable.                                         *)
UpdateDatabaseAccount(a, pw, status) ==
    /\ ActiveAccount(a)
    /\ pw # "unset" \/ status = "disabled" => ~ReferencedAdministrator(a)
    /\ acct[a].op # "none" => pw = "unset"
    /\ acct' = [acct EXCEPT ![a].pw = IF pw = "unset" THEN @ ELSE pw,
                            ![a].status = IF status = "unset" THEN @ ELSE status]
    /\ SyncResource({<<"account", a>>})
    /\ UNCHANGED <<inst, grant, req, op, probed, defaulted, straddled>>

UpdateAccount(a, pw, status) == UpdateDatabaseAccount(a, pw, status)

DeleteDatabaseAccount(a) ==
    /\ ActiveAccount(a)
    /\ acct[a].op = "none"
    /\ ~ReferencedAdministrator(a)
    /\ acct' = [acct EXCEPT ![a] = SoftDeleted(@)]
    /\ DeleteResource({<<"account", a>>})
    /\ UNCHANGED <<inst, req, op, probed, defaulted, straddled>>

(* DeleteAccount: a managed account goes through deprovisioning (module    *)
(* DatabaseProvisioning), any other one is deleted here.                   *)
DeleteAccount(a) == acct[a].op = "none" /\ DeleteDatabaseAccount(a)

-----------------------------------------------------------------------------
(***************************************************************************)
(* The provisioning side, as far as it touches the inventory: read the     *)
(* administrator (DatabaseProvisioningAdmin), reserve under the locks with *)
(* what was read as proof, activate, and finish, by deprovisioning or by   *)
(* dropping the operation.                                                 *)
(***************************************************************************)
ReadAdmin(o, a) ==
    /\ op[o] = NoOp
    /\ ActiveAccount(a)
    /\ op' = [op EXCEPT ![o] = [pc |-> "read", inst |-> acct[a].inst, admin |-> a, pw |-> acct[a].pw,
                                proof |-> Settings(inst[acct[a].inst])]]
    /\ UNCHANGED <<inst, acct, resource, grant, req, probed, defaulted, straddled>>

(* The instance and the administrator are there and are what was read.     *)
UsableInstance(o) ==
    LET i == op[o].inst
    IN  /\ inst[i].live /\ inst[i].status = "active" /\ inst[i].proto = "mysql"
        /\ Settings(inst[i]) = op[o].proof

UsableAdministrator(o) ==
    LET a == op[o].admin
    IN  acct[a].live /\ acct[a].status = "active" /\ acct[a].pw = op[o].pw

Usable(o) == UsableInstance(o) /\ UsableAdministrator(o)

(* Refused too, at any time: an administrator that has expired, a taken     *)
(* user name, a statement that fails.                                      *)
CreateDatabaseProvisioningOperation(o) ==
    /\ op[o].pc = "read"
    /\ \/ Usable(o) /\ op' = [op EXCEPT ![o].pc = "live"]
       \/ op' = [op EXCEPT ![o] = NoOp]
    /\ UNCHANGED <<inst, acct, resource, grant, req, started, probed, defaulted, straddled>>

ActivateDatabaseProvisioningOperation(o, a) ==
    /\ op[o].pc = "live"
    /\ ~ \E b \in Accounts : acct[b].live /\ acct[b].op = o
    /\ acct[a] = NoAccount
    /\ acct' = [acct EXCEPT ![a] = [inst |-> op[o].inst, pw |-> op[o].pw, status |-> "active",
                                    op |-> o, live |-> TRUE]]
    /\ SyncResource({<<"account", a>>})
    /\ UNCHANGED <<inst, grant, req, op, started, probed, defaulted, straddled>>

FinishOperation(o) ==
    /\ op[o].pc = "live"
    /\ LET gone == {a \in Accounts : acct[a].live /\ acct[a].op = o}
       IN  /\ acct' = [a \in Accounts |-> IF a \in gone THEN SoftDeleted(acct[a]) ELSE acct[a]]
           /\ DeleteResource({"account"} \X gone)
    /\ op' = [op EXCEPT ![o] = NoOp]
    /\ UNCHANGED <<inst, req, started, probed, defaulted, straddled>>

(* A statement fails, or the client goes away: also while it waits for a   *)
(* slot or for the server.                                                 *)
Abandon(r) ==
    /\ req[r] # IdleReq
    /\ EndRequest(r)
    /\ UNCHANGED <<table, started, probed>>

-----------------------------------------------------------------------------
Count == started < MaxStarted /\ started' = started + 1

(* The console's methods. *)
HandleDBInstances(r) == \E i \in Instances, input \in Inputs : CreateInstance(r, i, input)

HandleDBInstance(r) ==
    \E i \in Instances :
        \/ \E input \in Inputs : UpdateInstance(r, i, input)
        \/ DeleteInstance(i)

HandleDBInstanceAccounts(r) ==
    \E a \in Accounts, i \in Instances, pw \in Passwords : CreateAccount(r, a, i, pw)

HandleDBAccount ==
    \E a \in Accounts :
        \/ \E pw \in Passwords \cup {"unset"}, s \in {"unset", "active", "disabled"} : UpdateAccount(a, pw, s)
        \/ DeleteAccount(a)

HandleDatabaseTLSPreflight(r) == \E i \in Instances, input \in Inputs : ProbeOnly(r, i, input)

BeginRequest(r) ==
    /\ req[r] = IdleReq
    /\ Count
    /\ \/ HandleDBInstances(r) \/ HandleDBInstance(r) \/ HandleDBInstanceAccounts(r)
       \/ HandleDBAccount \/ HandleDatabaseTLSPreflight(r)

RequestStep(r) ==
    \/ BeginRequest(r) \/ TakeProbeSlot(r) \/ Probed(r) \/ UpdateDatabaseInstance(r)
    \/ \E s \in BOOLEAN : CreateDatabaseInstanceWithCreatorGrant(r, s)
    \/ AddDatabaseAccount(r) \/ Abandon(r)

OperationStep(o) ==
    \/ \E a \in Accounts : Count /\ ReadAdmin(o, a)
    \/ CreateDatabaseProvisioningOperation(o)
    \/ \E a \in Accounts : ActivateDatabaseProvisioningOperation(o, a)
    \/ FinishOperation(o)

(* An instance that was created with settings that were tried, and one     *)
(* account, or nothing yet.                                                *)
Init ==
    /\ \E i \in Instances, a \in Accounts, pw \in Passwords, some \in BOOLEAN, tls \in BOOLEAN :
          LET row == [proto |-> "mysql", port |-> 3306, tls |-> tls, ca |-> NoCA,
                      status |-> "active", live |-> TRUE]
          IN  /\ inst = [x \in Instances |-> IF some /\ x = i THEN row ELSE NoInstance]
              /\ acct = [x \in Accounts |-> IF some /\ x = a
                            THEN [inst |-> i, pw |-> pw, status |-> "active", op |-> "none", live |-> TRUE]
                            ELSE NoAccount]
              /\ resource = IF some THEN {<<"instance", i>>, <<"account", a>>} ELSE {}
              /\ probed = IF some /\ tls THEN {Settings(row)} ELSE {}
    /\ grant = {}
    /\ req = [r \in Requests |-> IdleReq]
    /\ op = [o \in Operations |-> NoOp]
    /\ started = 0
    /\ defaulted = {}
    /\ straddled = {}

(* The tables hold rows of their columns' types, and the ghosts settings.   *)
TypeOK ==
    LET Row == [proto : Protocols \cup {"none"}, port : Ports \cup {Unset}, tls : BOOLEAN,
                ca : {NoCA, "c1"}, status : {"none", "active", "disabled"}, live : BOOLEAN]
        Tried == [proto : Protocols, port : Ports, tls : BOOLEAN, ca : {NoCA, "c1"}]
    IN  /\ inst \in [Instances -> Row]
        /\ acct \in [Accounts -> [inst : Instances \cup {"none"}, pw : Passwords \cup {"none"},
                                  status : {"none", "active", "disabled"},
                                  op : Operations \cup {"none"}, live : BOOLEAN]]
        /\ resource \subseteq ({"instance"} \X Instances) \cup ({"account"} \X Accounts)
        /\ grant \subseteq Instances
        /\ \A r \in Requests :
              req[r].pc \in {"idle", "try", "probing", "insert", "update", "proved", "account"}
        /\ \A o \in Operations : op[o].pc \in {"none", "read", "live"}
        /\ started \in 0 .. MaxStarted
        /\ probed \subseteq Tried /\ defaulted \subseteq Tried /\ straddled \subseteq Accounts

Next == (\E r \in Requests : RequestStep(r)) \/ (\E o \in Operations : OperationStep(o))

Spec == Init /\ [][Next]_vars

-----------------------------------------------------------------------------
(* An instance that uses TLS carries settings the trial has accepted as a  *)
(* whole, protocol, port and CA together, however updates interleave; the  *)
(* exception is a create that leaves the port out, which is tried at one   *)
(* port and stored with another.                                           *)
StoredTLSWasTried ==
    \A i \in Instances : inst[i].live /\ inst[i].tls => Settings(inst[i]) \in probed \cup defaulted

(* The same without the exception: unverified TLS settings are never       *)
(* stored.                                                                 *)
NoUnverifiedTLS ==
    \A i \in Instances : inst[i].live /\ inst[i].tls => Settings(inst[i]) \in probed

(* A managed account that its own operation has removed.                   *)
Deprovisioned(a) == acct[a].op # "none" /\ ~acct[a].live

(* While a provisioning operation is retained, its instance and its        *)
(* administrator are there and are what the operation was reserved with:   *)
(* cleanup can still log in.  The exception is an administrator that is a  *)
(* managed account itself and was deprovisioned since.                     *)
OperationKeepsItsAdministrator ==
    \A o \in Operations : op[o].pc = "live" =>
       UsableInstance(o) /\ (UsableAdministrator(o) \/ Deprovisioned(op[o].admin))

(* The same without the exception: no administrator goes while a retained  *)
(* operation may need it for recovery.                                     *)
AdministratorOutlastsOperation ==
    \A o \in Operations : op[o].pc = "live" => Usable(o)

(* The resources table, from which grants are decided, lists exactly the   *)
(* active instances and accounts, and no grant outlives its instance; an   *)
(* active account under a deleted instance was inserted by a request that  *)
(* had read the instance before the deletion.                              *)
InventoryInStep ==
    /\ resource = ({"instance"} \X {i \in Instances : inst[i].live})
                  \cup ({"account"} \X {a \in Accounts : acct[a].live})
    /\ \A i \in grant : inst[i].live
    /\ \A a \in Accounts : acct[a].live /\ ~inst[acct[a].inst].live => a \in straddled

(* The inventory keeps what its readers rely on: connections the TLS trial   *)
(* has seen, an administrator for every retained provisioning operation, and *)
(* a resources table that agrees with instances and accounts.                *)
InventoryConsistent == StoredTLSWasTried /\ OperationKeepsItsAdministrator /\ InventoryInStep
=============================================================================
