--------------------------- MODULE SSHAccess_proofs ---------------------------
(***************************************************************************)
(* Proofs about the three components of MCSSHAccess, for any number of     *)
(* hosts, accounts, keys, requests, connections, channels and frames.      *)
(*                                                                         *)
(* HostInventory: a pinned key was presented by the server it is pinned    *)
(* for and a connection accepts no other.  HostKeyTrusted is not           *)
(* inductive: a row, once written, came from a request that read and       *)
(* probed earlier.  HostInv follows the key on its way (RequestPins,       *)
(* DialPins): from the probe or the row into the request and the           *)
(* connection, with the endpoint it belongs to.                            *)
(*                                                                         *)
(* Credentials: what a disabled temporary access leaves alive, and that no *)
(* two requests win the same race.  CredInv adds what each request knows   *)
(* of the rows it read when it comes to write them.                        *)
(*                                                                         *)
(* SSHGateway: the record of a session.  GatewayInv adds where a frame or  *)
(* a command can be between the client and the audit store, and that it is *)
(* in one of these places only; Ledger, which frames the recorder has      *)
(* seen, and that at most the last command it took is not in a log.        *)
(***************************************************************************)
EXTENDS MCSSHAccess, Sequences, FiniteSetTheorems, SequenceTheorems, WellFoundedInduction, TLAPS

(* A probe of e once returned k.                                           *)
Known(e, k) == k = NoKey \/ <<e, k>> \in collected

HostPins == \A h \in Hosts : Known(host[h].ep, host[h].pin)

(* What a request will write: the key it carries belongs to the endpoint   *)
(* it carries, or to the row that was read.                                *)
RequestPins ==
    \A r \in Requests :
        /\ req[r].pc \in {"create", "update"} => Known(req[r].next.ep, req[r].next.pin)
        /\ req[r].pc = "refresh" => <<req[r].read.ep, req[r].key>> \in collected
        /\ req[r].pc \in {"confirming", "refresh"} => req[r].read.live

(* What a connection will accept or report.                                *)
DialPin(c) ==
    /\ c.pc \in {"resolved", "connected"} => c.legacy \/ Known(c.read.ep, c.pin)
    /\ c.pc = "resolved" => c.legacy \/ c.pin = c.read.pin
    /\ c.pc = "resolved" /\ c.legacy => c.read.pin = NoKey
    /\ c.pc = "connected" => c.key = c.pin /\ c.key # NoKey
    /\ c.pc = "changed" => c.key # c.read.pin
DialPins == \A d \in Dialers : DialPin(dial[d])

HostInv == TypeOK /\ HostPins /\ RequestPins /\ DialPins
Reqs == {IdleReq} \cup CreateReq \cup UpdateReq \cup ConfirmReq \cup DeleteReq \cup TargetReq

-----------------------------------------------------------------------------
(* A live row is a row of the table.                                       *)
LEMMA LiveIsRow ==
    ASSUME TypeOK, NEW h \in Hosts, host[h].live
    PROVE  host[h] \in Row
BY DEF TypeOK, NoHost

(* An active account names a live host.                                    *)
LEMMA ActiveNamesHost ==
    ASSUME TypeOK, NEW a \in Accounts, ActiveAccount(a)
    PROVE  acct[a] \in AccountRow /\ acct[a].host \in Hosts /\ host[acct[a].host] \in Row
<1>1. acct[a] \in AccountRow
    BY DEF TypeOK, NoAccount, ActiveAccount
<1>2. acct[a].host \in Hosts
    BY <1>1 DEF AccountRow
<1>. QED
    BY <1>1, <1>2, LiveIsRow DEF ActiveAccount

(* A write of a host row keeps its type, and keeps every pin where the key *)
(* was seen when what is written has that property.                        *)
LEMMA WriteKeeps ==
    ASSUME TypeOK, HostPins, NEW h \in Hosts, NEW next \in Row, Known(next.ep, next.pin),
           WriteHost(h, next), UNCHANGED collected
    PROVE  /\ host' \in [Hosts -> Row \cup {NoHost}] /\ rev' \in 0 .. MaxRev /\ HostPins'
           /\ \A x \in Hosts \ {h} : host'[x] = host[x]
           /\ host'[h].live = next.live
<1>1. rev + 1 \in 0 .. MaxRev /\ rev' = rev + 1
    BY HostInventoryAssumption DEF TypeOK, WriteHost
<1>2. [next EXCEPT !.rev = rev + 1] \in Row
    BY <1>1 DEF Row
<1>3. /\ [next EXCEPT !.rev = rev + 1].ep = next.ep
      /\ [next EXCEPT !.rev = rev + 1].pin = next.pin
      /\ [next EXCEPT !.rev = rev + 1].live = next.live
    BY DEF Row
<1>4. host' = [host EXCEPT ![h] = [next EXCEPT !.rev = rev + 1]]
    BY DEF WriteHost
<1>5. host' \in [Hosts -> Row \cup {NoHost}]
    BY <1>2, <1>4 DEF TypeOK
<1>6. host'[h] = [next EXCEPT !.rev = rev + 1] /\ \A x \in Hosts \ {h} : host'[x] = host[x]
    BY <1>4 DEF TypeOK
<1>7. HostPins'
    BY <1>3, <1>6 DEF HostPins, Known
<1>. QED
    BY <1>1, <1>3, <1>5, <1>6, <1>7

(* A probe only adds to what was collected.                                *)
LEMMA LearnAdds ==
    ASSUME TypeOK, NEW e \in Endpoints, NEW k \in Keys \cup {NoKey}, Learn(e, k)
    PROVE  /\ collected \subseteq collected' /\ collected' \subseteq Endpoints \X Keys
           /\ k # NoKey => <<e, k>> \in collected'
BY DEF TypeOK, Learn

(* What a probe returns.                                                   *)
LEMMA CollectType ==
    ASSUME TypeOK, NEW e \in Endpoints
    PROVE  Collect(e) \subseteq Keys \cup {NoKey}
BY DEF TypeOK, Collect

(* While the rows stay, what was collected is only added to.               *)
LEMMA PinsStay ==
    ASSUME HostPins, UNCHANGED host, collected \subseteq collected'
    PROVE  HostPins'
BY DEF HostPins, Known

(* A connection keeps what it holds while it waits.                        *)
LEMMA DialsStay ==
    ASSUME DialPins, UNCHANGED dial, collected \subseteq collected'
    PROVE  DialPins'
BY DEF DialPins, DialPin, Known

(* The requests keep what they hold, but for the one that takes a step.    *)
LEMMA RequestsStay ==
    ASSUME TypeOK, RequestPins, NEW r \in Requests, NEW next, req' = [req EXCEPT ![r] = next],
           collected \subseteq collected',
           next.pc \in {"create", "update"} =>
               next.next.pin = NoKey \/ <<next.next.ep, next.next.pin>> \in collected',
           next.pc = "refresh" => <<next.read.ep, next.key>> \in collected',
           next.pc \in {"confirming", "refresh"} => next.read.live
    PROVE  RequestPins'
<1>1. req'[r] = next /\ \A q \in Requests \ {r} : req'[q] = req[q]
    BY DEF TypeOK
<1>. QED
    BY <1>1 DEF RequestPins, Known

(* The end of a request.                                                   *)
LEMMA EndKeeps ==
    ASSUME TypeOK, RequestPins, NEW r \in Requests, EndRequest(r), collected \subseteq collected'
    PROVE  RequestPins' /\ req' \in [Requests -> Reqs]
<1>1. req' \in [Requests -> Reqs]
    BY DEF TypeOK, EndRequest, Reqs
<1>2. IdleReq.pc = "idle"
    BY DEF IdleReq
<1>3. RequestPins'
    BY <1>2, RequestsStay DEF EndRequest
<1>. QED
    BY <1>1, <1>3
-----------------------------------------------------------------------------
(* A request moves on, having read or probed, and nothing is written yet.  *)
LEMMA RequestMoves ==
    ASSUME HostInv, NEW r \in Requests, NEW next \in Reqs, req' = [req EXCEPT ![r] = next],
           started' \in 0 .. MaxStarted,
           UNCHANGED <<server, host, acct, dial, rev, rekeys>>,
           collected \subseteq collected', collected' \subseteq Endpoints \X Keys,
           next.pc \in {"create", "update"} =>
               next.next.pin = NoKey \/ <<next.next.ep, next.next.pin>> \in collected',
           next.pc = "refresh" => <<next.read.ep, next.key>> \in collected',
           next.pc \in {"confirming", "refresh"} => next.read.live
    PROVE  HostInv'
<1>1. TypeOK'
    BY DEF HostInv, TypeOK, Reqs
<1>2. RequestPins'
    BY RequestsStay DEF HostInv
<1>. QED
    BY <1>1, <1>2, PinsStay, DialsStay DEF HostInv

-----------------------------------------------------------------------------
(* A request that begins has read a live row or makes a new one, and       *)
(* carries a key only with the endpoint it was seen at.                    *)
LEMMA BeginKeeps ==
    ASSUME HostInv, NEW r \in Requests, BeginRequest(r)
    PROVE  HostInv'
<1>. USE DEF HostInv
<1>1. started' \in 0 .. MaxStarted
    BY HostInventoryAssumption DEF BeginRequest, Count, TypeOK
<1>0. 0 \in 0 .. MaxRev
    BY HostInventoryAssumption
<1>3. ASSUME NEW h \in Hosts, NEW in \in HostInput({"active", "disabled"}), BeginCreateHost(r, h, in)
      PROVE  HostInv'
    <2>1. PICK k \in IF in.proto = "ssh" THEN Collect(in.ep) ELSE {NoKey} :
              /\ req' = [req EXCEPT ![r] =
                    [pc |-> "create", host |-> h,
                     next |-> [in EXCEPT !.pin = k,
                                         !.status = IF in.proto = "ssh" /\ k = NoKey
                                                    THEN "disabled" ELSE in.status]]]
              /\ Learn(in.ep, k)
        BY <1>3 DEF BeginCreateHost
    <2>2. in.ep \in Endpoints /\ in.status \in {"active", "disabled"}
        BY DEF HostInput
    <2>3. k \in Keys \cup {NoKey}
        BY <2>1, <2>2, CollectType
    <2>. DEFINE s == IF in.proto = "ssh" /\ k = NoKey THEN "disabled" ELSE in.status
                row == [in EXCEPT !.pin = k, !.status = s]
                next == [pc |-> "create", host |-> h, next |-> row]
    <2>4. s \in {"active", "disabled"}
        BY <2>2
    <2>. HIDE DEF s
    <2>5. row \in Row /\ row.pin = k /\ row.ep = in.ep
        BY <1>0, <2>3, <2>4 DEF HostInput, Row
    <2>6. next \in Reqs /\ next.pc = "create" /\ next.next = row
        BY <2>5 DEF Reqs, CreateReq
    <2>7. /\ collected \subseteq collected' /\ collected' \subseteq Endpoints \X Keys
          /\ k # NoKey => <<in.ep, k>> \in collected'
        BY <2>1, <2>2, <2>3, LearnAdds
    <2>8. req' = [req EXCEPT ![r] = next]
        BY <2>1 DEF s
    <2>9. UNCHANGED <<server, host, acct, dial, rev, rekeys>>
        BY <1>3 DEF BeginCreateHost
    <2>10. next.next.pin = NoKey \/ <<next.next.ep, next.next.pin>> \in collected'
        BY <2>5, <2>7
    <2>. HIDE DEF next, row
    <2>. QED
        BY <1>1, RequestMoves, <2>6, <2>7, <2>8, <2>9, <2>10
<1>4. ASSUME NEW h \in Hosts, NEW in \in HostInput({"active", "disabled", "unset"}),
             BeginUpdateHost(r, h, in)
      PROVE  HostInv'
    <2>. DEFINE cur == host[h]
                s == IF in.status = "unset" THEN cur.status ELSE in.status
                given == [in EXCEPT !.status = s]
                row == [given EXCEPT !.pin = KeptIdentity(cur, given)]
                stage == IF NeedsProbe(cur, given) THEN "probe" ELSE "update"
                next == [pc |-> stage, host |-> h, read |-> cur, next |-> row]
    <2>1. cur \in Row
        BY <1>4, LiveIsRow DEF BeginUpdateHost
    <2>2. s \in {"active", "disabled"}
        <3>1. cur.status \in {"active", "disabled"} /\ in.status \in {"active", "disabled", "unset"}
            BY <2>1 DEF Row, HostInput
        <3>. QED
            BY <3>1
    <2>3. given.ep = in.ep /\ given.proto = in.proto
        BY DEF HostInput
    <2>4. /\ KeptIdentity(cur, given) \in {NoKey, cur.pin}
          /\ KeptIdentity(cur, given) # NoKey => cur.ep = given.ep /\ KeptIdentity(cur, given) = cur.pin
        BY DEF KeptIdentity, EndpointChanged
    <2>5. KeptIdentity(cur, given) \in Keys \cup {NoKey}
        BY <2>1, <2>4 DEF Row
    <2>6. row \in Row /\ row.ep = given.ep /\ row.pin = KeptIdentity(cur, given)
        <3>. DEFINE kept == KeptIdentity(cur, given)
                    plain == [in EXCEPT !.pin = kept, !.status = s]
        <3>1. row = plain
            BY DEF HostInput
        <3>2. kept \in Keys \cup {NoKey}
            BY <2>5
        <3>. HIDE DEF kept, s
        <3>3. plain \in Row /\ plain.ep = in.ep /\ plain.pin = kept
            BY <1>0, <2>2, <3>2 DEF HostInput, Row
        <3>. QED
            BY <2>3, <3>1, <3>3 DEF kept
    <2>7. Known(row.ep, row.pin)
        BY <2>4, <2>6 DEF HostPins, Known
    <2>8. next.pc \in {"probe", "update"} /\ next \in UpdateReq /\ next.next = row
        BY <2>1, <2>6 DEF UpdateReq
    <2>9. /\ req' = [req EXCEPT ![r] = next]
          /\ UNCHANGED <<server, host, acct, dial, rev, rekeys, collected>>
        BY <1>4 DEF BeginUpdateHost
    <2>10. next \in Reqs
        BY <2>8 DEF Reqs
    <2>11. collected \subseteq collected' /\ collected' \subseteq Endpoints \X Keys
        BY <2>9 DEF TypeOK
    <2>12. next.next.pin = NoKey \/ <<next.next.ep, next.next.pin>> \in collected'
        <3>. HIDE DEF next, row
        <3>. QED
            BY <2>7, <2>8, <2>9 DEF Known
    <2>. HIDE DEF next, row, given, s, cur, stage
    <2>13. next.pc # "refresh" /\ next.pc # "confirming"
        BY <2>8
    <2>. QED
        BY <1>1, RequestMoves, <2>9, <2>10, <2>11, <2>12, <2>13
<1>5. ASSUME NEW h \in Hosts, BeginDeleteHost(r, h)
      PROVE  HostInv'
    <2>. DEFINE next == [pc |-> "deleteHost", host |-> h,
                         accounts |-> {a \in Accounts : acct[a].live /\ acct[a].host = h}]
    <2>1. next \in Reqs /\ next.pc = "deleteHost"
        BY DEF Reqs, DeleteReq
    <2>2. /\ req' = [req EXCEPT ![r] = next]
          /\ UNCHANGED <<server, host, acct, dial, rev, rekeys, collected>>
        BY <1>5 DEF BeginDeleteHost
    <2>3. collected \subseteq collected' /\ collected' \subseteq Endpoints \X Keys
        BY <2>2 DEF TypeOK
    <2>. HIDE DEF next
    <2>. QED
        BY <1>1, RequestMoves, <2>1, <2>2, <2>3
<1>6. ASSUME NEW h \in Hosts, NEW k \in Keys, ConfirmHostIdentity(r, h, k)
      PROVE  HostInv'
    <2>. DEFINE next == [pc |-> "confirming", host |-> h, read |-> host[h], key |-> k]
    <2>1. host[h] \in Row /\ host[h].live
        BY <1>6, LiveIsRow DEF ConfirmHostIdentity
    <2>2. next \in Reqs /\ next.pc = "confirming" /\ next.read.live
        BY <2>1 DEF Reqs, ConfirmReq
    <2>3. /\ req' = [req EXCEPT ![r] = next]
          /\ UNCHANGED <<server, host, acct, dial, rev, rekeys, collected>>
        BY <1>6 DEF ConfirmHostIdentity
    <2>4. collected \subseteq collected' /\ collected' \subseteq Endpoints \X Keys
        BY <2>3 DEF TypeOK
    <2>. HIDE DEF next
    <2>. QED
        BY <1>1, RequestMoves, <2>2, <2>3, <2>4
<1>7. ASSUME NEW a \in Accounts, NEW k \in Keys \cup {NoKey}, NEW s \in {"active", "disabled"},
             BeginUpdateTarget(r, a, k, s)
      PROVE  HostInv'
    <2>. DEFINE row == [acct[a] EXCEPT !.pin = k, !.status = s]
                next == [pc |-> "updateTarget", acct |-> a, next |-> row]
    <2>1. acct[a] \in AccountRow
        BY <1>7, ActiveNamesHost DEF BeginUpdateTarget
    <2>2. row \in AccountRow
        BY <2>1 DEF AccountRow
    <2>3. /\ req' = [req EXCEPT ![r] = next]
          /\ UNCHANGED <<server, host, acct, dial, rev, rekeys, collected>>
        BY <1>7 DEF BeginUpdateTarget
    <2>. HIDE DEF row
    <2>4. next \in Reqs /\ next.pc = "updateTarget"
        BY <2>2 DEF Reqs, TargetReq
    <2>5. collected \subseteq collected' /\ collected' \subseteq Endpoints \X Keys
        BY <2>3 DEF TypeOK
    <2>. HIDE DEF next
    <2>. QED
        BY <1>1, RequestMoves, <2>3, <2>4, <2>5
<1>. QED
    BY <1>3, <1>4, <1>5, <1>6, <1>7
       DEF BeginRequest, HandleHosts, HandleHost, HandleRefreshHostIdentity, HandleUpdateTarget

-----------------------------------------------------------------------------
(* A step that ends its request and leaves the table well typed and its    *)
(* pins known.                                                             *)
LEMMA StepEnds ==
    ASSUME HostInv, NEW r \in Requests, EndRequest(r),
           host' \in [Hosts -> Row \cup {NoHost}], rev' \in 0 .. MaxRev, HostPins',
           acct' \in [Accounts -> AccountRow \cup {NoAccount}],
           UNCHANGED <<server, dial, started, rekeys, collected>>
    PROVE  HostInv'
<1>1. RequestPins' /\ req' \in [Requests -> Reqs]
    BY EndKeeps DEF HostInv
<1>2. DialPins'
    BY DialsStay DEF HostInv
<1>3. TypeOK'
    BY <1>1 DEF HostInv, TypeOK, Reqs
<1>. QED
    BY <1>1, <1>2, <1>3 DEF HostInv

(* The same when the step may write one row.                               *)
LEMMA WriteStepEnds ==
    ASSUME HostInv, NEW r \in Requests, EndRequest(r),
           NEW h \in Hosts, NEW row \in Row, Known(row.ep, row.pin),
           WriteHost(h, row) \/ UNCHANGED <<host, rev>>,
           acct' \in [Accounts -> AccountRow \cup {NoAccount}],
           UNCHANGED <<server, dial, started, rekeys, collected>>
    PROVE  HostInv'
<1>1. CASE WriteHost(h, row)
    BY <1>1, WriteKeeps, StepEnds DEF HostInv
<1>2. CASE UNCHANGED <<host, rev>>
    <2>1. HostPins'
        BY <1>2, PinsStay DEF HostInv
    <2>2. host' \in [Hosts -> Row \cup {NoHost}] /\ rev' \in 0 .. MaxRev
        BY <1>2 DEF HostInv, TypeOK
    <2>. QED
        BY <2>1, <2>2, StepEnds
<1>. QED
    BY <1>1, <1>2

LEMMA CreateKeeps ==
    ASSUME HostInv, NEW r \in Requests, CreateManagedHost(r)
    PROVE  HostInv'
<1>1. req[r] \in CreateReq
    BY DEF HostInv, TypeOK, CreateManagedHost, IdleReq, UpdateReq, ConfirmReq, DeleteReq,
       TargetReq
<1>2. req[r].host \in Hosts /\ req[r].next \in Row
    BY <1>1 DEF CreateReq
<1>3. Known(req[r].next.ep, req[r].next.pin)
    BY DEF HostInv, RequestPins, CreateManagedHost
<1>4. /\ WriteHost(req[r].host, req[r].next) \/ UNCHANGED <<host, rev>>
      /\ EndRequest(r) /\ UNCHANGED <<server, acct, dial, started, rekeys, collected>>
    BY DEF CreateManagedHost
<1>5. acct' \in [Accounts -> AccountRow \cup {NoAccount}]
    BY <1>4 DEF HostInv, TypeOK
<1>. QED
    BY <1>2, <1>3, <1>4, <1>5, WriteStepEnds

(* What a request that updates a host carries.                             *)
LEMMA UpdateCarries ==
    ASSUME HostInv, NEW r \in Requests, req[r].pc \in {"probe", "update"}
    PROVE  req[r] \in UpdateReq /\ req[r].host \in Hosts /\ req[r].next \in Row
<1>1. req[r] \in UpdateReq
    BY DEF HostInv, TypeOK, IdleReq, CreateReq, ConfirmReq, DeleteReq, TargetReq
<1>. QED
    BY <1>1 DEF UpdateReq

(* What a confirmation carries.                                            *)
LEMMA ConfirmCarries ==
    ASSUME HostInv, NEW r \in Requests, req[r].pc \in {"confirming", "refresh"}
    PROVE  /\ req[r] \in ConfirmReq /\ req[r].host \in Hosts /\ req[r].read \in Row
           /\ req[r].key \in Keys
<1>1. req[r] \in ConfirmReq
    BY DEF HostInv, TypeOK, IdleReq, CreateReq, UpdateReq, DeleteReq, TargetReq
<1>. QED
    BY <1>1 DEF ConfirmReq

LEMMA UpdateKeeps ==
    ASSUME HostInv, NEW r \in Requests, UpdateHost(r)
    PROVE  HostInv'
<1>1. req[r].host \in Hosts /\ req[r].next \in Row
    BY UpdateCarries DEF UpdateHost
<1>2. Known(req[r].next.ep, req[r].next.pin)
    BY DEF HostInv, RequestPins, UpdateHost
<1>3. /\ WriteHost(req[r].host, req[r].next) \/ UNCHANGED <<host, rev>>
      /\ EndRequest(r) /\ UNCHANGED <<server, acct, dial, started, rekeys, collected>>
    BY DEF UpdateHost
<1>4. acct' \in [Accounts -> AccountRow \cup {NoAccount}]
    BY <1>3 DEF HostInv, TypeOK
<1>. QED
    BY <1>1, <1>2, <1>3, <1>4, WriteStepEnds

LEMMA RefreshKeeps ==
    ASSUME HostInv, NEW r \in Requests, RefreshHostIdentity(r)
    PROVE  HostInv'
<1>1. req[r].host \in Hosts /\ req[r].read \in Row /\ req[r].key \in Keys
    BY ConfirmCarries DEF RefreshHostIdentity
<1>. DEFINE row == [req[r].read EXCEPT !.pin = req[r].key, !.status = "active"]
<1>2. row \in Row /\ row.ep = req[r].read.ep /\ row.pin = req[r].key
    BY <1>1 DEF Row
<1>3. Known(row.ep, row.pin)
    <2>1. <<req[r].read.ep, req[r].key>> \in collected
        BY DEF HostInv, RequestPins, RefreshHostIdentity
    <2>. HIDE DEF row
    <2>. QED
        BY <1>2, <2>1 DEF Known
<1>4. /\ WriteHost(req[r].host, row) \/ UNCHANGED <<host, rev>>
      /\ EndRequest(r) /\ UNCHANGED <<server, acct, dial, started, rekeys, collected>>
    BY DEF RefreshHostIdentity
<1>5. acct' \in [Accounts -> AccountRow \cup {NoAccount}]
    BY <1>4 DEF HostInv, TypeOK
<1>. HIDE DEF row
<1>. QED
    BY <1>1, <1>2, <1>3, <1>4, <1>5, WriteStepEnds

(* An account that is disabled keeps its type.                             *)
LEMMA AccountOff ==
    ASSUME TypeOK, NEW a \in Accounts, acct[a].live
    PROVE  [acct[a] EXCEPT !.live = FALSE, !.status = "disabled"] \in AccountRow
<1>1. acct[a] \in AccountRow
    BY DEF TypeOK, NoAccount
<1>. QED
    BY <1>1 DEF AccountRow

LEMMA DeleteKeeps ==
    ASSUME HostInv, NEW r \in Requests, DeleteHost(r)
    PROVE  HostInv'
<1>1. req[r] \in DeleteReq
    <2>1. req[r].pc = "deleteHost"
        BY DEF DeleteHost
    <2>. QED
        BY <2>1 DEF HostInv, TypeOK, IdleReq, UpdateReq, ConfirmReq, CreateReq, TargetReq
<1>2. req[r].host \in Hosts
    BY <1>1 DEF DeleteReq
<1>3. acct' \in [Accounts -> AccountRow \cup {NoAccount}]
    BY AccountOff DEF HostInv, TypeOK, DeleteHost
<1>4. EndRequest(r) /\ UNCHANGED <<server, dial, started, rekeys, collected>>
    BY DEF DeleteHost
<1>5. CASE ~host[req[r].host].live
    <2>1. UNCHANGED <<host, rev>>
        BY <1>5 DEF DeleteHost
    <2>2. HostPins' /\ host' \in [Hosts -> Row \cup {NoHost}] /\ rev' \in 0 .. MaxRev
        BY <1>4, <2>1, PinsStay DEF HostInv, TypeOK
    <2>. QED
        BY <1>3, <1>4, <2>2, StepEnds
<1>6. CASE host[req[r].host].live
    <2>. DEFINE cur == host[req[r].host]
                row == [cur EXCEPT !.live = FALSE, !.status = "disabled"]
    <2>1. cur \in Row
        BY <1>2, <1>6, LiveIsRow DEF HostInv
    <2>2. row \in Row /\ row.ep = cur.ep /\ row.pin = cur.pin
        BY <2>1 DEF Row
    <2>3. Known(cur.ep, cur.pin)
        BY <1>2 DEF HostInv, HostPins
    <2>4. WriteHost(req[r].host, row)
        BY <1>6 DEF DeleteHost
    <2>. HIDE DEF row, cur
    <2>. QED
        BY <1>2, <1>3, <1>4, <2>2, <2>3, <2>4, WriteStepEnds
<1>. QED
    BY <1>5, <1>6

(* The save of an account, of a row of the right type.                     *)
LEMMA UpdateTargetKeeps ==
    ASSUME HostInv, NEW r \in Requests, UpdateTarget(r)
    PROVE  HostInv'
<1>1. req[r].pc = "updateTarget"
    BY DEF UpdateTarget
<1>2. req[r] \in TargetReq
    BY <1>1 DEF HostInv, TypeOK, IdleReq, UpdateReq, ConfirmReq, CreateReq, DeleteReq
<1>3. req[r].acct \in Accounts /\ req[r].next \in AccountRow
    BY <1>2 DEF TargetReq
<1>4. acct' \in [Accounts -> AccountRow \cup {NoAccount}]
    BY <1>3 DEF HostInv, TypeOK, UpdateTarget
<1>5. EndRequest(r) /\ UNCHANGED <<server, host, dial, rev, started, rekeys, collected>>
    BY DEF UpdateTarget
<1>6. HostPins' /\ host' \in [Hosts -> Row \cup {NoHost}] /\ rev' \in 0 .. MaxRev
    BY <1>5, PinsStay DEF HostInv, TypeOK
<1>. QED
    BY <1>4, <1>5, <1>6, StepEnds

LEMMA AbandonKeeps ==
    ASSUME HostInv, NEW r \in Requests, Abandon(r)
    PROVE  HostInv'
<1>1. EndRequest(r) /\ UNCHANGED <<server, host, acct, dial, rev, started, rekeys, collected>>
    BY DEF Abandon
<1>2. /\ HostPins' /\ host' \in [Hosts -> Row \cup {NoHost}] /\ rev' \in 0 .. MaxRev
      /\ acct' \in [Accounts -> AccountRow \cup {NoAccount}]
    BY <1>1, PinsStay DEF HostInv, TypeOK
<1>. QED
    BY <1>1, <1>2, StepEnds

LEMMA ProbeKeeps ==
    ASSUME HostInv, NEW r \in Requests, ProbeForUpdate(r)
    PROVE  HostInv'
<1>. DEFINE q == req[r]
<1>1. q \in UpdateReq /\ q.next \in Row
    BY UpdateCarries DEF ProbeForUpdate
<1>2. q.next.ep \in Endpoints
    BY <1>1 DEF Row
<1>3. PICK k \in Collect(q.next.ep) :
          /\ req' = [req EXCEPT ![r] = IF k = NoKey THEN IdleReq
                                       ELSE [@ EXCEPT !.pc = "update", !.next.pin = k]]
          /\ Learn(q.next.ep, k)
    BY DEF ProbeForUpdate
<1>4. k \in Keys \cup {NoKey}
    BY <1>2, CollectType DEF HostInv
<1>5. /\ collected \subseteq collected' /\ collected' \subseteq Endpoints \X Keys
      /\ k # NoKey => <<q.next.ep, k>> \in collected'
    BY <1>2, <1>3, <1>4, LearnAdds DEF HostInv
<1>6. /\ UNCHANGED <<server, host, acct, dial, rev, started, rekeys>>
      /\ started' \in 0 .. MaxStarted
    BY DEF ProbeForUpdate, HostInv, TypeOK
<1>7. CASE k = NoKey
    <2>1. req' = [req EXCEPT ![r] = IdleReq] /\ IdleReq \in Reqs
        BY <1>3, <1>7 DEF Reqs
    <2>2. IdleReq.pc = "idle"
        BY DEF IdleReq
    <2>. QED
        BY <1>5, <1>6, <2>1, <2>2, RequestMoves
<1>8. CASE k # NoKey
    <2>. DEFINE row == [q.next EXCEPT !.pin = k]
                next == [q EXCEPT !.pc = "update", !.next = row]
    <2>1. row \in Row /\ row.pin = k /\ row.ep = q.next.ep
        BY <1>1, <1>4 DEF Row
    <2>2. req' = [req EXCEPT ![r] = next]
        BY <1>1, <1>3, <1>8 DEF HostInv, TypeOK, UpdateReq
    <2>. HIDE DEF row, q
    <2>3. next \in UpdateReq /\ next.pc = "update" /\ next.next = row
        BY <1>1, <2>1 DEF UpdateReq
    <2>4. next \in Reqs
        BY <2>3 DEF Reqs
    <2>5. <<next.next.ep, next.next.pin>> \in collected'
        <3>. HIDE DEF next
        <3>. QED
            BY <1>5, <1>8, <2>1, <2>3
    <2>. HIDE DEF next
    <2>. QED
        BY <1>5, <1>6, <2>2, <2>3, <2>4, <2>5, RequestMoves
<1>. QED
    BY <1>7, <1>8

LEMMA ConfirmKeeps ==
    ASSUME HostInv, NEW r \in Requests, CollectForConfirm(r)
    PROVE  HostInv'
<1>. DEFINE q == req[r]
<1>1. q \in ConfirmReq /\ q.read \in Row /\ q.key \in Keys
    BY ConfirmCarries DEF CollectForConfirm
<1>2. q.read.ep \in Endpoints
    BY <1>1 DEF Row
<1>3. PICK k \in Collect(q.read.ep) :
          /\ req' = [req EXCEPT ![r] = IF k = q.key THEN [@ EXCEPT !.pc = "refresh"] ELSE IdleReq]
          /\ Learn(q.read.ep, k)
    BY DEF CollectForConfirm
<1>4. k \in Keys \cup {NoKey}
    BY <1>2, CollectType DEF HostInv
<1>5. /\ collected \subseteq collected' /\ collected' \subseteq Endpoints \X Keys
      /\ k # NoKey => <<q.read.ep, k>> \in collected'
    BY <1>2, <1>3, <1>4, LearnAdds DEF HostInv
<1>6. /\ UNCHANGED <<server, host, acct, dial, rev, started, rekeys>>
      /\ started' \in 0 .. MaxStarted
    BY DEF CollectForConfirm, HostInv, TypeOK
<1>7. CASE k # q.key
    <2>1. req' = [req EXCEPT ![r] = IdleReq] /\ IdleReq \in Reqs
        BY <1>3, <1>7 DEF Reqs
    <2>2. IdleReq.pc = "idle"
        BY DEF IdleReq
    <2>. QED
        BY <1>5, <1>6, <2>1, <2>2, RequestMoves
<1>8. CASE k = q.key
    <2>. DEFINE next == [q EXCEPT !.pc = "refresh"]
    <2>1. q.read.live
        BY DEF HostInv, RequestPins, CollectForConfirm
    <2>2. req' = [req EXCEPT ![r] = next]
        BY <1>1, <1>3, <1>8 DEF HostInv, TypeOK
    <2>3. k # NoKey
        BY <1>1, <1>8, HostInventoryAssumption
    <2>. HIDE DEF q
    <2>4. next \in ConfirmReq /\ next.pc = "refresh" /\ next.read = q.read /\ next.key = q.key
        BY <1>1 DEF ConfirmReq
    <2>5. next \in Reqs
        BY <2>4 DEF Reqs
    <2>. HIDE DEF next
    <2>6. <<next.read.ep, next.key>> \in collected' /\ next.read.live
        BY <1>5, <1>8, <2>1, <2>3, <2>4
    <2>. QED
        BY <1>5, <1>6, <2>2, <2>4, <2>5, <2>6, RequestMoves
<1>. QED
    BY <1>7, <1>8

(* Every step of a management request.                                     *)
LEMMA HostStepKeeps ==
    ASSUME HostInv, NEW r \in Requests, HostStep(r)
    PROVE  HostInv'
BY BeginKeeps, CreateKeeps, ProbeKeeps, UpdateKeeps, ConfirmKeeps, RefreshKeeps, DeleteKeeps,
   UpdateTargetKeeps, AbandonKeeps DEF HostStep

-----------------------------------------------------------------------------
(* One connection moves on; the others keep what they hold.                *)
LEMMA DialMoves ==
    ASSUME HostInv, NEW d \in Dialers, NEW next \in {IdleDial} \cup DialState, DialPin(next),
           dial' = [dial EXCEPT ![d] = next], UNCHANGED collected
    PROVE  DialPins' /\ dial' \in [Dialers -> {IdleDial} \cup DialState]
<1>1. dial' \in [Dialers -> {IdleDial} \cup DialState]
    BY DEF HostInv, TypeOK
<1>2. dial'[d] = next /\ \A x \in Dialers \ {d} : dial'[x] = dial[x]
    BY DEF HostInv, TypeOK
<1>3. DialPins'
    BY <1>2 DEF HostInv, DialPins, DialPin, Known
<1>. QED
    BY <1>1, <1>3

(* The same, when the rest of the state stays.                             *)
LEMMA DialStepEnds ==
    ASSUME HostInv, NEW d \in Dialers, NEW next \in {IdleDial} \cup DialState, DialPin(next),
           dial' = [dial EXCEPT ![d] = next],
           UNCHANGED <<server, host, acct, req, rev, started, rekeys, collected>>
    PROVE  HostInv'
<1>1. DialPins' /\ dial' \in [Dialers -> {IdleDial} \cup DialState]
    BY DialMoves
<1>2. TypeOK'
    BY <1>1 DEF HostInv, TypeOK
<1>3. HostPins' /\ RequestPins'
    BY PinsStay DEF HostInv, RequestPins, Known
<1>. QED
    BY <1>1, <1>2, <1>3 DEF HostInv

LEMMA IdleDialPin == IdleDial \in {IdleDial} \cup DialState /\ DialPin(IdleDial)
BY DEF DialPin, IdleDial

(* What an account resolves to.                                            *)
LEMMA TargetConfigPins ==
    ASSUME HostInv, NEW a \in Accounts, ActiveAccount(a)
    PROVE  TargetConfig(a) \in DialState /\ DialPin(TargetConfig(a))
<1>. DEFINE h == acct[a].host
            pin == EffectiveHostIdentity(a)
<1>1. acct[a] \in AccountRow /\ h \in Hosts /\ host[h] \in Row
    BY ActiveNamesHost DEF HostInv
<1>2. host[h].pin \in Keys \cup {NoKey} /\ acct[a].pin \in Keys \cup {NoKey}
    BY <1>1 DEF Row, AccountRow
<1>3. pin \in Keys \cup {NoKey} /\ (host[h].pin # NoKey => pin = host[h].pin)
    BY <1>2 DEF EffectiveHostIdentity
<1>4. Known(host[h].ep, host[h].pin)
    BY <1>1 DEF HostInv, HostPins
<1>5. TargetConfig(a) = [pc |-> "resolved", host |-> h, read |-> host[h], pin |-> pin,
                         legacy |-> host[h].pin = NoKey, key |-> NoKey]
    BY DEF TargetConfig
<1>. HIDE DEF h, pin
<1>6. TargetConfig(a) \in DialState
    BY <1>1, <1>3, <1>5 DEF DialState
<1>7. DialPin(TargetConfig(a))
    <2>. DEFINE t == TargetConfig(a)
    <2>1. t.pc = "resolved" /\ t.read = host[h] /\ t.pin = pin
        BY <1>5
    <2>2. t.legacy <=> host[h].pin = NoKey
        <3>. DEFINE none == host[h].pin = NoKey
        <3>1. t = [pc |-> "resolved", host |-> h, read |-> host[h], pin |-> pin, legacy |-> none,
                   key |-> NoKey]
            BY <1>5
        <3>. HIDE DEF t, none
        <3>2. t.legacy = none
            BY <3>1
        <3>. QED
            BY <3>2 DEF none
    <2>. HIDE DEF t
    <2>3. DialPin(t)
        BY <1>3, <1>4, <2>1, <2>2 DEF DialPin
    <2>. QED
        BY <2>3 DEF t
<1>. QED
    BY <1>6, <1>7

LEMMA ResolveKeeps ==
    ASSUME HostInv, NEW d \in Dialers, NEW c \in DialState, DialPin(c), Resolve(d, c)
    PROVE  HostInv'
BY DialStepEnds DEF Resolve

LEMMA TestKeeps ==
    ASSUME HostInv, NEW d \in Dialers, NEW a \in Accounts, NEW h \in Hosts,
           ResolveConnectionTest(d, a, h)
    PROVE  HostInv'
<1>1. CASE ActiveAccount(a) /\ Resolve(d, TargetConfig(a))
    BY <1>1, TargetConfigPins, ResolveKeeps
<1>2. CASE Resolve(d, [pc |-> "resolved", host |-> h, read |-> host[h], pin |-> host[h].pin,
                       legacy |-> FALSE, key |-> NoKey])
    <2>. DEFINE c == [pc |-> "resolved", host |-> h, read |-> host[h], pin |-> host[h].pin,
                      legacy |-> FALSE, key |-> NoKey]
    <2>1. host[h] \in Row
        BY LiveIsRow DEF HostInv, ResolveConnectionTest
    <2>2. host[h].pin \in Keys \cup {NoKey}
        BY <2>1 DEF Row
    <2>3. c \in DialState
        BY <2>1, <2>2 DEF DialState
    <2>4. DialPin(c)
        BY DEF DialPin, HostInv, HostPins
    <2>5. Resolve(d, c)
        BY <1>2
    <2>. HIDE DEF c
    <2>. QED
        BY <2>3, <2>4, <2>5, ResolveKeeps
<1>. QED
    BY <1>1, <1>2 DEF ResolveConnectionTest

LEMMA HandshakeKeeps ==
    ASSUME HostInv, NEW d \in Dialers, Handshake(d)
    PROVE  HostInv'
<1>. DEFINE c == dial[d]
            k == server[c.read.ep]
<1>1. c \in DialState /\ c.pc = "resolved"
    BY DEF HostInv, TypeOK, Handshake, IdleDial
<1>2. c.read \in Row /\ c.pin \in Keys \cup {NoKey}
    BY <1>1 DEF DialState
<1>3. k \in Keys \cup {NoKey}
    <2>1. c.read.ep \in Endpoints
        BY <1>2 DEF Row
    <2>. QED
        BY <2>1 DEF HostInv, TypeOK
<1>4. DialPin(c)
    BY DEF HostInv, DialPins
<1>5. UNCHANGED <<server, host, acct, req, rev, started, rekeys, collected>>
    BY DEF Handshake
<1>6. dial' = [dial EXCEPT ![d] =
                  IF c.pin = NoKey \/ k = NoKey THEN IdleDial
                  ELSE IF k = c.pin THEN [c EXCEPT !.pc = "connected", !.key = k]
                  ELSE [c EXCEPT !.pc = "changed", !.key = k]]
    BY DEF Handshake, HostInv, TypeOK
<1>. HIDE DEF c, k
<1>7. CASE c.pin = NoKey \/ k = NoKey
    <2>1. dial' = [dial EXCEPT ![d] = IdleDial]
        BY <1>6, <1>7
    <2>. QED
        BY <1>5, <2>1, IdleDialPin, DialStepEnds
<1>8. CASE c.pin # NoKey /\ k # NoKey /\ k = c.pin
    <2>. DEFINE next == [c EXCEPT !.pc = "connected", !.key = k]
    <2>1. dial' = [dial EXCEPT ![d] = next]
        BY <1>6, <1>8
    <2>2. next \in DialState
        BY <1>1, <1>3 DEF DialState
    <2>3. next.pc = "connected" /\ next.key = k /\ next.pin = c.pin /\ next.read = c.read
          /\ next.legacy = c.legacy
        BY <1>1 DEF DialState
    <2>. HIDE DEF next
    <2>4. DialPin(next)
        BY <1>1, <1>4, <1>8, <2>3 DEF DialPin
    <2>. QED
        BY <1>5, <2>1, <2>2, <2>4, DialStepEnds
<1>9. CASE c.pin # NoKey /\ k # NoKey /\ k # c.pin
    <2>. DEFINE next == [c EXCEPT !.pc = "changed", !.key = k]
    <2>1. dial' = [dial EXCEPT ![d] = next]
        BY <1>6, <1>9
    <2>2. next \in DialState
        BY <1>1, <1>3 DEF DialState
    <2>3. next.pc = "changed" /\ next.key = k /\ next.read = c.read
        BY <1>1 DEF DialState
    <2>. HIDE DEF next
    <2>4. DialPin(next)
        BY <1>1, <1>4, <1>9, <2>3 DEF DialPin, DialState
    <2>. QED
        BY <1>5, <2>1, <2>2, <2>4, DialStepEnds
<1>. QED
    BY <1>7, <1>8, <1>9

(* A report of a changed key, whether it disables the host or not.         *)
LEMMA ReportKeeps ==
    ASSUME HostInv, NEW d \in Dialers, DisableHostForKeyChange(d)
    PROVE  HostInv'
<1>1. /\ dial' = [dial EXCEPT ![d] = IdleDial]
      /\ UNCHANGED <<server, acct, req, started, rekeys, collected>>
    BY DEF DisableHostForKeyChange
<1>2. DialPins' /\ dial' \in [Dialers -> {IdleDial} \cup DialState]
    BY <1>1, IdleDialPin, DialMoves
<1>3. RequestPins'
    BY <1>1 DEF HostInv, RequestPins, Known
<1>4. ASSUME host' \in [Hosts -> Row \cup {NoHost}], rev' \in 0 .. MaxRev, HostPins'
      PROVE  HostInv'
    BY <1>1, <1>2, <1>3, <1>4 DEF HostInv, TypeOK
<1>5. CASE UNCHANGED <<host, rev>>
    BY <1>1, <1>4, <1>5, PinsStay DEF HostInv, TypeOK
<1>. DEFINE h == dial[d].host
            row == [host[h] EXCEPT !.status = "disabled"]
<1>6. CASE host[h] = dial[d].read /\ WriteHost(h, row)
    <2>1. dial[d] \in DialState
        BY DEF HostInv, TypeOK, DisableHostForKeyChange, IdleDial
    <2>2. h \in Hosts /\ host[h] \in Row
        BY <1>6, <2>1 DEF DialState
    <2>3. row \in Row /\ row.ep = host[h].ep /\ row.pin = host[h].pin
        BY <2>2 DEF Row
    <2>4. Known(host[h].ep, host[h].pin)
        BY <2>2 DEF HostInv, HostPins
    <2>. HIDE DEF row, h
    <2>5. host' \in [Hosts -> Row \cup {NoHost}] /\ rev' \in 0 .. MaxRev /\ HostPins'
        BY <1>1, <1>6, <2>2, <2>3, <2>4, WriteKeeps DEF HostInv
    <2>. QED
        BY <1>4, <2>5
<1>. QED
    BY <1>5, <1>6 DEF DisableHostForKeyChange

LEMMA DialStepKeeps ==
    ASSUME HostInv, NEW d \in Dialers, DialStep(d)
    PROVE  HostInv'
<1>1. CASE \E a \in Accounts : DefaultTarget(d, a) \/ ResolveWebTerminalTarget(d, a)
    BY <1>1, TargetConfigPins, ResolveKeeps DEF DefaultTarget, ResolveWebTerminalTarget
<1>2. CASE Hangup(d)
    BY <1>2, IdleDialPin, DialStepEnds DEF Hangup
<1>. QED
    BY <1>1, <1>2, TestKeeps, HandshakeKeeps, ReportKeeps DEF DialStep

-----------------------------------------------------------------------------
(* A step of the account endpoints: the accounts, and a row made up from   *)
(* the address, may be written, and something may be learned.              *)
LEMMA TargetEnds ==
    ASSUME HostInv, Count, acct' \in [Accounts -> AccountRow \cup {NoAccount}],
           host' \in [Hosts -> Row \cup {NoHost}], rev' \in 0 .. MaxRev, HostPins',
           collected \subseteq collected', collected' \subseteq Endpoints \X Keys,
           UNCHANGED <<server, req, dial, rekeys>>
    PROVE  HostInv'
<1>1. started' \in 0 .. MaxStarted
    BY HostInventoryAssumption DEF HostInv, TypeOK, Count
<1>2. TypeOK'
    BY <1>1 DEF HostInv, TypeOK
<1>3. RequestPins' /\ DialPins'
    BY DialsStay DEF HostInv, RequestPins, Known
<1>. QED
    BY <1>2, <1>3 DEF HostInv

LEMMA AddTargetKeeps ==
    ASSUME HostInv, Count, NEW a \in Accounts, NEW h \in Hosts, NEW e \in Endpoints,
           NEW k \in Keys \cup {NoKey}, AddTarget(a, h, e, k)
    PROVE  HostInv'
<1>1. UNCHANGED <<server, req, dial, rekeys, collected>>
    BY DEF AddTarget
<1>2. acct' \in [Accounts -> AccountRow \cup {NoAccount}]
    <2>1. [host |-> h, pin |-> k, status |-> "active", live |-> TRUE] \in AccountRow
        BY DEF AccountRow
    <2>. QED
        BY <2>1 DEF AddTarget, HostInv, TypeOK
<1>3. host' \in [Hosts -> Row \cup {NoHost}] /\ rev' \in 0 .. MaxRev /\ HostPins'
    <2>1. CASE host[h].live
        <3>1. Exists(h)
            BY <2>1 DEF Exists, NoHost
        <3>2. UNCHANGED <<host, rev>>
            BY <2>1, <3>1 DEF AddTarget
        <3>. QED
            BY <1>1, <3>2, PinsStay DEF HostInv, TypeOK
    <2>2. CASE ~host[h].live
        <3>. DEFINE row == [ep |-> e, proto |-> "ssh", status |-> "active", pin |-> NoKey,
                            rev |-> 0, live |-> TRUE]
        <3>1. WriteHost(h, row)
            BY <2>2 DEF AddTarget, LockTargetHost
        <3>2. 0 \in 0 .. MaxRev
            BY HostInventoryAssumption
        <3>3. row \in Row /\ row.pin = NoKey
            BY <3>2 DEF Row
        <3>. HIDE DEF row
        <3>4. Known(row.ep, row.pin)
            BY <3>3 DEF Known
        <3>. QED
            BY <1>1, <3>1, <3>3, <3>4, WriteKeeps DEF HostInv
    <2>. QED
        BY <2>1, <2>2
<1>4. collected \subseteq collected' /\ collected' \subseteq Endpoints \X Keys
    BY <1>1 DEF HostInv, TypeOK
<1>. QED
    BY <1>1, <1>2, <1>3, <1>4, TargetEnds

LEMMA TargetKeeps ==
    ASSUME HostInv, TargetRequest
    PROVE  HostInv'
<1>1. Count
    BY DEF TargetRequest
<1>2. CASE HandleTargets
    BY <1>1, <1>2, AddTargetKeeps DEF HandleTargets, CreateTarget
<1>3. ASSUME acct' \in [Accounts -> AccountRow \cup {NoAccount}],
             UNCHANGED <<server, host, req, dial, rev, rekeys, collected>>
      PROVE  HostInv'
    <2>1. host' \in [Hosts -> Row \cup {NoHost}] /\ rev' \in 0 .. MaxRev /\ HostPins'
        BY <1>3, PinsStay DEF HostInv, TypeOK
    <2>2. collected \subseteq collected' /\ collected' \subseteq Endpoints \X Keys
        BY <1>3 DEF HostInv, TypeOK
    <2>. QED
        BY <1>1, <1>3, <2>1, <2>2, TargetEnds
<1>4. ASSUME NEW a \in Accounts, DeleteTarget(a)
      PROVE  HostInv'
    <2>1. [acct[a] EXCEPT !.live = FALSE, !.status = "disabled"] \in AccountRow
        BY <1>4, AccountOff DEF HostInv, DeleteTarget
    <2>2. acct' \in [Accounts -> AccountRow \cup {NoAccount}]
        BY <1>4, <2>1 DEF DeleteTarget, HostInv, TypeOK
    <2>. QED
        BY <1>3, <1>4, <2>2 DEF DeleteTarget
<1>5. ASSUME NEW a \in Accounts, ObserveUnavailableHostIdentity(a)
      PROVE  HostInv'
    <2>. DEFINE e == host[acct[a].host].ep
    <2>1. e \in Endpoints
        BY <1>5, ActiveNamesHost DEF HostInv, ObserveUnavailableHostIdentity, Row
    <2>2. PICK k \in Collect(e) : Learn(e, k)
        BY <1>5 DEF ObserveUnavailableHostIdentity
    <2>. HIDE DEF e
    <2>3. k \in Keys \cup {NoKey}
        BY <2>1, CollectType DEF HostInv
    <2>4. collected \subseteq collected' /\ collected' \subseteq Endpoints \X Keys
        BY <2>1, <2>2, <2>3, LearnAdds DEF HostInv
    <2>5. UNCHANGED <<server, host, acct, req, dial, rev, rekeys>>
        BY <1>5 DEF ObserveUnavailableHostIdentity
    <2>6. /\ acct' \in [Accounts -> AccountRow \cup {NoAccount}]
          /\ host' \in [Hosts -> Row \cup {NoHost}] /\ rev' \in 0 .. MaxRev /\ HostPins'
        BY <2>4, <2>5, PinsStay DEF HostInv, TypeOK
    <2>. QED
        BY <1>1, <2>4, <2>5, <2>6, TargetEnds
<1>. QED
    BY <1>2, <1>4, <1>5 DEF TargetRequest, HandleTarget

LEMMA RekeyKeeps ==
    ASSUME HostInv, NEW e \in Endpoints, NEW k \in Keys \cup {NoKey}, Rekey(e, k)
    PROVE  HostInv'
<1>1. rekeys' \in 0 .. MaxRekeys
    BY HostInventoryAssumption DEF Rekey, HostInv, TypeOK
<1>2. UNCHANGED <<host, acct, req, dial, rev, started, collected>>
    BY DEF Rekey
<1>3. TypeOK'
    BY <1>1, <1>2 DEF Rekey, HostInv, TypeOK
<1>4. HostPins' /\ RequestPins' /\ DialPins'
    BY <1>2, PinsStay, DialsStay DEF HostInv, RequestPins, Known
<1>. QED
    BY <1>3, <1>4 DEF HostInv

LEMMA HostInvInit == Init => HostInv
<1>. SUFFICES ASSUME Init PROVE HostInv
    OBVIOUS
<1>1. PICK h \in Hosts, e \in Endpoints, a \in Accounts :
          \E hosts \in SUBSET {h}, accts \in SUBSET {a} :
          /\ hosts = {} => accts = {}
          /\ host = [x \in Hosts |-> IF x \in hosts
                        THEN [ep |-> e, proto |-> "ssh", status |-> "active", pin |-> server[e],
                              rev |-> 0, live |-> TRUE]
                        ELSE NoHost]
          /\ acct = [x \in Accounts |-> IF x \in accts
                        THEN [host |-> h, pin |-> NoKey, status |-> "active", live |-> TRUE]
                        ELSE NoAccount]
          /\ collected = IF hosts = {} THEN {} ELSE {<<e, server[e]>>}
    BY DEF Init
<1>2. PICK hosts \in SUBSET {h}, accts \in SUBSET {a} :
          /\ hosts = {} => accts = {}
          /\ host = [x \in Hosts |-> IF x \in hosts
                        THEN [ep |-> e, proto |-> "ssh", status |-> "active", pin |-> server[e],
                              rev |-> 0, live |-> TRUE]
                        ELSE NoHost]
          /\ acct = [x \in Accounts |-> IF x \in accts
                        THEN [host |-> h, pin |-> NoKey, status |-> "active", live |-> TRUE]
                        ELSE NoAccount]
          /\ collected = IF hosts = {} THEN {} ELSE {<<e, server[e]>>}
    BY <1>1
<1>. DEFINE row == [ep |-> e, proto |-> "ssh", status |-> "active", pin |-> server[e], rev |-> 0,
                    live |-> TRUE]
            account == [host |-> h, pin |-> NoKey, status |-> "active", live |-> TRUE]
<1>3. server \in [Endpoints -> Keys] /\ server[e] \in Keys
    BY DEF Init
<1>4. 0 \in 0 .. MaxRev /\ 0 \in 0 .. MaxStarted /\ 0 \in 0 .. MaxRekeys
    BY HostInventoryAssumption
<1>5. row \in Row /\ row.ep = e /\ row.pin = server[e] /\ account \in AccountRow
    BY <1>3, <1>4 DEF Row, AccountRow
<1>6. /\ host = [x \in Hosts |-> IF x \in hosts THEN row ELSE NoHost]
      /\ acct = [x \in Accounts |-> IF x \in accts THEN account ELSE NoAccount]
    BY <1>2
<1>7. NoHost.pin = NoKey
    BY DEF NoHost
<1>. HIDE DEF row, account
<1>8. host \in [Hosts -> Row \cup {NoHost}] /\ acct \in [Accounts -> AccountRow \cup {NoAccount}]
    BY <1>5, <1>6
<1>9. collected \subseteq Endpoints \X Keys
    BY <1>2, <1>3
<1>10. TypeOK
    BY <1>3, <1>4, <1>8, <1>9 DEF Init, TypeOK
<1>11. HostPins
    BY <1>2, <1>5, <1>6, <1>7 DEF HostPins, Known
<1>12. RequestPins /\ DialPins
    BY DEF Init, RequestPins, DialPins, DialPin, IdleReq, IdleDial
<1>. QED
    BY <1>10, <1>11, <1>12 DEF HostInv

LEMMA HostInvNext == HostInv /\ [Next]_vars => HostInv'
<1>. SUFFICES ASSUME HostInv, [Next]_vars PROVE HostInv'
    OBVIOUS
<1>1. CASE UNCHANGED vars
    BY <1>1 DEF vars, HostInv, TypeOK, HostPins, RequestPins, DialPins, DialPin, Known
<1>. QED
    BY <1>1, HostStepKeeps, DialStepKeeps, TargetKeeps, RekeyKeeps DEF Next

LEMMA HostInvAlways == Spec => []HostInv
BY HostInvInit, HostInvNext, PTL DEF Spec

(* Every variable of the host inventory keeps its type: a request that     *)
(* waits holds complete rows, whatever was written meanwhile.              *)
THEOREM HostsTypeCorrect == Spec => []TypeOK
<1>1. HostInv => TypeOK
    BY DEF HostInv
<1>. QED
    BY <1>1, HostInvAlways, PTL

(* The pinned key of a live host was presented by a server at the endpoint *)
(* the row has now, and no connection is accepted with a key that nobody   *)
(* pinned: there is no trust on first use, whatever requests overlap.      *)
THEOREM HostKeysCorrect == Spec => []HostKeyTrusted
<1>1. ASSUME HostInv
      PROVE  HostKeyTrusted
    <2>1. PinWasCollectedHere
        BY <1>1 DEF HostInv, HostPins, Known, PinWasCollectedHere
    <2>2. OnlyKnownKeyAccepted
        BY <1>1 DEF HostInv, DialPins, DialPin, Known, OnlyKnownKeyAccepted
    <2>. QED
        BY <2>1, <2>2 DEF HostKeyTrusted
<1>. QED
    BY <1>1, HostInvAlways, PTL

-----------------------------------------------------------------------------
(* One step leaves every deleted host deleted.                             *)
TombstonesStay == \A h \in Hosts : Exists(h) /\ ~host[h].live => ~host'[h].live

(* A write of a row that is live only where the host is or never was.      *)
LEMMA WriteTombstone ==
    ASSUME HostInv, NEW h \in Hosts, NEW row \in Row,
           row.live => host[h].live \/ ~Exists(h), WriteHost(h, row)
    PROVE  TombstonesStay
<1>1. host' = [host EXCEPT ![h] = [row EXCEPT !.rev = rev + 1]]
    BY DEF WriteHost
<1>2. [row EXCEPT !.rev = rev + 1].live = row.live
    BY DEF Row
<1>3. host'[h].live = row.live /\ \A x \in Hosts \ {h} : host'[x] = host[x]
    BY <1>1, <1>2 DEF HostInv, TypeOK
<1>. QED
    BY <1>3 DEF TombstonesStay

LEMMA HostStepTombstone ==
    ASSUME HostInv, NEW r \in Requests, HostStep(r)
    PROVE  TombstonesStay
<1>1. CASE UNCHANGED host
    BY <1>1 DEF TombstonesStay
<1>2. CASE BeginRequest(r) \/ ProbeForUpdate(r) \/ CollectForConfirm(r) \/ UpdateTarget(r)
           \/ Abandon(r)
    BY <1>1, <1>2 DEF BeginRequest, HandleHosts, HandleHost, HandleRefreshHostIdentity,
       HandleUpdateTarget, BeginCreateHost, BeginUpdateHost, BeginDeleteHost, ConfirmHostIdentity,
       BeginUpdateTarget, ProbeForUpdate, CollectForConfirm, UpdateTarget, Abandon
<1>3. CASE CreateManagedHost(r)
    <2>1. req[r] \in CreateReq
        BY <1>3 DEF HostInv, TypeOK, CreateManagedHost, IdleReq, UpdateReq, ConfirmReq, DeleteReq,
           TargetReq
    <2>2. req[r].host \in Hosts /\ req[r].next \in Row
        BY <2>1 DEF CreateReq
    <2>. QED
        BY <1>1, <1>3, <2>2, WriteTombstone DEF CreateManagedHost
<1>4. CASE UpdateHost(r)
    <2>1. req[r].host \in Hosts /\ req[r].next \in Row
        BY <1>4, UpdateCarries DEF UpdateHost
    <2>. QED
        BY <1>1, <1>4, <2>1, WriteTombstone DEF UpdateHost
<1>5. CASE RefreshHostIdentity(r)
    <2>. DEFINE row == [req[r].read EXCEPT !.pin = req[r].key, !.status = "active"]
    <2>1. req[r].host \in Hosts /\ req[r].read \in Row /\ req[r].key \in Keys
        BY <1>5, ConfirmCarries DEF RefreshHostIdentity
    <2>2. row \in Row
        BY <2>1 DEF Row
    <2>3. req[r].read.live
        BY <1>5 DEF HostInv, RequestPins, RefreshHostIdentity
    <2>4. \/ host[req[r].host].live /\ WriteHost(req[r].host, row)
          \/ UNCHANGED host
        BY <1>5, <2>3 DEF RefreshHostIdentity
    <2>. HIDE DEF row
    <2>. QED
        BY <1>1, <2>1, <2>2, <2>4, WriteTombstone
<1>6. CASE DeleteHost(r)
    <2>1. req[r].pc = "deleteHost"
        BY <1>6 DEF DeleteHost
    <2>2. req[r] \in DeleteReq
        BY <2>1 DEF HostInv, TypeOK, IdleReq, UpdateReq, ConfirmReq, CreateReq, TargetReq
    <2>. DEFINE h == req[r].host
                row == [host[h] EXCEPT !.live = FALSE, !.status = "disabled"]
    <2>3. h \in Hosts
        BY <2>2 DEF DeleteReq
    <2>4. CASE host[h].live
        <3>1. host[h] \in Row
            BY <2>3, <2>4, LiveIsRow DEF HostInv
        <3>2. row \in Row
            BY <3>1 DEF Row
        <3>3. WriteHost(h, row)
            BY <1>6, <2>4 DEF DeleteHost
        <3>. HIDE DEF row, h
        <3>. QED
            BY <2>3, <2>4, <3>2, <3>3, WriteTombstone
    <2>5. CASE ~host[h].live
        BY <1>1, <1>6, <2>5 DEF DeleteHost
    <2>. QED
        BY <2>4, <2>5
<1>. QED
    BY <1>2, <1>3, <1>4, <1>5, <1>6 DEF HostStep

LEMMA DialStepTombstone ==
    ASSUME HostInv, NEW d \in Dialers, DialStep(d)
    PROVE  TombstonesStay
<1>1. CASE UNCHANGED host
    BY <1>1 DEF TombstonesStay
<1>2. CASE ~DisableHostForKeyChange(d)
    BY <1>1, <1>2 DEF DialStep, DefaultTarget, ResolveWebTerminalTarget, ResolveConnectionTest,
       Resolve, Handshake, Hangup
<1>3. CASE DisableHostForKeyChange(d)
    <2>. DEFINE h == dial[d].host
                row == [host[h] EXCEPT !.status = "disabled"]
    <2>1. dial[d] \in DialState
        BY <1>3 DEF HostInv, TypeOK, DisableHostForKeyChange, IdleDial
    <2>2. h \in Hosts /\ dial[d].read \in Row
        BY <2>1 DEF DialState
    <2>3. UNCHANGED host \/ (host[h] \in Row /\ WriteHost(h, row))
        BY <1>3, <2>2 DEF DisableHostForKeyChange
    <2>4. CASE host[h] \in Row /\ WriteHost(h, row)
        <3>1. row \in Row /\ row.live = host[h].live
            BY <2>4 DEF Row
        <3>. HIDE DEF row, h
        <3>. QED
            BY <2>2, <2>4, <3>1, WriteTombstone
    <2>. QED
        BY <1>1, <2>3, <2>4
<1>. QED
    BY <1>2, <1>3

LEMMA TargetTombstone ==
    ASSUME HostInv, TargetRequest
    PROVE  TombstonesStay
<1>1. CASE UNCHANGED host
    BY <1>1 DEF TombstonesStay
<1>2. ASSUME NEW a \in Accounts, NEW h \in Hosts, NEW e \in Endpoints,
             NEW k \in Keys \cup {NoKey}, AddTarget(a, h, e, k)
      PROVE  TombstonesStay
    <2>1. CASE host[h].live
        BY <1>1, <1>2, <2>1 DEF AddTarget, Exists, NoHost
    <2>2. CASE ~host[h].live
        <3>. DEFINE row == [ep |-> e, proto |-> "ssh", status |-> "active", pin |-> NoKey,
                            rev |-> 0, live |-> TRUE]
        <3>1. WriteHost(h, row) /\ ~Exists(h)
            BY <1>2, <2>2 DEF AddTarget, LockTargetHost
        <3>2. row \in Row
            BY HostInventoryAssumption DEF Row
        <3>. HIDE DEF row
        <3>. QED
            BY <3>1, <3>2, WriteTombstone
    <2>. QED
        BY <2>1, <2>2
<1>. QED
    BY <1>1, <1>2 DEF TargetRequest, HandleTargets, HandleTarget, CreateTarget, DeleteTarget,
       ObserveUnavailableHostIdentity

LEMMA TombstoneNext == HostInv /\ [Next]_vars => TombstonesStay
BY HostStepTombstone, DialStepTombstone, TargetTombstone DEF Next, Rekey, vars, TombstonesStay

(* A connection that reported a changed key and wrote: what it saw then.   *)
ReportsHitTheirPin ==
    \A d \in Dialers :
        (dial[d].pc = "changed" /\ dial'[d].pc = "idle" /\ host' # host) =>
            host[dial[d].host].pin # dial[d].key /\ host[dial[d].host].ep = dial[d].read.ep

LEMMA ReportNext == HostInv /\ [Next]_vars => ReportsHitTheirPin
<1>. SUFFICES ASSUME HostInv, [Next]_vars PROVE ReportsHitTheirPin
    OBVIOUS
<1>1. CASE UNCHANGED dial
    BY <1>1 DEF ReportsHitTheirPin
<1>2. ASSUME NEW r \in Requests, HostStep(r)
      PROVE  UNCHANGED dial
    BY <1>2 DEF HostStep, BeginRequest, HandleHosts, HandleHost, HandleRefreshHostIdentity,
       HandleUpdateTarget, BeginCreateHost, BeginUpdateHost, BeginDeleteHost, ConfirmHostIdentity,
       BeginUpdateTarget, ProbeForUpdate, CollectForConfirm, UpdateTarget, Abandon,
       CreateManagedHost, UpdateHost, RefreshHostIdentity, DeleteHost
<1>3. ASSUME TargetRequest
      PROVE  UNCHANGED dial
    BY <1>3 DEF TargetRequest, HandleTargets, HandleTarget, CreateTarget, AddTarget, DeleteTarget,
       ObserveUnavailableHostIdentity
<1>4. ASSUME NEW d \in Dialers, DialStep(d)
      PROVE  ReportsHitTheirPin
    <2>1. CASE ~DisableHostForKeyChange(d)
        <3>1. UNCHANGED host
            BY <1>4, <2>1 DEF DialStep, DefaultTarget, ResolveWebTerminalTarget,
               ResolveConnectionTest, Resolve, Handshake, Hangup
        <3>. QED
            BY <3>1 DEF ReportsHitTheirPin
    <2>2. CASE DisableHostForKeyChange(d)
        <3>1. dial[d].pc = "changed" /\ dial' = [dial EXCEPT ![d] = IdleDial]
            BY <2>2 DEF DisableHostForKeyChange
        <3>2. \A x \in Dialers \ {d} : dial'[x] = dial[x]
            BY <3>1 DEF HostInv, TypeOK
        <3>3. host' # host => host[dial[d].host] = dial[d].read
            BY <2>2 DEF DisableHostForKeyChange
        <3>4. dial[d].key # dial[d].read.pin
            BY <3>1 DEF HostInv, DialPins, DialPin
        <3>. QED
            BY <3>2, <3>3, <3>4 DEF ReportsHitTheirPin
    <2>. QED
        BY <2>1, <2>2
<1>. QED
    BY <1>1, <1>2, <1>3, <1>4 DEF Next, Rekey, vars

(* A deleted host identifier stays deleted, whichever request was in the   *)
(* middle of an update, a confirmation or an account when it was deleted;  *)
(* and a report of a changed key, however late, disables a host only while *)
(* the row it read, with another pin, is the one in the table.             *)
THEOREM HostOrderCorrect == Spec => HostChangesInOrder
<1>1. HostInv /\ [Next]_vars => [\A h \in Hosts : Exists(h) /\ ~host[h].live => ~host'[h].live]_vars
    BY TombstoneNext DEF TombstonesStay
<1>2. HostInv /\ [Next]_vars =>
          [\A d \in Dialers :
              (dial[d].pc = "changed" /\ dial'[d].pc = "idle" /\ host' # host) =>
                  host[dial[d].host].pin # dial[d].key /\ host[dial[d].host].ep = dial[d].read.ep]_vars
    BY ReportNext DEF ReportsHitTheirPin
<1>. QED
    BY <1>1, <1>2, HostInvAlways, PTL
       DEF Spec, HostChangesInOrder, HostTombstoneStays, KeyChangeHitsItsPin
-----------------------------------------------------------------------------
(***************************************************************************)
(* Credentials.                                                            *)
(***************************************************************************)
TempRow == [status : {"none", "active", "disabled"}, exp : Nat, sid : Nat]
SessRow == [type : {"none", "permanent", "temporary"},
            status : {"none", "active", "disabled", "expired"}, exp : Nat]
GrantRow == [status : {"none", "active", "revoked"}, exp : Nat]
TokenRow == [status : {"none", "active", "revoked"}, pair : Nat, aexp : Nat, rexp : Nat]
CredOps == {"idle", "create", "extend", "rotate", "session", "password", "login"}
CredPCs == {"", "allocate", "insert", "read", "write", "result", "lookup", "lock", "authorize",
            "mark", "user", "password", "in"}
CredReq == [op : CredOps, pc : CredPCs, acct : Cred!TemporaryAccounts \cup {NoOne}, sid : Nat,
            pair : Nat, exp : Nat, at : Nat, next : Nat,
            key : {NoOne, "audited"} \cup UserAccounts \cup Passwords, tries : Nat]

CredTypes ==
    /\ now \in Nat /\ seq \in Nat /\ seq > 0 /\ secret \in Nat
    /\ tempAcct \in [Cred!TemporaryAccounts -> TempRow]
    /\ sess \in [1 .. MaxSeq -> SessRow]
    /\ grant \in [UserAccounts -> GrantRow]
    /\ pw \in [UserAccounts \cup Passwords -> GrantRow]
    /\ tok \in [AIAccounts -> TokenRow]
    /\ credReq \in [Procs -> CredReq]
    /\ exchanged \subseteq Nat \X Nat

(* A row of temporary_accounts, once written, names a temporary session of  *)
(* its own; numbers from seq on are unused.                                *)
Numbered ==
    /\ \A s \in 1 .. MaxSeq : s >= seq => sess[s].type = "none"
    /\ \A a \in Cred!TemporaryAccounts : tempAcct[a].status # "none" =>
        /\ tempAcct[a].sid \in 1 .. MaxSeq /\ tempAcct[a].sid < seq
        /\ sess[tempAcct[a].sid].type = "temporary"
        /\ \A b \in Cred!TemporaryAccounts :
              tempAcct[b].status # "none" /\ tempAcct[b].sid = tempAcct[a].sid => a = b

(* A row without a status was never written.                               *)
EmptyRows ==
    \A a \in Cred!TemporaryAccounts : tempAcct[a].status = "none" => tempAcct[a] = Cred!NoAccount

(* What a request carries fits the tables.                                 *)
CreateFits(p) ==
    credReq[p].op = "create" =>
        /\ credReq[p].acct \in Cred!TemporaryAccounts
        /\ tempAcct[credReq[p].acct].status = "none"
        /\ credReq[p].pc = "insert" =>
              /\ credReq[p].sid \in 1 .. MaxSeq /\ credReq[p].sid < seq
              /\ sess[credReq[p].sid].type = "none"

ExtendFits(p) ==
    credReq[p].op = "extend" =>
        /\ credReq[p].acct \in Cred!TemporaryAccounts
        /\ tempAcct[credReq[p].acct].status # "none"

(* The request between the lookup and the insert of a permanent session    *)
(* holds the user's row, and what it counted still holds.                  *)
SessionFits(p) ==
    Cred!At(p, "session", "insert") =>
        userLock = p /\ (credReq[p].tries = 0 => Cred!ActivePermanent = {})

(* A login about to mark a session found it expired.                       *)
LoginFits(p) ==
    credReq[p].op = "login" =>
        credReq[p].sid \in 1 .. MaxSeq /\ (credReq[p].pc = "mark" => credReq[p].exp < now)

(* The pair a rotation replaced is on no row any more and was exchanged by *)
(* nobody.                                                                 *)
Spent(s) == s \in 1 .. secret /\ \A a \in AIAccounts : tok[a].pair # s

RotateFits(p) ==
    credReq[p].op = "rotate" =>
        /\ credReq[p].acct \in AIAccounts
        /\ credReq[p].pc = "result" =>
              Spent(credReq[p].pair) /\ \A x \in exchanged : x[1] # credReq[p].pair

Fits(p) == CreateFits(p) /\ ExtendFits(p) /\ SessionFits(p) /\ LoginFits(p) /\ RotateFits(p)

(* Two requests never create the same account, insert the same session     *)
(* number or replace the same pair.                                        *)
Apart(p, q) ==
    /\ credReq[p].op = "create" /\ credReq[q].op = "create" =>
          /\ credReq[p].acct # credReq[q].acct
          /\ credReq[p].pc = "insert" /\ credReq[q].pc = "insert" =>
                credReq[p].sid # credReq[q].sid
    /\ Cred!At(p, "rotate", "result") /\ Cred!At(q, "rotate", "result") =>
          credReq[p].pair # credReq[q].pair

RequestsFit ==
    /\ \A p \in Procs : Fits(p)
    /\ \A p, q \in Procs : p # q => Apart(p, q)

Pairs ==
    /\ \A a \in AIAccounts :
          /\ tok[a].pair <= secret
          /\ tok[a].status = "active" => tok[a].pair > 0
          /\ \A b \in AIAccounts : tok[a].pair > 0 /\ tok[a].pair = tok[b].pair => a = b
    /\ \A x \in exchanged : Spent(x[1])
    /\ Cred!RefreshTokenUsedOnce

OnePermanent == \A s, t \in Cred!ActivePermanent : s = t

InStep ==
    \A a \in UserAccounts : tempAcct[a].status = "active" =>
        /\ grant[a].status = "active" /\ grant[a].exp = tempAcct[a].exp
        /\ pw[a].status = "active" /\ pw[a].exp = tempAcct[a].exp
        /\ sess[tempAcct[a].sid].exp = tempAcct[a].exp
        /\ \/ sess[tempAcct[a].sid].status = "active"
           \/ tempAcct[a].exp <= now
           \/ tempAcct[a].sid \in overtaken

CredInv == /\ CredTypes /\ EmptyRows /\ Numbered /\ RequestsFit /\ Pairs /\ OnePermanent
           /\ Cred!DisabledAccessIsDead /\ InStep
-----------------------------------------------------------------------------
(* A set of naturals with a bound has a largest element.                   *)
LEMMA LeastNat ==
    ASSUME NEW B \in SUBSET Nat, B # {}
    PROVE  \E n \in B : \A m \in B : n <= m
<1>. DEFINE R == OpToRel(<, Nat)
<1>1. IsWellFoundedOn(R, Nat)
    BY NatLessThanWellFounded
<1>2. \A x, y \in Nat : x < y => <<x, y>> \in R
    BY DEF OpToRel
<1>. HIDE DEF R
<1>3. PICK n \in B : \A m \in B : ~(<<m, n>> \in R)
    BY <1>1, WFMin
<1>4. ASSUME NEW m \in B PROVE n <= m
    <2>1. n \in Nat /\ m \in Nat
        OBVIOUS
    <2>2. ~(m < n)
        BY <2>1, <1>2, <1>3, Zenon
    <2>. QED
        BY <2>1, <2>2
<1>. QED
    BY <1>4

LEMMA LargestNat ==
    ASSUME NEW S \in SUBSET Nat, S # {}, NEW b \in Nat, \A s \in S : s <= b
    PROVE  \E m \in S : \A s \in S : s <= m
<1>. DEFINE B == {n \in Nat : \A s \in S : s <= n}
<1>1. PICK m \in B : \A k \in B : m <= k
    BY LeastNat
<1>2. CASE m \in S
    BY <1>2
<1>3. CASE m \notin S
    <2>1. PICK s \in S : TRUE
        OBVIOUS
    <2>2. s < m
        BY <2>1, <1>3
    <2>3. m - 1 \in Nat /\ \A t \in S : t <= m - 1
        BY <2>2, <1>3
    <2>4. m - 1 \in B
        BY <2>3
    <2>. QED
        BY <2>4, <1>1
<1>. QED
    BY <1>2, <1>3

(* The number handed out next was never used.                              *)
LEMMA NextNumber ==
    ASSUME CredTypes
    PROVE  Cred!NextSequenceValue \in Nat /\ Cred!NextSequenceValue >= seq
<1>. DEFINE used == {s \in 1 .. MaxSeq : sess[s] # Cred!NoSession}
            top == CHOOSE m \in used : \A s \in used : s <= m
<1>1. used # {} => top \in Nat
    <2>. SUFFICES ASSUME used # {} PROVE top \in Nat
        OBVIOUS
    <2>1. used \in SUBSET Nat /\ \A s \in used : s <= MaxSeq
        BY CredentialsAssumption
    <2>2. \E m \in used : \A s \in used : s <= m
        BY <2>1, LargestNat, CredentialsAssumption
    <2>. QED
        BY <2>1, <2>2
<1>2. Cred!NextSequenceValue =
        IF (IF used = {} THEN 1 ELSE 1 + top) > seq THEN (IF used = {} THEN 1 ELSE 1 + top) ELSE seq
    BY DEF Cred!NextSequenceValue
<1>. HIDE DEF used, top
<1>. QED
    BY <1>1, <1>2 DEF CredTypes

(* The permanent sessions are counted.                                     *)
LEMMA AtMostOne ==
    ASSUME NEW S, \A x, y \in S : x = y
    PROVE  Cardinality(S) <= 1
<1>1. CASE S = {}
    BY <1>1, FS_EmptySet
<1>2. ASSUME NEW x \in S
      PROVE  Cardinality(S) <= 1
    <2>1. S = {x}
        BY <1>2
    <2>. QED
        BY <2>1, FS_Singleton
<1>. QED
    BY <1>1, <1>2

LEMMA CountedNumbers ==
    ASSUME NEW S \in SUBSET (1 .. MaxSeq)
    PROVE  Cardinality(S) \in Nat /\ (Cardinality(S) = 0 => S = {})
<1>1. IsFiniteSet(1 .. MaxSeq)
    BY FS_Interval, CredentialsAssumption
<1>2. IsFiniteSet(S)
    BY <1>1, FS_Subset
<1>. QED
    BY <1>2, FS_CardinalityType, FS_EmptySet

LEMMA SameCount == \A S : Cred!Cardinality(S) = Cardinality(S)
BY DEF Cred!Cardinality, Cardinality

LEMMA OnePermanentCounted == OnePermanent => Cred!OneActivePermanentSession
<1>1. OnePermanent => Cardinality(Cred!ActivePermanent) <= 1
    BY AtMostOne DEF OnePermanent
<1>. QED
    BY <1>1, SameCount DEF Cred!OneActivePermanentSession

LEMMA IdleTyped == Cred!Idle \in CredReq /\ Cred!Idle.op = "idle"
BY DEF Cred!Idle, CredReq, CredOps, CredPCs

(* What a step of p (no request when p is NoOne) leaves to the others.     *)
Others(p) ==
    /\ \A q \in Procs \ {p} : credReq'[q] = credReq[q]
    /\ \A a \in Cred!TemporaryAccounts :
          \/ tempAcct'[a].status = "none" <=> tempAcct[a].status = "none"
          \/ /\ tempAcct'[a].status # "none"
             /\ p \in Procs /\ credReq[p].op = "create" /\ credReq[p].acct = a
    /\ seq' \in Nat /\ seq' >= seq /\ now' \in Nat /\ now' >= now
    /\ \A s \in 1 .. MaxSeq :
          \/ sess'[s].type = sess[s].type
          \/ s >= seq
          \/ p \in Procs /\ Cred!At(p, "create", "insert") /\ credReq[p].sid = s
    /\ \/ userLock \in {p, NoOne}
       \/ userLock' = userLock /\ Cred!ActivePermanent' \subseteq Cred!ActivePermanent
    /\ secret' \in Nat /\ secret' >= secret
    /\ \A a \in AIAccounts : tok'[a].pair = tok[a].pair \/ tok'[a].pair > secret
    /\ \A x \in exchanged' :
          x \in exchanged \/ (p \in Procs /\ Cred!At(p, "rotate", "result") /\ x[1] = credReq[p].pair)

LEMMA SpentStays ==
    ASSUME CredInv, NEW p, Others(p), NEW s, Spent(s)
    PROVE  Spent(s)'
BY DEF CredInv, CredTypes, Others, Spent

LEMMA OthersStay ==
    ASSUME CredInv, NEW p \in Procs \cup {NoOne}, Others(p)
    PROVE  /\ \A q \in Procs \ {p} : Fits(q)'
           /\ \A q, r \in Procs \ {p} : q # r => Apart(q, r)'
<1>1. ASSUME NEW q \in Procs \ {p} PROVE Fits(q)'
    <2>. USE <1>1
    <2>1. Fits(q) /\ credReq'[q] = credReq[q] /\ (p \in Procs => Apart(p, q))
        BY DEF CredInv, RequestsFit, Others
    <2>2. CreateFits(q)'
        BY <2>1 DEF CredInv, CredTypes, CredReq, Fits, CreateFits, Others, Apart, Cred!At
    <2>3. ExtendFits(q)'
        BY <2>1 DEF Fits, ExtendFits, Others
    <2>4. SessionFits(q)'
        BY <2>1, CredentialsAssumption DEF Fits, SessionFits, Others, Cred!At
    <2>5. LoginFits(q)'
        BY <2>1 DEF CredInv, CredTypes, CredReq, Fits, LoginFits, Others
    <2>6. RotateFits(q)'
        BY <2>1, SpentStays DEF Fits, RotateFits, Others, Apart, Cred!At
    <2>. QED
        BY <2>2, <2>3, <2>4, <2>5, <2>6 DEF Fits
<1>2. ASSUME NEW q \in Procs \ {p}, NEW r \in Procs \ {p}, q # r PROVE Apart(q, r)'
    <2>1. Apart(q, r)
        BY <1>2 DEF CredInv, RequestsFit
    <2>2. credReq'[q] = credReq[q] /\ credReq'[r] = credReq[r]
        BY <1>2 DEF Others
    <2>. QED
        BY <2>1, <2>2 DEF Apart, Cred!At
<1>. QED
    BY <1>1, <1>2

(* A step that ends p's request, or is of no request at all.               *)
LEMMA RequestsEnd ==
    ASSUME CredInv, NEW p \in Procs \cup {NoOne}, Others(p),
           p \in Procs => credReq'[p] = Cred!Idle
    PROVE  RequestsFit'
<1>1. p \in Procs => Fits(p)' /\ \A q \in Procs : Apart(p, q)' /\ Apart(q, p)'
    BY IdleTyped DEF Fits, CreateFits, ExtendFits, SessionFits, LoginFits, RotateFits, Apart, Cred!At
<1>2. \A q \in Procs \ {p} : Fits(q)'
    BY OthersStay
<1>3. \A q, r \in Procs \ {p} : q # r => Apart(q, r)'
    BY OthersStay
<1>. QED
    BY <1>1, <1>2, <1>3 DEF RequestsFit

-----------------------------------------------------------------------------
(* A step that leaves the tables alone: p's request becomes r, which fits. *)
Moves(p, r) ==
    /\ credReq' = [credReq EXCEPT ![p] = r] /\ r \in CredReq
    /\ UNCHANGED <<now, tempAcct, sess, grant, pw, tok, seq, secret, userLock, exchanged, overtaken>>
    /\ r.op = "create" =>
          /\ r.pc # "insert" /\ r.acct \in Cred!TemporaryAccounts
          /\ tempAcct[r.acct].status = "none"
          /\ \A q \in Procs \ {p} : credReq[q].op = "create" => credReq[q].acct # r.acct
    /\ r.op = "extend" => r.acct \in Cred!TemporaryAccounts /\ tempAcct[r.acct].status # "none"
    /\ r.op = "session" => r.pc # "insert"
    /\ r.op = "login" => r.sid \in 1 .. MaxSeq /\ (r.pc = "mark" => r.exp < now)
    /\ r.op = "rotate" => r.acct \in AIAccounts /\ r.pc # "result"

LEMMA TablesStay ==
    ASSUME CredInv,
           UNCHANGED <<now, tempAcct, sess, grant, pw, tok, seq, secret, exchanged, overtaken>>
    PROVE  /\ EmptyRows' /\ Numbered' /\ Pairs' /\ OnePermanent' /\ Cred!DisabledAccessIsDead' /\ InStep'
           /\ credReq' \in [Procs -> CredReq] => CredTypes'
BY DEF CredInv, CredTypes, EmptyRows, Numbered, Pairs, Spent, OnePermanent, InStep, Cred!ActivePermanent,
   Cred!DisabledAccessIsDead, Cred!RefreshTokenUsedOnce

LEMMA MovesSound ==
    ASSUME CredInv, NEW p \in Procs, NEW r, Moves(p, r)
    PROVE  CredInv'
<1>1. credReq' \in [Procs -> CredReq] /\ credReq'[p] = r
    BY DEF Moves, CredInv, CredTypes
<1>2. Others(p)
    <2>1. Cred!ActivePermanent' = Cred!ActivePermanent
        BY DEF Moves, Cred!ActivePermanent
    <2>. QED
        BY <2>1 DEF Moves, CredInv, CredTypes, Others
<1>3. Fits(p)'
    <2>1. CreateFits(p)' /\ ExtendFits(p)' /\ SessionFits(p)' /\ LoginFits(p)'
        BY <1>1 DEF Moves, CreateFits, ExtendFits, SessionFits, LoginFits, Cred!At
    <2>2. RotateFits(p)'
        BY <1>1 DEF Moves, RotateFits
    <2>. QED
        BY <2>1, <2>2 DEF Fits
<1>4. ASSUME NEW q \in Procs \ {p} PROVE Apart(p, q)' /\ Apart(q, p)'
    <2>1. credReq'[q] = credReq[q]
        BY <1>4, <1>2 DEF Others
    <2>. QED
        BY <1>1, <2>1 DEF Moves, Apart, Cred!At
<1>5. RequestsFit'
    <2>1. \A q \in Procs \ {p} : Fits(q)'
        BY <1>2, OthersStay
    <2>2. \A q, u \in Procs \ {p} : q # u => Apart(q, u)'
        BY <1>2, OthersStay
    <2>. QED
        BY <1>3, <1>4, <2>1, <2>2 DEF RequestsFit
<1>. QED
    BY <1>1, <1>5, TablesStay DEF Moves, CredInv

(* A request is refused, or answered without a write.                      *)
Quiet == UNCHANGED <<now, tempAcct, sess, grant, pw, tok, seq, secret, userLock, exchanged, overtaken>>

LEMMA Replies ==
    ASSUME CredInv, NEW p \in Procs, Cred!Reply(p), Quiet
    PROVE  CredInv'
<1>1. Moves(p, Cred!Idle)
    BY IdleTyped DEF Moves, Cred!Reply, Quiet
<1>. QED
    BY <1>1, MovesSound

(* A request goes on to another step of the same operation.                *)
LEMMA GoesOn ==
    ASSUME CredInv, NEW p \in Procs, NEW pc_ \in CredPCs, Cred!Goto(p, pc_), Quiet,
           credReq[p].op \in {"create", "session"} => pc_ # "insert",
           pc_ # "result", pc_ # "mark"
    PROVE  CredInv'
<1>. DEFINE r == [credReq[p] EXCEPT !.pc = pc_]
<1>1. credReq[p] \in CredReq
    BY DEF CredInv, CredTypes
<1>2. /\ r \in CredReq /\ r.pc = pc_ /\ r.op = credReq[p].op /\ r.acct = credReq[p].acct
      /\ r.sid = credReq[p].sid
    BY <1>1 DEF CredReq
<1>3. credReq' = [credReq EXCEPT ![p] = r]
    BY <1>1 DEF Cred!Goto
<1>. HIDE DEF r
<1>4. Fits(p) /\ \A q \in Procs \ {p} : Apart(p, q)
    BY DEF CredInv, RequestsFit
<1>5. Moves(p, r)
    BY <1>2, <1>3, <1>4 DEF Moves, Quiet, Fits, CreateFits, ExtendFits, LoginFits, RotateFits, Apart
<1>. QED
    BY <1>5, MovesSound

(* A request begins.                                                       *)
LEMMA Begins ==
    ASSUME CredInv, NEW p \in Procs, NEW r \in CredReq, Cred!Begin(p, r), Quiet,
           r.op # "create", r.op = "session" => r.pc # "insert",
           r.op = "extend" => r.acct \in Cred!TemporaryAccounts /\ tempAcct[r.acct].status # "none",
           r.op = "login" => r.sid \in 1 .. MaxSeq /\ (r.pc = "mark" => r.exp < now),
           r.op = "rotate" => r.acct \in AIAccounts /\ r.pc # "result"
    PROVE  CredInv'
<1>1. Moves(p, r)
    BY DEF Moves, Cred!Begin, Quiet
<1>. QED
    BY <1>1, MovesSound

LEMMA QuietStep ==
    ASSUME UNCHANGED <<Cred!environment, Cred!tables, secret, userLock, Cred!history>>
    PROVE  Quiet
BY DEF Quiet, Cred!environment, Cred!tables, Cred!history

(* The steps of temporary access that write no table.                      *)
LEMMA CreateBegins ==
    ASSUME CredInv, NEW p \in Procs, NEW a \in Cred!TemporaryAccounts, NEW exp \in Expiries,
           Cred!Create(p, a, exp), Quiet
    PROVE  CredInv'
<1>. DEFINE r == [Cred!Idle EXCEPT !.op = "create", !.pc = "allocate", !.acct = a, !.exp = exp,
                                   !.at = now]
<1>1. credReq' = [credReq EXCEPT ![p] = r]
    BY DEF Cred!Create
<1>2. r \in CredReq /\ r.op = "create" /\ r.pc = "allocate" /\ r.acct = a
    BY CredentialsAssumption DEF CredInv, CredTypes, Cred!Idle, CredReq, CredOps, CredPCs
<1>. HIDE DEF r
<1>3. tempAcct[a].status = "none"
    BY DEF Cred!Create, Cred!NoAccount
<1>4. \A q \in Procs : credReq[q].op = "create" => credReq[q].acct # a
    BY DEF Cred!Create
<1>5. Moves(p, r)
    BY <1>1, <1>2, <1>3, <1>4 DEF Moves, Quiet
<1>. QED
    BY <1>5, MovesSound

LEMMA ExtendBegins ==
    ASSUME CredInv, NEW p \in Procs, NEW a \in Cred!TemporaryAccounts, NEW exp \in Expiries,
           Cred!extendTemporaryAccount(p, a, exp)
    PROVE  CredInv'
<1>. DEFINE r == [Cred!Idle EXCEPT !.op = "extend", !.pc = "read", !.acct = a, !.exp = exp,
                                   !.at = now]
<1>1. Cred!Begin(p, r)
    BY DEF Cred!extendTemporaryAccount, Cred!Extend
<1>2. r \in CredReq /\ r.op = "extend" /\ r.pc = "read" /\ r.acct = a
    BY CredentialsAssumption DEF CredInv, CredTypes, Cred!Idle, CredReq, CredOps, CredPCs
<1>. HIDE DEF r
<1>3. tempAcct[a].status # "none"
    BY DEF Cred!extendTemporaryAccount, CredInv, EmptyRows
<1>4. Quiet
    BY QuietStep DEF Cred!extendTemporaryAccount
<1>. QED
    BY <1>1, <1>2, <1>3, <1>4, Begins

LEMMA ReadAccountKeeps ==
    ASSUME CredInv, NEW p \in Procs, Cred!ReadAccount(p)
    PROVE  CredInv'
<1>1. Quiet
    BY QuietStep DEF Cred!ReadAccount
<1>2. Cred!Goto(p, "write") \/ Cred!Reply(p)
    BY DEF Cred!ReadAccount
<1>3. credReq[p].op = "extend"
    BY DEF Cred!ReadAccount, Cred!At
<1>. QED
    BY <1>1, <1>2, <1>3, GoesOn, Replies DEF CredPCs

LEMMA RetryCreateKeeps ==
    ASSUME CredInv, NEW p \in Procs, Cred!RetryCreate(p)
    PROVE  CredInv'
<1>1. Quiet
    BY QuietStep DEF Cred!RetryCreate
<1>2. credReq[p] \in CredReq /\ credReq[p].op = "create"
    BY DEF CredInv, CredTypes, Cred!RetryCreate, Cred!At
<1>3. CASE credReq[p].tries + 1 < MaxAttempts
    <2>. DEFINE r == [credReq[p] EXCEPT !.pc = "allocate", !.tries = credReq[p].tries + 1]
    <2>1. credReq' = [credReq EXCEPT ![p] = r]
        BY <1>3 DEF Cred!RetryCreate
    <2>0. credReq[p].tries + 1 \in Nat
        BY <1>2 DEF CredReq
    <2>2. r \in CredReq /\ r.op = "create" /\ r.pc = "allocate" /\ r.acct = credReq[p].acct
        BY <1>2, <2>0 DEF CredReq, CredPCs
    <2>. HIDE DEF r
    <2>3. Fits(p) /\ \A q \in Procs \ {p} : Apart(p, q)
        BY DEF CredInv, RequestsFit
    <2>4. Moves(p, r)
        BY <1>1, <1>2, <2>1, <2>2, <2>3 DEF Moves, Quiet, Fits, CreateFits, Apart
    <2>. QED
        BY <2>4, MovesSound
<1>4. CASE ~(credReq[p].tries + 1 < MaxAttempts)
    <2>1. Cred!Reply(p)
        BY <1>4 DEF Cred!RetryCreate, Cred!Reply
    <2>. QED
        BY <2>1, <1>1, Replies
<1>. QED
    BY <1>3, <1>4

(* The steps of AI tokens and of sessions that write no table.             *)
LEMMA RotateBegins ==
    ASSUME CredInv, NEW p \in Procs, NEW a \in AIAccounts,
           Cred!handleAIRefresh(p, a) \/ Cred!handleAIReissue(p, a)
    PROVE  CredInv'
<1>1. Quiet
    BY QuietStep DEF Cred!handleAIRefresh, Cred!handleAIReissue
<1>2. ASSUME NEW s \in 1 .. secret, Cred!Refresh(p, a, s)
      PROVE  CredInv'
    <2>. DEFINE r == [Cred!Idle EXCEPT !.op = "rotate", !.pc = "read", !.acct = a,
                                       !.pair = s, !.at = now, !.key = "audited"]
    <2>1. Cred!Begin(p, r)
        BY <1>2 DEF Cred!Refresh
    <2>0. s \in Nat
        BY DEF CredInv, CredTypes
    <2>2. r \in CredReq /\ r.op = "rotate" /\ r.pc = "read" /\ r.acct = a
        BY <2>0 DEF CredInv, CredTypes, Cred!Idle, CredReq, CredOps, CredPCs, Cred!TemporaryAccounts
    <2>. HIDE DEF r
    <2>. QED
        BY <1>1, <2>1, <2>2, Begins
<1>3. CASE Cred!Reissue(p, a)
    <2>. DEFINE r == [Cred!Idle EXCEPT !.op = "rotate", !.pc = "read", !.acct = a,
                                       !.pair = tok[a].pair, !.at = now]
    <2>1. Cred!Begin(p, r)
        BY <1>3 DEF Cred!Reissue
    <2>2. tok[a].pair \in Nat
        BY DEF CredInv, CredTypes, TokenRow
    <2>3. r \in CredReq /\ r.op = "rotate" /\ r.pc = "read" /\ r.acct = a
        BY <2>2 DEF CredInv, CredTypes, Cred!Idle, CredReq, CredOps, CredPCs, Cred!TemporaryAccounts
    <2>. HIDE DEF r
    <2>. QED
        BY <1>1, <2>1, <2>3, Begins
<1>. QED
    BY <1>2, <1>3 DEF Cred!handleAIRefresh, Cred!handleAIReissue

LEMMA ResourceBegins ==
    ASSUME CredInv, NEW p \in Procs, NEW a \in AIAccounts, Cred!handleAIResources(p, a)
    PROVE  CredInv'
<1>1. Quiet
    BY QuietStep DEF Cred!handleAIResources, Cred!issueAIResourceSession, Cred!issueAIResourceCredential
<1>2. PICK o \in {"session", "password"}, c \in {"lookup", "authorize"} :
          Cred!Begin(p, [Cred!Idle EXCEPT !.op = o, !.pc = c, !.acct = a, !.at = now])
    BY DEF Cred!handleAIResources, Cred!issueAIResourceSession, Cred!issueAIResourceCredential
<1>. DEFINE r == [Cred!Idle EXCEPT !.op = o, !.pc = c, !.acct = a, !.at = now]
<1>3. r \in CredReq /\ r.op = o /\ r.pc = c
    BY <1>2 DEF CredInv, CredTypes, Cred!Idle, CredReq, CredOps, CredPCs, Cred!TemporaryAccounts
<1>4. Cred!Begin(p, r)
    BY <1>2
<1>. HIDE DEF r
<1>. QED
    BY <1>1, <1>3, <1>4, Begins

LEMMA SessionBegins ==
    ASSUME CredInv, NEW p \in Procs, Cred!handleUserSessions(p) \/ Cred!handleConnectionPasswords(p)
    PROVE  CredInv'
<1>1. Quiet
    BY QuietStep DEF Cred!handleUserSessions, Cred!handleConnectionPasswords
<1>2. CASE Cred!handleUserSessions(p)
    <2>. DEFINE r == [Cred!Idle EXCEPT !.op = "session", !.pc = "lock"]
    <2>1. Cred!Begin(p, r)
        BY <1>2 DEF Cred!handleUserSessions
    <2>2. r \in CredReq /\ r.op = "session" /\ r.pc = "lock"
        BY DEF Cred!Idle, CredReq, CredOps, CredPCs
    <2>. HIDE DEF r
    <2>. QED
        BY <1>1, <2>1, <2>2, Begins
<1>3. CASE Cred!handleConnectionPasswords(p)
    <2>. DEFINE r == [Cred!Idle EXCEPT !.op = "password", !.pc = "authorize", !.at = now]
    <2>1. Cred!Begin(p, r)
        BY <1>3 DEF Cred!handleConnectionPasswords
    <2>2. r \in CredReq /\ r.op = "password"
        BY DEF CredInv, CredTypes, Cred!Idle, CredReq, CredOps, CredPCs
    <2>. HIDE DEF r
    <2>. QED
        BY <1>1, <2>1, <2>2, Begins
<1>. QED
    BY <1>2, <1>3

LEMMA LoginBegins ==
    ASSUME CredInv, NEW p \in Procs, NEW s \in 1 .. MaxSeq, NEW k \in DOMAIN pw,
           Cred!Authenticate(p, s, k)
    PROVE  CredInv'
<1>1. Quiet
    BY QuietStep DEF Cred!Authenticate
<1>. DEFINE c == IF now > sess[s].exp THEN "mark" ELSE "user"
            r == [Cred!Idle EXCEPT !.op = "login", !.sid = s, !.key = k, !.pc = c,
                                   !.exp = sess[s].exp]
<1>2. s \in Nat /\ sess[s].exp \in Nat /\ k \in UserAccounts \cup Passwords
    BY CredentialsAssumption DEF CredInv, CredTypes, SessRow
<1>3. c \in CredPCs /\ (c = "mark" => sess[s].exp < now)
    BY <1>2 DEF CredPCs, CredInv, CredTypes
<1>4. Cred!Begin(p, r)
    BY DEF Cred!Authenticate
<1>. HIDE DEF c
<1>5. r \in CredReq /\ r.op = "login" /\ r.pc = c /\ r.exp = sess[s].exp /\ r.sid = s
    BY <1>2, <1>3 DEF Cred!Idle, CredReq, CredOps
<1>. HIDE DEF r
<1>. QED
    BY <1>1, <1>3, <1>4, <1>5, Begins

LEMMA QuietStepKeeps ==
    ASSUME CredInv, NEW p \in Procs,
           \/ Cred!CreateRefused(p) \/ Cred!SessionRefused(p) \/ Cred!ReadToken(p)
           \/ Cred!GetOrCreateAIResourceSession(p) \/ Cred!AuthorizeIssue(p)
           \/ Cred!authenticateCompact(p) \/ Cred!AuthenticateConnectionPassword(p)
           \/ Cred!Logout(p)
    PROVE  CredInv'
<1>1. Quiet
    BY QuietStep DEF Cred!CreateRefused, Cred!SessionRefused, Cred!ReadToken,
       Cred!GetOrCreateAIResourceSession, Cred!AuthorizeIssue, Cred!authenticateCompact,
       Cred!AuthenticateConnectionPassword, Cred!Logout
<1>2. \/ Cred!Reply(p)
      \/ credReq[p].op = "rotate" /\ Cred!Goto(p, "write")
      \/ credReq[p].op = "session" /\ Cred!Goto(p, "lock")
      \/ credReq[p].op = "password" /\ Cred!Goto(p, "insert")
      \/ credReq[p].op = "login" /\ Cred!Goto(p, "password")
      \/ credReq[p].op = "login" /\ Cred!Goto(p, "in")
    BY DEF Cred!CreateRefused, Cred!SessionRefused, Cred!ReadToken,
       Cred!GetOrCreateAIResourceSession, Cred!AuthorizeIssue, Cred!authenticateCompact,
       Cred!AuthenticateConnectionPassword, Cred!Logout, Cred!At, Cred!Goto
<1>. QED
    BY <1>1, <1>2, GoesOn, Replies DEF CredPCs

-----------------------------------------------------------------------------
(* What the two promises say of one account.                               *)
DeadAt(a) ==
    tempAcct[a].status = "disabled" =>
        /\ sess[tempAcct[a].sid].status # "active"
        /\ a \in UserAccounts => grant[a].status # "active" /\ pw[a].status # "active"
        /\ a \in AIAccounts => tok[a].status # "active"

InStepAt(a) ==
    tempAcct[a].status = "active" =>
        /\ grant[a].status = "active" /\ grant[a].exp = tempAcct[a].exp
        /\ pw[a].status = "active" /\ pw[a].exp = tempAcct[a].exp
        /\ sess[tempAcct[a].sid].exp = tempAcct[a].exp
        /\ \/ sess[tempAcct[a].sid].status = "active"
           \/ tempAcct[a].exp <= now
           \/ tempAcct[a].sid \in overtaken

Promised(a) == DeadAt(a) /\ (a \in UserAccounts => InStepAt(a))

LEMMA PromisedAll ==
    (\A a \in Cred!TemporaryAccounts : Promised(a)) <=> (Cred!DisabledAccessIsDead /\ InStep)
BY DEF Promised, DeadAt, InStepAt, InStep, Cred!DisabledAccessIsDead, Cred!TemporaryAccounts

LEMMA PromisedNext ==
    ASSUME \A a \in Cred!TemporaryAccounts : Promised(a)'
    PROVE  Cred!DisabledAccessIsDead' /\ InStep'
BY DEF Promised, DeadAt, InStepAt, InStep, Cred!DisabledAccessIsDead, Cred!TemporaryAccounts

(* The rows of an account the step does not touch.                         *)
Untouched(a) ==
    /\ tempAcct'[a] = tempAcct[a]
    /\ tempAcct[a].status # "none" => sess'[tempAcct[a].sid] = sess[tempAcct[a].sid]
    /\ a \in UserAccounts => grant'[a] = grant[a] /\ pw'[a] = pw[a]
    /\ a \in AIAccounts => tok'[a].status = tok[a].status

LEMMA UntouchedStays ==
    ASSUME CredInv, NEW a \in Cred!TemporaryAccounts, Untouched(a),
           now' \in Nat, now' >= now, overtaken \subseteq overtaken'
    PROVE  Promised(a)'
<1>1. Promised(a) /\ tempAcct[a].exp \in Nat /\ now \in Nat
    BY PromisedAll DEF CredInv, CredTypes, TempRow
<1>2. DeadAt(a)'
    BY <1>1 DEF Promised, DeadAt, Untouched
<1>3. a \in UserAccounts => InStepAt(a)'
    BY <1>1 DEF Promised, InStepAt, Untouched
<1>. QED
    BY <1>2, <1>3 DEF Promised

(* Pairs are unchanged.                                                    *)
LEMMA PairsStay ==
    ASSUME CredInv, UNCHANGED <<secret, exchanged>>,
           \A a \in AIAccounts : tok'[a].pair = tok[a].pair /\ (tok'[a].status = "active" => tok[a].status = "active")
    PROVE  Pairs'
BY DEF CredInv, Pairs, Spent, Cred!RefreshTokenUsedOnce

(* No session becomes a permanent, active one.                             *)
LEMMA PermanentShrinks ==
    ASSUME CredInv,
           \A s \in 1 .. MaxSeq : sess'[s].type = "permanent" /\ sess'[s].status = "active" =>
               sess[s].type = "permanent" /\ sess[s].status = "active"
    PROVE  Cred!ActivePermanent' \subseteq Cred!ActivePermanent /\ OnePermanent'
<1>1. Cred!ActivePermanent' \subseteq Cred!ActivePermanent
    BY DEF Cred!ActivePermanent
<1>. QED
    BY <1>1 DEF CredInv, OnePermanent

-----------------------------------------------------------------------------
(* A number is allocated.                                                  *)
LEMMA AllocateKeeps ==
    ASSUME CredInv, NEW p \in Procs, Cred!allocateTemporarySessionIdentity(p)
    PROVE  CredInv'
<1>. DEFINE n == Cred!NextSequenceValue
            r == [credReq[p] EXCEPT !.pc = "insert", !.sid = n]
<1>1. n \in Nat /\ n >= seq /\ seq > 0 /\ seq \in Nat /\ n <= MaxSeq
    BY NextNumber DEF CredInv, CredTypes, Cred!allocateTemporarySessionIdentity
<1>2. /\ seq' = n + 1 /\ credReq' = [credReq EXCEPT ![p].pc = "insert", ![p].sid = n]
      /\ UNCHANGED <<now, tempAcct, sess, grant, pw, tok, secret, userLock, exchanged, overtaken>>
      /\ credReq[p].op = "create" /\ credReq[p].pc = "allocate"
    BY DEF Cred!allocateTemporarySessionIdentity, Cred!At, Cred!environment, Cred!history
<1>. HIDE DEF n
<1>3. credReq[p] \in CredReq /\ credReq \in [Procs -> CredReq]
    BY DEF CredInv, CredTypes
<1>4. r \in CredReq /\ r.op = "create" /\ r.pc = "insert" /\ r.acct = credReq[p].acct /\ r.sid = n
    BY <1>1, <1>2, <1>3 DEF CredReq, CredPCs
<1>5. credReq' = [credReq EXCEPT ![p] = r]
    BY <1>2, <1>3
<1>. HIDE DEF r
<1>6. credReq'[p] = r /\ credReq' \in [Procs -> CredReq]
      /\ \A q \in Procs \ {p} : credReq'[q] = credReq[q]
    BY <1>3, <1>4, <1>5
<1>7. Cred!ActivePermanent' = Cred!ActivePermanent
    BY <1>2 DEF Cred!ActivePermanent
<1>8. Others(p)
    BY <1>1, <1>2, <1>6, <1>7 DEF Others, CredInv, CredTypes
<1>9. Fits(p)'
    <2>1. Fits(p) /\ Numbered
        BY DEF CredInv, RequestsFit
    <2>2. CreateFits(p)'
        BY <1>1, <1>2, <1>4, <1>6, <2>1, CredentialsAssumption DEF Fits, CreateFits, Numbered
    <2>. QED
        BY <1>4, <1>6, <2>2 DEF Fits, ExtendFits, SessionFits, LoginFits, RotateFits, Cred!At
<1>10. ASSUME NEW q \in Procs \ {p} PROVE Apart(p, q)' /\ Apart(q, p)'
    <2>1. Fits(q) /\ Apart(p, q) /\ Apart(q, p) /\ credReq[q] \in CredReq
        BY <1>10 DEF CredInv, RequestsFit, CredTypes
    <2>2. credReq[q].op = "create" /\ credReq[q].pc = "insert" => credReq[q].sid < n
        BY <1>1, <2>1 DEF Fits, CreateFits, CredReq
    <2>3. credReq[q].op = "create" /\ credReq[q].pc = "insert" => credReq[q].sid # n
        BY <1>1, <2>1, <2>2 DEF CredReq
    <2>. QED
        BY <1>2, <1>4, <1>6, <1>10, <2>1, <2>3 DEF Apart, Cred!At
<1>11. RequestsFit'
    <2>1. \A q \in Procs \ {p} : Fits(q)'
        BY <1>8, OthersStay
    <2>2. \A q, u \in Procs \ {p} : q # u => Apart(q, u)'
        BY <1>8, OthersStay
    <2>. QED
        BY <1>9, <1>10, <2>1, <2>2 DEF RequestsFit
<1>12. Numbered'
    BY <1>1, <1>2 DEF CredInv, CredTypes, TempRow, Numbered
<1>13. CredTypes' /\ EmptyRows'
    BY <1>1, <1>2, <1>6 DEF CredInv, CredTypes, EmptyRows
<1>14. Pairs' /\ OnePermanent' /\ Cred!DisabledAccessIsDead' /\ InStep'
    BY <1>2, <1>7 DEF CredInv, Pairs, Spent, OnePermanent, InStep, Cred!DisabledAccessIsDead,
       Cred!RefreshTokenUsedOnce
<1>. QED
    BY <1>11, <1>12, <1>13, <1>14 DEF CredInv

(* The rows of a new account: its number was unused, so no other account's *)
(* session is touched.                                                     *)
LEMMA InsertKeeps ==
    ASSUME CredInv, NEW p \in Procs, Cred!At(p, "create", "insert"), Cred!Insert(p, "temporary")
    PROVE  LET a == credReq[p].acct
               n == credReq[p].sid IN
           /\ a \in Cred!TemporaryAccounts /\ n \in 1 .. MaxSeq
           /\ tempAcct' \in [Cred!TemporaryAccounts -> TempRow] /\ sess' \in [1 .. MaxSeq -> SessRow]
           /\ tempAcct[a].status = "none" /\ sess[n].type = "none" /\ n < seq
           /\ tempAcct'[a].status = "active" /\ tempAcct'[a].exp = credReq[p].exp /\ tempAcct'[a].sid = n
           /\ \A b \in Cred!TemporaryAccounts \ {a} : tempAcct'[b] = tempAcct[b]
           /\ sess'[n].type = "temporary" /\ sess'[n].status = "active" /\ sess'[n].exp = credReq[p].exp
           /\ \A s \in (1 .. MaxSeq) \ {n} : sess'[s] = sess[s]
<1>1. credReq[p] \in CredReq /\ Fits(p) /\ credReq[p].exp \in Nat /\ credReq[p].sid \in Nat
    BY DEF CredInv, CredTypes, RequestsFit, CredReq
<1>2. PICK a \in Cred!TemporaryAccounts, n \in 1 .. MaxSeq :
          /\ a = credReq[p].acct /\ n = credReq[p].sid
          /\ tempAcct[a].status = "none" /\ sess[n].type = "none" /\ n < seq
    BY <1>1 DEF Fits, CreateFits, Cred!At
<1>3. /\ tempAcct' = [tempAcct EXCEPT ![a] = [status |-> "active", exp |-> credReq[p].exp, sid |-> n]]
      /\ sess' = [sess EXCEPT ![n] = [type |-> "temporary", status |-> "active", exp |-> credReq[p].exp]]
    BY <1>2 DEF Cred!Insert
<1>4. /\ [status |-> "active", exp |-> credReq[p].exp, sid |-> n] \in TempRow
      /\ [type |-> "temporary", status |-> "active", exp |-> credReq[p].exp] \in SessRow
    BY <1>1, <1>2 DEF TempRow, SessRow
<1>5. tempAcct \in [Cred!TemporaryAccounts -> TempRow] /\ sess \in [1 .. MaxSeq -> SessRow]
    BY DEF CredInv, CredTypes
<1>6. tempAcct' \in [Cred!TemporaryAccounts -> TempRow] /\ sess' \in [1 .. MaxSeq -> SessRow]
    BY <1>3, <1>4, <1>5
<1>. QED
    BY <1>2, <1>3, <1>5, <1>6

(* What both creations share.                                              *)
LEMMA InsertedKeeps ==
    ASSUME CredInv, NEW p \in Procs, Cred!At(p, "create", "insert"), Cred!Insert(p, "temporary"),
           Cred!Reply(p), UNCHANGED <<now, seq, userLock, exchanged, overtaken>>,
           secret' \in Nat, secret' >= secret,
           \A a \in AIAccounts : tok'[a].pair = tok[a].pair \/ tok'[a].pair > secret
    PROVE  /\ EmptyRows' /\ Numbered' /\ OnePermanent' /\ RequestsFit'
           /\ credReq' \in [Procs -> CredReq]
<1>1. PICK a \in Cred!TemporaryAccounts, n \in 1 .. MaxSeq :
           /\ a = credReq[p].acct /\ n = credReq[p].sid
           /\ tempAcct[a].status = "none" /\ sess[n].type = "none" /\ n < seq
           /\ tempAcct'[a].status = "active" /\ tempAcct'[a].sid = n
           /\ \A b \in Cred!TemporaryAccounts \ {a} : tempAcct'[b] = tempAcct[b]
           /\ sess'[n].type = "temporary" /\ sess'[n].status = "active"
           /\ \A s \in (1 .. MaxSeq) \ {n} : sess'[s] = sess[s]
    BY InsertKeeps
<1>2. EmptyRows'
    BY <1>1 DEF CredInv, EmptyRows
<1>3. Numbered'
    <2>1. \A s \in 1 .. MaxSeq : s >= seq' => sess'[s].type = "none"
        BY <1>1 DEF CredInv, CredTypes, Numbered
    <2>2. ASSUME NEW b \in Cred!TemporaryAccounts \ {a}, tempAcct'[b].status # "none"
          PROVE  /\ tempAcct'[b].sid \in 1 .. MaxSeq /\ tempAcct'[b].sid < seq'
                 /\ sess'[tempAcct'[b].sid].type = "temporary" /\ tempAcct'[b].sid # n
        BY <1>1, <2>2 DEF CredInv, Numbered
    <2>3. ASSUME NEW b \in Cred!TemporaryAccounts \ {a}, NEW c \in Cred!TemporaryAccounts \ {a},
                 tempAcct'[b].status # "none", tempAcct'[c].status # "none",
                 tempAcct'[b].sid = tempAcct'[c].sid
          PROVE  b = c
        BY <1>1, <2>3 DEF CredInv, Numbered
    <2>. QED
        BY <1>1, <2>1, <2>2, <2>3 DEF Numbered
<1>4. Cred!ActivePermanent' \subseteq Cred!ActivePermanent /\ OnePermanent'
    BY <1>1, PermanentShrinks
<1>5. credReq' \in [Procs -> CredReq] /\ credReq'[p] = Cred!Idle
      /\ \A q \in Procs \ {p} : credReq'[q] = credReq[q]
    BY IdleTyped DEF CredInv, CredTypes, Cred!Reply
<1>6. Others(p)
    <2>1. credReq[p].op = "create" /\ Cred!At(p, "create", "insert")
        BY DEF Cred!At
    <2>2. \A b \in Cred!TemporaryAccounts :
             \/ tempAcct'[b].status = "none" <=> tempAcct[b].status = "none"
             \/ tempAcct'[b].status # "none" /\ credReq[p].acct = b
        BY <1>1
    <2>3. \A s \in 1 .. MaxSeq : sess'[s].type = sess[s].type \/ credReq[p].sid = s
        BY <1>1
    <2>. QED
        BY <2>1, <2>2, <2>3, <1>4, <1>5 DEF Others, CredInv, CredTypes
<1>7. RequestsFit'
    BY <1>5, <1>6, RequestsEnd
<1>. QED
    BY <1>2, <1>3, <1>4, <1>5, <1>7

LEMMA CreateUserKeeps ==
    ASSUME CredInv, NEW p \in Procs, Cred!CreateTemporaryAccess(p)
    PROVE  CredInv'
<1>1. /\ Cred!At(p, "create", "insert") /\ Cred!Insert(p, "temporary") /\ Cred!Reply(p)
      /\ UNCHANGED <<now, tok, seq, secret, userLock, exchanged, overtaken>>
      /\ credReq[p].acct \in UserAccounts
    BY DEF Cred!CreateTemporaryAccess, Cred!environment, Cred!history
<1>2. PICK a \in UserAccounts, e \in Nat : a = credReq[p].acct /\ e = credReq[p].exp
    BY <1>1 DEF CredInv, CredTypes, CredReq
<1>3. /\ grant' = [grant EXCEPT ![a] = [status |-> "active", exp |-> e]]
      /\ pw' = [pw EXCEPT ![a] = [status |-> "active", exp |-> e]]
    BY <1>2 DEF Cred!CreateTemporaryAccess
<1>4. [status |-> "active", exp |-> e] \in GrantRow
    BY DEF GrantRow
<1>5. /\ grant' \in [UserAccounts -> GrantRow] /\ pw' \in [UserAccounts \cup Passwords -> GrantRow]
      /\ grant'[a].status = "active" /\ grant'[a].exp = e
      /\ pw'[a].status = "active" /\ pw'[a].exp = e
      /\ \A b \in UserAccounts \ {a} : grant'[b] = grant[b] /\ pw'[b] = pw[b]
    BY <1>3, <1>4 DEF CredInv, CredTypes
<1>6. EmptyRows' /\ Numbered' /\ OnePermanent' /\ RequestsFit' /\ credReq' \in [Procs -> CredReq]
    <2>1. secret' \in Nat /\ secret' >= secret
        BY <1>1 DEF CredInv, CredTypes
    <2>2. \A b \in AIAccounts : tok'[b].pair = tok[b].pair \/ tok'[b].pair > secret
        BY <1>1
    <2>. QED
        BY <1>1, <2>1, <2>2, InsertedKeeps
<1>7. PICK n \in 1 .. MaxSeq :
          /\ n = credReq[p].sid /\ sess[n].type = "none"
          /\ tempAcct'[a].status = "active" /\ tempAcct'[a].exp = e /\ tempAcct'[a].sid = n
          /\ \A b \in Cred!TemporaryAccounts \ {a} : tempAcct'[b] = tempAcct[b]
          /\ sess'[n].status = "active" /\ sess'[n].exp = e
          /\ \A s \in (1 .. MaxSeq) \ {n} : sess'[s] = sess[s]
          /\ tempAcct' \in [Cred!TemporaryAccounts -> TempRow] /\ sess' \in [1 .. MaxSeq -> SessRow]
    BY <1>1, <1>2, InsertKeeps
<1>8. ASSUME NEW b \in Cred!TemporaryAccounts PROVE Promised(b)'
    <2>1. CASE b = a
        BY <2>1, <1>5, <1>7, CredentialsAssumption DEF Promised, DeadAt, InStepAt
    <2>2. CASE b # a
        <3>1. tempAcct[b].status # "none" =>
                  tempAcct[b].sid \in 1 .. MaxSeq /\ sess[tempAcct[b].sid].type = "temporary"
            BY DEF CredInv, Numbered
        <3>2. Untouched(b)
            BY <1>1, <1>5, <1>7, <2>2, <3>1 DEF Untouched
        <3>. QED
            BY <3>2, <1>1, UntouchedStays DEF CredInv, CredTypes
    <2>. QED
        BY <2>1, <2>2
<1>9. Cred!DisabledAccessIsDead' /\ InStep'
    BY <1>8, PromisedNext
<1>10. Pairs'
    BY <1>1, PairsStay
<1>11. CredTypes'
    BY <1>1, <1>5, <1>6, <1>7 DEF CredInv, CredTypes
<1>. QED
    BY <1>6, <1>9, <1>10, <1>11 DEF CredInv

(* A fresh pair on a token row: no row and no exchange has it.             *)
LEMMA FreshPair ==
    ASSUME CredInv, NEW a \in AIAccounts, secret' = secret + 1, UNCHANGED exchanged,
           tok' \in [AIAccounts -> TokenRow], tok'[a].pair = secret + 1,
           \A b \in AIAccounts \ {a} : tok'[b] = tok[b]
    PROVE  Pairs'
<1>1. secret \in Nat /\ \A b \in AIAccounts : tok[b].pair \in Nat /\ tok[b].pair <= secret
    BY DEF CredInv, CredTypes, TokenRow, Pairs
<1>2. ASSUME NEW s, Spent(s) PROVE Spent(s)'
    BY <1>1, <1>2 DEF Spent
<1>3. \A x \in exchanged' : Spent(x[1])'
    BY <1>2 DEF CredInv, Pairs
<1>4. Cred!RefreshTokenUsedOnce'
    BY DEF CredInv, Pairs, Cred!RefreshTokenUsedOnce
<1>5. ASSUME NEW b \in AIAccounts
      PROVE  /\ tok'[b].pair <= secret' /\ (tok'[b].status = "active" => tok'[b].pair > 0)
             /\ \A c \in AIAccounts : tok'[b].pair > 0 /\ tok'[b].pair = tok'[c].pair => b = c
    BY <1>1 DEF CredInv, Pairs
<1>. QED
    BY <1>3, <1>4, <1>5 DEF Pairs

LEMMA CreateAIKeeps ==
    ASSUME CredInv, NEW p \in Procs, Cred!CreateTemporaryAIAccess(p)
    PROVE  CredInv'
<1>1. /\ Cred!At(p, "create", "insert") /\ Cred!Insert(p, "temporary") /\ Cred!Reply(p)
      /\ UNCHANGED <<now, grant, pw, seq, userLock, exchanged, overtaken>>
      /\ credReq[p].acct \in AIAccounts /\ secret' = secret + 1
    BY DEF Cred!CreateTemporaryAIAccess, Cred!environment, Cred!history
<1>2. PICK a \in AIAccounts, e \in Nat, t \in Nat :
          a = credReq[p].acct /\ e = credReq[p].exp /\ t = credReq[p].at
    BY <1>1 DEF CredInv, CredTypes, CredReq
<1>3. secret \in Nat /\ tok \in [AIAccounts -> TokenRow]
    BY DEF CredInv, CredTypes
<1>4. Cred!IssuedPair(t) \in TokenRow /\ Cred!IssuedPair(t).pair = secret + 1
    BY <1>3 DEF Cred!IssuedPair, TokenRow, Cred!AccessTTL, Cred!RefreshTTL
<1>5. tok' = [tok EXCEPT ![a] = Cred!IssuedPair(t)]
    BY <1>2 DEF Cred!CreateTemporaryAIAccess
<1>6. /\ tok' \in [AIAccounts -> TokenRow] /\ tok'[a].pair = secret + 1
      /\ \A b \in AIAccounts \ {a} : tok'[b] = tok[b]
    BY <1>3, <1>4, <1>5
<1>7. EmptyRows' /\ Numbered' /\ OnePermanent' /\ RequestsFit' /\ credReq' \in [Procs -> CredReq]
    <2>1. secret' \in Nat /\ secret' >= secret
        BY <1>1, <1>3
    <2>2. \A b \in AIAccounts : tok'[b].pair = tok[b].pair \/ tok'[b].pair > secret
        BY <1>3, <1>6
    <2>. QED
        BY <1>1, <2>1, <2>2, InsertedKeeps
<1>8. PICK n \in 1 .. MaxSeq :
          /\ n = credReq[p].sid /\ sess[n].type = "none"
          /\ tempAcct'[a].status = "active"
          /\ \A b \in Cred!TemporaryAccounts \ {a} : tempAcct'[b] = tempAcct[b]
          /\ \A s \in (1 .. MaxSeq) \ {n} : sess'[s] = sess[s]
          /\ tempAcct' \in [Cred!TemporaryAccounts -> TempRow] /\ sess' \in [1 .. MaxSeq -> SessRow]
    BY <1>1, <1>2, InsertKeeps
<1>9. ASSUME NEW b \in Cred!TemporaryAccounts PROVE Promised(b)'
    <2>1. CASE b = a
        BY <2>1, <1>8, CredentialsAssumption DEF Promised, DeadAt, InStepAt
    <2>2. CASE b # a
        <3>1. tempAcct[b].status # "none" =>
                  tempAcct[b].sid \in 1 .. MaxSeq /\ sess[tempAcct[b].sid].type = "temporary"
            BY DEF CredInv, Numbered
        <3>2. Untouched(b)
            BY <1>1, <1>6, <1>8, <2>2, <3>1 DEF Untouched
        <3>. QED
            BY <3>2, <1>1, UntouchedStays DEF CredInv, CredTypes
    <2>. QED
        BY <2>1, <2>2
<1>10. Cred!DisabledAccessIsDead' /\ InStep'
    BY <1>9, PromisedNext
<1>11. Pairs'
    BY <1>1, <1>6, FreshPair
<1>12. CredTypes'
    BY <1>1, <1>3, <1>6, <1>7, <1>8 DEF CredInv, CredTypes
<1>. QED
    BY <1>7, <1>10, <1>11, <1>12 DEF CredInv

(* An extension writes the four expiries together, or nothing.             *)
LEMMA ExtendKeeps ==
    ASSUME CredInv, NEW p \in Procs, Cred!ExtendTemporaryAccess(p)
    PROVE  CredInv'
<1>1. /\ Cred!Reply(p) /\ credReq[p].op = "extend"
      /\ UNCHANGED <<now, tok, seq, secret, userLock, exchanged, overtaken>>
    BY DEF Cred!ExtendTemporaryAccess, Cred!At, Cred!environment, Cred!history
<1>2. PICK a \in Cred!TemporaryAccounts, e \in Nat :
          /\ a = credReq[p].acct /\ e = credReq[p].exp /\ tempAcct[a].status # "none"
          /\ tempAcct[a].sid \in 1 .. MaxSeq
    BY <1>1 DEF CredInv, CredTypes, RequestsFit, Fits, ExtendFits, CredReq, Numbered
<1>3. CASE UNCHANGED <<tempAcct, grant, sess, pw>>
    <2>1. Quiet
        BY <1>1, <1>3 DEF Quiet
    <2>. QED
        BY <1>1, <2>1, Replies
<1>4. CASE ~UNCHANGED <<tempAcct, grant, sess, pw>>
    <2>1. /\ Cred!AccountLive(a, credReq[p].at) /\ (a \in UserAccounts => Cred!Extendable(a))
          /\ tempAcct' = [tempAcct EXCEPT ![a].exp = e]
          /\ a \in UserAccounts => Cred!ExtendDependents(a, e)
          /\ a \notin UserAccounts => UNCHANGED <<grant, sess, pw>>
        BY <1>2, <1>4 DEF Cred!ExtendTemporaryAccess
    <2>2. tempAcct[a].status = "active"
        BY <2>1 DEF Cred!AccountLive
    <2>3. /\ tempAcct' \in [Cred!TemporaryAccounts -> TempRow]
          /\ tempAcct'[a].status = "active" /\ tempAcct'[a].exp = e /\ tempAcct'[a].sid = tempAcct[a].sid
          /\ \A b \in Cred!TemporaryAccounts \ {a} : tempAcct'[b] = tempAcct[b]
        BY <2>1, <2>2 DEF CredInv, CredTypes, TempRow
    <2>4. PICK n \in 1 .. MaxSeq : n = tempAcct[a].sid
        BY <1>2
    <2>5. /\ sess' \in [1 .. MaxSeq -> SessRow]
          /\ \A s \in 1 .. MaxSeq : sess'[s].type = sess[s].type /\ sess'[s].status = sess[s].status
          /\ \A s \in (1 .. MaxSeq) \ {n} : sess'[s] = sess[s]
          /\ a \in UserAccounts => sess'[n].exp = e
        <3>1. CASE a \in UserAccounts
            <4>1. sess' = [sess EXCEPT ![n].exp = e]
                BY <3>1, <2>1, <2>4 DEF Cred!ExtendDependents
            <4>. QED
                BY <4>1 DEF CredInv, CredTypes, SessRow
        <3>2. CASE a \notin UserAccounts
            BY <3>2, <2>1 DEF CredInv, CredTypes
        <3>. QED
            BY <3>1, <3>2
    <2>6. /\ grant' \in [UserAccounts -> GrantRow] /\ pw' \in [UserAccounts \cup Passwords -> GrantRow]
          /\ \A b \in UserAccounts \ {a} : grant'[b] = grant[b] /\ pw'[b] = pw[b]
          /\ a \in UserAccounts =>
                /\ grant'[a].status = grant[a].status /\ grant'[a].exp = e
                /\ pw'[a].status = pw[a].status /\ pw'[a].exp = e
        <3>1. CASE a \in UserAccounts
            <4>1. grant' = [grant EXCEPT ![a].exp = e] /\ pw' = [pw EXCEPT ![a].exp = e]
                BY <3>1, <2>1 DEF Cred!ExtendDependents
            <4>. QED
                BY <3>1, <4>1 DEF CredInv, CredTypes, GrantRow
        <3>2. CASE a \notin UserAccounts
            BY <3>2, <2>1 DEF CredInv, CredTypes
        <3>. QED
            BY <3>1, <3>2
    <2>7. ASSUME NEW b \in Cred!TemporaryAccounts PROVE Promised(b)'
        <3>1. CASE b = a
            <4>1. a \in UserAccounts => /\ grant[a].status = "active" /\ pw[a].status = "active"
                                        /\ sess[n].status = "active"
                BY <2>1, <2>4 DEF Cred!Extendable
            <4>2. a \in UserAccounts => InStepAt(a)'
                BY <4>1, <2>3, <2>4, <2>5, <2>6 DEF InStepAt
            <4>3. DeadAt(a)'
                BY <2>3 DEF DeadAt
            <4>. QED
                BY <3>1, <4>2, <4>3 DEF Promised
        <3>2. CASE b # a
            <4>1. tempAcct[b].status # "none" => tempAcct[b].sid \in (1 .. MaxSeq) \ {n}
                BY <1>2, <2>4, <3>2 DEF CredInv, Numbered
            <4>2. Untouched(b)
                BY <1>1, <2>3, <2>5, <2>6, <3>2, <4>1 DEF Untouched
            <4>. QED
                BY <4>2, <1>1, UntouchedStays DEF CredInv, CredTypes
        <3>. QED
            BY <3>1, <3>2
    <2>8. Cred!DisabledAccessIsDead' /\ InStep'
        BY <2>7, PromisedNext
    <2>9. EmptyRows' /\ Numbered'
        <3>1. EmptyRows'
            BY <2>3 DEF CredInv, EmptyRows
        <3>2. \A b \in Cred!TemporaryAccounts :
                 /\ tempAcct'[b].sid = tempAcct[b].sid
                 /\ tempAcct'[b].status # "none" => tempAcct[b].status # "none"
            BY <2>2, <2>3
        <3>. QED
            BY <1>1, <2>5, <3>1, <3>2 DEF CredInv, Numbered
    <2>10. Pairs'
        BY <1>1, PairsStay
    <2>11. Cred!ActivePermanent' \subseteq Cred!ActivePermanent /\ OnePermanent'
        BY <2>5, PermanentShrinks
    <2>12. credReq' \in [Procs -> CredReq] /\ credReq'[p] = Cred!Idle
          /\ \A q \in Procs \ {p} : credReq'[q] = credReq[q]
        BY <1>1, IdleTyped DEF CredInv, CredTypes, Cred!Reply
    <2>13. Others(p)
        <3>1. \A b \in Cred!TemporaryAccounts : tempAcct'[b].status = "none" <=> tempAcct[b].status = "none"
            BY <2>2, <2>3
        <3>. QED
            BY <1>1, <2>5, <2>11, <2>12, <3>1 DEF Others, CredInv, CredTypes
    <2>14. RequestsFit'
        BY <2>12, <2>13, RequestsEnd
    <2>15. CredTypes'
        BY <1>1, <2>3, <2>5, <2>6, <2>12 DEF CredInv, CredTypes
    <2>. QED
        BY <2>8, <2>9, <2>10, <2>11, <2>14, <2>15 DEF CredInv
<1>. QED
    BY <1>3, <1>4

(* Disabling writes the account and everything created with it.            *)
LEMMA DisableKeeps ==
    ASSUME CredInv, NEW a \in Cred!TemporaryAccounts, Cred!disableTemporaryAccount(a)
    PROVE  CredInv'
<1>1. /\ UNCHANGED <<now, seq, secret, userLock, credReq, exchanged, overtaken>>
      /\ tempAcct[a] # Cred!NoAccount /\ tempAcct' = [tempAcct EXCEPT ![a].status = "disabled"]
      /\ Cred!DisableDependents(a)
    BY DEF Cred!disableTemporaryAccount, Cred!DisableTemporaryAccess, Cred!environment, Cred!history
<1>2. PICK n \in 1 .. MaxSeq : n = tempAcct[a].sid /\ tempAcct[a].status # "none" /\ sess[n].type = "temporary"
    BY <1>1 DEF CredInv, EmptyRows, Numbered
<1>3. /\ tempAcct' \in [Cred!TemporaryAccounts -> TempRow]
      /\ tempAcct'[a].status = "disabled" /\ tempAcct'[a].sid = n
      /\ \A b \in Cred!TemporaryAccounts \ {a} : tempAcct'[b] = tempAcct[b]
    BY <1>1, <1>2 DEF CredInv, CredTypes, TempRow
<1>4. sess' = [sess EXCEPT ![n].status = "disabled"]
    BY <1>1, <1>2 DEF Cred!DisableDependents
<1>5. /\ sess' \in [1 .. MaxSeq -> SessRow] /\ sess'[n].status = "disabled"
      /\ \A s \in 1 .. MaxSeq : sess'[s].type = sess[s].type
      /\ \A s \in (1 .. MaxSeq) \ {n} : sess'[s] = sess[s]
    BY <1>4 DEF CredInv, CredTypes, SessRow
<1>6. /\ grant' \in [UserAccounts -> GrantRow] /\ pw' \in [UserAccounts \cup Passwords -> GrantRow]
      /\ \A b \in UserAccounts \ {a} : grant'[b] = grant[b] /\ pw'[b] = pw[b]
      /\ a \in UserAccounts => grant'[a].status = "revoked" /\ pw'[a].status = "revoked"
    <2>1. CASE a \in UserAccounts
        <3>1. grant' = [grant EXCEPT ![a].status = "revoked"] /\ pw' = [pw EXCEPT ![a].status = "revoked"]
            BY <2>1, <1>1 DEF Cred!DisableDependents
        <3>. QED
            BY <2>1, <3>1 DEF CredInv, CredTypes, GrantRow
    <2>2. CASE a \notin UserAccounts
        BY <2>2, <1>1 DEF CredInv, CredTypes, Cred!DisableDependents
    <2>. QED
        BY <2>1, <2>2
<1>7. /\ tok' \in [AIAccounts -> TokenRow]
      /\ \A b \in AIAccounts : tok'[b].pair = tok[b].pair
      /\ \A b \in AIAccounts \ {a} : tok'[b] = tok[b]
      /\ a \in AIAccounts => tok'[a].status = "revoked"
    <2>1. CASE a \in UserAccounts
        BY <2>1, <1>1, CredentialsAssumption DEF CredInv, CredTypes, Cred!DisableDependents
    <2>2. CASE a \notin UserAccounts
        <3>1. tok' = [tok EXCEPT ![a].status = "revoked"] /\ a \in AIAccounts
            BY <2>2, <1>1 DEF Cred!DisableDependents, Cred!TemporaryAccounts
        <3>. QED
            BY <3>1 DEF CredInv, CredTypes, TokenRow
    <2>. QED
        BY <2>1, <2>2
<1>8. ASSUME NEW b \in Cred!TemporaryAccounts PROVE Promised(b)'
    <2>1. CASE b = a
        BY <2>1, <1>3, <1>5, <1>6, <1>7 DEF Promised, DeadAt, InStepAt
    <2>2. CASE b # a
        <3>1. tempAcct[b].status # "none" => tempAcct[b].sid \in (1 .. MaxSeq) \ {n}
            BY <1>2, <2>2 DEF CredInv, Numbered
        <3>2. Untouched(b)
            BY <1>1, <1>3, <1>5, <1>6, <1>7, <2>2, <3>1 DEF Untouched
        <3>. QED
            BY <3>2, <1>1, UntouchedStays DEF CredInv, CredTypes
    <2>. QED
        BY <2>1, <2>2
<1>9. Cred!DisabledAccessIsDead' /\ InStep'
    BY <1>8, PromisedNext
<1>10. EmptyRows' /\ Numbered'
    <2>1. EmptyRows'
        BY <1>3 DEF CredInv, EmptyRows
    <2>2. \A b \in Cred!TemporaryAccounts :
             /\ tempAcct'[b].sid = tempAcct[b].sid
             /\ tempAcct'[b].status # "none" => tempAcct[b].status # "none"
        BY <1>2, <1>3
    <2>. QED
        BY <1>1, <1>5, <2>1, <2>2 DEF CredInv, Numbered
<1>11. Pairs'
    BY <1>1, <1>7, PairsStay
<1>12. Cred!ActivePermanent' \subseteq Cred!ActivePermanent /\ OnePermanent'
    BY <1>5, PermanentShrinks
<1>13. Others(NoOne)
    <2>1. \A b \in Cred!TemporaryAccounts : tempAcct'[b].status = "none" <=> tempAcct[b].status = "none"
        BY <1>2, <1>3
    <2>. QED
        BY <1>1, <1>5, <1>7, <1>12, <2>1 DEF Others, CredInv, CredTypes
<1>14. RequestsFit'
    BY <1>13, RequestsEnd, CredentialsAssumption
<1>15. CredTypes'
    BY <1>1, <1>3, <1>5, <1>6, <1>7 DEF CredInv, CredTypes
<1>. QED
    BY <1>9, <1>10, <1>11, <1>12, <1>14, <1>15 DEF CredInv

(* Revoking a token.                                                       *)
LEMMA RevokeKeeps ==
    ASSUME CredInv, NEW a \in AIAccounts, Cred!RevokeAIAccessToken(a)
    PROVE  CredInv'
<1>1. /\ UNCHANGED <<now, tempAcct, sess, grant, pw, seq, secret, userLock, credReq, exchanged, overtaken>>
      /\ tok' = [tok EXCEPT ![a].status = "revoked"]
    BY DEF Cred!RevokeAIAccessToken, Cred!environment, Cred!history
<1>2. /\ tok' \in [AIAccounts -> TokenRow] /\ tok'[a].status = "revoked"
      /\ \A b \in AIAccounts : tok'[b].pair = tok[b].pair
      /\ \A b \in AIAccounts \ {a} : tok'[b] = tok[b]
    BY <1>1 DEF CredInv, CredTypes, TokenRow
<1>3. Cred!ActivePermanent' = Cred!ActivePermanent
    BY <1>1 DEF Cred!ActivePermanent
<1>4. Others(NoOne)
    BY <1>1, <1>2, <1>3 DEF Others, CredInv, CredTypes
<1>5. RequestsFit'
    BY <1>4, RequestsEnd, CredentialsAssumption
<1>6. Pairs'
    BY <1>1, <1>2, PairsStay
<1>7. CredTypes' /\ EmptyRows' /\ Numbered' /\ InStep' /\ OnePermanent'
    BY <1>1, <1>2, <1>3 DEF CredInv, CredTypes, EmptyRows, Numbered, InStep, OnePermanent
<1>8. Cred!DisabledAccessIsDead'
    BY <1>1, <1>2 DEF CredInv, Cred!DisabledAccessIsDead
<1>. QED
    BY <1>5, <1>6, <1>7, <1>8 DEF CredInv

(* A rotation: the pair it replaces was nobody's before and is nobody's    *)
(* after.                                                                  *)
LEMMA RotateKeeps ==
    ASSUME CredInv, NEW p \in Procs, Cred!RotateAIAccessToken(p)
    PROVE  CredInv'
<1>1. /\ credReq[p].op = "rotate" /\ credReq[p].pc = "write" /\ credReq[p] \in CredReq /\ Fits(p)
      /\ UNCHANGED <<now, tempAcct, sess, grant, pw, seq, userLock, exchanged, overtaken>>
    BY DEF Cred!RotateAIAccessToken, Cred!At, Cred!environment, Cred!history, CredInv, CredTypes, RequestsFit
<1>2. CASE ~Cred!Rotates(p)
    <2>1. Cred!Reply(p) /\ Quiet
        BY <1>1, <1>2 DEF Cred!RotateAIAccessToken, Quiet
    <2>. QED
        BY <2>1, Replies
<1>3. CASE Cred!Rotates(p)
    <2>1. PICK a \in AIAccounts, t \in Nat, s \in Nat :
              a = credReq[p].acct /\ t = credReq[p].at /\ s = credReq[p].pair
        BY <1>1 DEF Fits, RotateFits, CredReq
    <2>2. tok[a].pair = s /\ tok[a].status = "active" /\ s > 0 /\ s <= secret
        BY <1>3, <2>1 DEF Cred!Rotates, CredInv, Pairs
    <2>3. secret \in Nat /\ tok \in [AIAccounts -> TokenRow]
        BY DEF CredInv, CredTypes
    <2>. DEFINE k == [Cred!IssuedPair(t) EXCEPT !.status = tok[a].status]
                r == [credReq[p] EXCEPT !.pc = "result", !.next = secret + 1]
    <2>4. /\ tok' = [tok EXCEPT ![a] = k] /\ secret' = secret + 1
          /\ credReq' = [credReq EXCEPT ![p].pc = "result", ![p].next = secret + 1]
        BY <1>3, <2>1 DEF Cred!RotateAIAccessToken
    <2>5. k \in TokenRow /\ k.pair = secret + 1 /\ k.status = "active"
        BY <2>2, <2>3 DEF Cred!IssuedPair, TokenRow, Cred!AccessTTL, Cred!RefreshTTL
    <2>. HIDE DEF k
    <2>6. /\ tok' \in [AIAccounts -> TokenRow] /\ tok'[a].pair = secret + 1
          /\ tok'[a].status = "active" /\ \A b \in AIAccounts \ {a} : tok'[b] = tok[b]
        BY <2>3, <2>4, <2>5
    <2>7. secret + 1 \in Nat
        BY <2>3
    <2>8. r \in CredReq /\ r.op = "rotate" /\ r.pc = "result" /\ r.acct = a /\ r.pair = s
        BY <1>1, <2>1, <2>7 DEF CredReq, CredPCs
    <2>9. credReq' = [credReq EXCEPT ![p] = r]
        BY <2>4 DEF CredInv, CredTypes
    <2>. HIDE DEF r
    <2>10. credReq'[p] = r /\ credReq' \in [Procs -> CredReq]
          /\ \A q \in Procs \ {p} : credReq'[q] = credReq[q]
        BY <2>8, <2>9 DEF CredInv, CredTypes
    <2>11. Cred!ActivePermanent' = Cred!ActivePermanent
        BY <1>1 DEF Cred!ActivePermanent
    <2>12. Others(p)
        BY <1>1, <2>3, <2>4, <2>6, <2>10, <2>11 DEF Others, CredInv, CredTypes
    <2>13. Spent(s)'
        <3>1. \A b \in AIAccounts \ {a} : tok[b].pair # s
            BY <2>2 DEF CredInv, Pairs
        <3>. QED
            BY <2>2, <2>3, <2>4, <2>6, <3>1 DEF Spent
    <2>14. \A x \in exchanged : x[1] # s
        BY <2>2 DEF CredInv, Pairs, Spent
    <2>15. Fits(p)'
        BY <1>1, <2>8, <2>10, <2>13, <2>14 DEF Fits, CreateFits, ExtendFits, SessionFits, LoginFits, RotateFits, Cred!At
    <2>16. ASSUME NEW q \in Procs \ {p} PROVE Apart(p, q)' /\ Apart(q, p)'
        <3>1. Fits(q)
            BY <2>16 DEF CredInv, RequestsFit
        <3>2. Cred!At(q, "rotate", "result") => credReq[q].pair # s
            BY <2>2, <3>1 DEF Fits, RotateFits, Spent, Cred!At
        <3>. QED
            BY <2>8, <2>10, <2>16, <3>2 DEF Apart, Cred!At
    <2>17. RequestsFit'
        <3>1. \A q \in Procs \ {p} : Fits(q)'
            BY <2>12, OthersStay
        <3>2. \A q, u \in Procs \ {p} : q # u => Apart(q, u)'
            BY <2>12, OthersStay
        <3>. QED
            BY <2>15, <2>16, <3>1, <3>2 DEF RequestsFit
    <2>18. Pairs'
        BY <1>1, <2>4, <2>6, FreshPair
    <2>19. CredTypes' /\ EmptyRows' /\ Numbered' /\ InStep' /\ OnePermanent'
        BY <1>1, <2>4, <2>6, <2>7, <2>10, <2>11 DEF CredInv, CredTypes, EmptyRows, Numbered, InStep, OnePermanent
    <2>20. Cred!DisabledAccessIsDead'
        BY <1>1, <2>2, <2>6 DEF CredInv, Cred!DisabledAccessIsDead
    <2>. QED
        BY <2>17, <2>18, <2>19, <2>20 DEF CredInv
<1>. QED
    BY <1>2, <1>3

(* The pair is handed out, or not.                                         *)
LEMMA ResultKeeps ==
    ASSUME CredInv, NEW p \in Procs, NEW written \in BOOLEAN, Cred!recordAIRefreshResult(p, written)
    PROVE  CredInv'
<1>1. /\ Cred!At(p, "rotate", "result") /\ Cred!Reply(p)
      /\ UNCHANGED <<now, tempAcct, sess, grant, pw, tok, seq, secret, userLock, overtaken>>
    BY DEF Cred!recordAIRefreshResult, Cred!environment, Cred!tables
<1>2. PICK s \in Nat, t \in Nat : s = credReq[p].pair /\ t = credReq[p].next
    BY DEF CredInv, CredTypes, CredReq
<1>3. exchanged' = exchanged \/ exchanged' = exchanged \cup {<<s, t>>}
    BY <1>2 DEF Cred!recordAIRefreshResult
<1>4. Spent(s) /\ \A x \in exchanged : x[1] # s
    BY <1>1, <1>2 DEF CredInv, RequestsFit, Fits, RotateFits, Cred!At
<1>5. credReq' \in [Procs -> CredReq] /\ credReq'[p] = Cred!Idle
      /\ \A q \in Procs \ {p} : credReq'[q] = credReq[q]
    BY <1>1, IdleTyped DEF CredInv, CredTypes, Cred!Reply
<1>6. Cred!ActivePermanent' = Cred!ActivePermanent
    BY <1>1 DEF Cred!ActivePermanent
<1>7. \A x \in exchanged' : x \in exchanged \/ x = <<s, t>>
    BY <1>3
<1>8. \A x \in exchanged' : x \in exchanged \/ x[1] = s
    BY <1>7
<1>9. Others(p)
    BY <1>1, <1>2, <1>5, <1>6, <1>8 DEF Others, CredInv, CredTypes
<1>10. RequestsFit'
    BY <1>5, <1>9, RequestsEnd
<1>11. Pairs'
    <2>1. \A x, y \in exchanged' : x[1] = y[1] => x = y
        BY <1>4, <1>7 DEF CredInv, Pairs, Cred!RefreshTokenUsedOnce
    <2>2. \A x \in exchanged' : Spent(x[1])'
        BY <1>1, <1>4, <1>8 DEF CredInv, Pairs, Spent
    <2>. QED
        BY <1>1, <2>1, <2>2 DEF CredInv, Pairs, Cred!RefreshTokenUsedOnce
<1>12. CredTypes'
    BY <1>1, <1>3, <1>5 DEF CredInv, CredTypes
<1>13. EmptyRows' /\ Numbered' /\ InStep' /\ OnePermanent' /\ Cred!DisabledAccessIsDead'
    BY <1>1, <1>6 DEF CredInv, EmptyRows, Numbered, InStep, OnePermanent, Cred!DisabledAccessIsDead
<1>. QED
    BY <1>10, <1>11, <1>12, <1>13 DEF CredInv

(* The user's row is locked and the permanent sessions are counted.        *)
LEMMA LockKeeps ==
    ASSUME CredInv, NEW p \in Procs, Cred!LockUser(p)
    PROVE  CredInv'
<1>. DEFINE n == Cardinality(Cred!ActivePermanent)
            r == [credReq[p] EXCEPT !.pc = "insert", !.tries = n]
<1>1. /\ credReq[p].op = "session" /\ credReq[p] \in CredReq /\ credReq \in [Procs -> CredReq]
      /\ userLock = NoOne /\ userLock' = p
      /\ credReq' = [credReq EXCEPT ![p].pc = "insert", ![p].tries = n]
      /\ UNCHANGED <<now, tempAcct, sess, grant, pw, tok, seq, secret, exchanged, overtaken>>
    BY SameCount DEF Cred!LockUser, Cred!At, Cred!environment, Cred!tables, Cred!history, CredInv, CredTypes
<1>2. n \in Nat /\ (n = 0 => Cred!ActivePermanent = {})
    <2>1. Cred!ActivePermanent \in SUBSET (1 .. MaxSeq)
        BY DEF Cred!ActivePermanent
    <2>. QED
        BY <2>1, CountedNumbers
<1>. HIDE DEF n
<1>3. r \in CredReq /\ r.op = "session" /\ r.pc = "insert" /\ r.tries = n
    BY <1>1, <1>2 DEF CredReq, CredPCs
<1>4. credReq' = [credReq EXCEPT ![p] = r]
    BY <1>1
<1>. HIDE DEF r
<1>5. credReq'[p] = r /\ credReq' \in [Procs -> CredReq]
      /\ \A q \in Procs \ {p} : credReq'[q] = credReq[q]
    BY <1>1, <1>3, <1>4
<1>6. Cred!ActivePermanent' = Cred!ActivePermanent
    BY <1>1 DEF Cred!ActivePermanent
<1>7. Others(p)
    BY <1>1, <1>5, <1>6 DEF Others, CredInv, CredTypes
<1>8. Fits(p)'
    BY <1>1, <1>2, <1>3, <1>5, <1>6
       DEF Fits, CreateFits, ExtendFits, SessionFits, LoginFits, RotateFits, Cred!At
<1>9. \A q \in Procs \ {p} : Apart(p, q)' /\ Apart(q, p)'
    BY <1>3, <1>5 DEF Apart, Cred!At
<1>10. RequestsFit'
    <2>1. \A q \in Procs \ {p} : Fits(q)'
        BY <1>7, OthersStay
    <2>2. \A q, u \in Procs \ {p} : q # u => Apart(q, u)'
        BY <1>7, OthersStay
    <2>. QED
        BY <1>8, <1>9, <2>1, <2>2 DEF RequestsFit
<1>. QED
    BY <1>1, <1>5, <1>10, TablesStay DEF CredInv

(* The permanent session is inserted by the request that holds the lock,   *)
(* under a number that no account and no creation has.                     *)
LEMMA PermanentKeeps ==
    ASSUME CredInv, NEW p \in Procs, Cred!GetOrCreateActivePermanentUserSession(p)
    PROVE  CredInv'
<1>. DEFINE n == Cred!NextSequenceValue
<1>1. /\ Cred!At(p, "session", "insert") /\ Cred!Reply(p)
      /\ UNCHANGED <<now, tempAcct, grant, pw, tok, secret, exchanged, overtaken>>
    BY DEF Cred!GetOrCreateActivePermanentUserSession, Cred!environment, Cred!history
<1>2. userLock = p /\ (credReq[p].tries = 0 => Cred!ActivePermanent = {})
    BY <1>1 DEF CredInv, RequestsFit, Fits, SessionFits
<1>3. n \in Nat /\ n >= seq /\ seq \in Nat /\ seq > 0
    BY NextNumber DEF CredInv, CredTypes
<1>4. credReq' \in [Procs -> CredReq] /\ credReq'[p] = Cred!Idle
      /\ \A q \in Procs \ {p} : credReq'[q] = credReq[q]
    BY <1>1, IdleTyped DEF CredInv, CredTypes, Cred!Reply
<1>5. CASE UNCHANGED <<sess, seq>>
    <2>1. Cred!ActivePermanent' = Cred!ActivePermanent
        BY <1>5 DEF Cred!ActivePermanent
    <2>2. Others(p)
        BY <1>1, <1>2, <1>4, <1>5, <2>1 DEF Others, CredInv, CredTypes
    <2>3. RequestsFit'
        BY <1>4, <2>2, RequestsEnd
    <2>. QED
        BY <1>1, <1>4, <1>5, <2>3, TablesStay DEF CredInv
<1>6. CASE ~UNCHANGED <<sess, seq>>
    <2>1. /\ credReq[p].tries = 0 /\ n <= MaxSeq /\ seq' = n + 1
          /\ sess' = [sess EXCEPT ![n] =
                        [type |-> "permanent", status |-> "active", exp |-> MaxTime + 1]]
        BY <1>6 DEF Cred!GetOrCreateActivePermanentUserSession
    <2>. HIDE DEF n
    <2>2. n \in 1 .. MaxSeq
        BY <1>3, <2>1, CredentialsAssumption
    <2>3. [type |-> "permanent", status |-> "active", exp |-> MaxTime + 1] \in SessRow
        BY CredentialsAssumption DEF SessRow
    <2>4. /\ sess' \in [1 .. MaxSeq -> SessRow]
          /\ \A s \in (1 .. MaxSeq) \ {n} : sess'[s] = sess[s]
        BY <2>1, <2>3 DEF CredInv, CredTypes
    <2>5. Cred!ActivePermanent' \subseteq {n}
        BY <1>2, <2>1, <2>4 DEF Cred!ActivePermanent
    <2>6. OnePermanent'
        BY <2>5 DEF OnePermanent
    <2>7. Numbered'
        <3>1. \A s \in 1 .. MaxSeq : s >= seq' => s >= seq /\ s # n
            BY <1>3, <2>1, CredentialsAssumption
        <3>2. \A a \in Cred!TemporaryAccounts : tempAcct[a].status # "none" =>
                 tempAcct[a].sid # n /\ tempAcct[a].sid < seq'
            BY <1>3, <2>1 DEF CredInv, CredTypes, TempRow, Numbered
        <3>. QED
            BY <1>1, <2>4, <3>1, <3>2 DEF CredInv, Numbered
    <2>8. ASSUME NEW a \in Cred!TemporaryAccounts PROVE Promised(a)'
        <3>1. tempAcct[a].status # "none" => tempAcct[a].sid \in (1 .. MaxSeq) \ {n}
            BY <1>3 DEF CredInv, CredTypes, TempRow, Numbered
        <3>2. Untouched(a)
            BY <1>1, <2>4, <3>1 DEF Untouched
        <3>. QED
            BY <3>2, <1>1, UntouchedStays DEF CredInv, CredTypes
    <2>9. Cred!DisabledAccessIsDead' /\ InStep'
        BY <2>8, PromisedNext
    <2>10. Others(p)
        <3>1. seq' \in Nat /\ seq' >= seq
            BY <1>3, <2>1
        <3>2. \A s \in 1 .. MaxSeq : sess'[s].type = sess[s].type \/ s >= seq
            BY <1>3, <2>4
        <3>. QED
            BY <1>1, <1>2, <1>4, <3>1, <3>2 DEF Others, CredInv, CredTypes
    <2>11. RequestsFit'
        BY <1>4, <2>10, RequestsEnd
    <2>12. Pairs' /\ EmptyRows'
        BY <1>1, PairsStay DEF CredInv, EmptyRows
    <2>13. CredTypes'
        BY <1>1, <1>3, <1>4, <2>1, <2>4 DEF CredInv, CredTypes
    <2>. QED
        BY <2>6, <2>7, <2>9, <2>11, <2>12, <2>13 DEF CredInv
<1>. QED
    BY <1>5, <1>6

(* A connection password of the user's own is no account's.                *)
LEMMA PasswordKeeps ==
    ASSUME CredInv, NEW p \in Procs, NEW k \in Passwords, Cred!CreateConnectionPassword(p, k)
    PROVE  CredInv'
<1>1. /\ Cred!Reply(p) /\ credReq[p] \in CredReq
      /\ UNCHANGED <<now, tempAcct, sess, grant, tok, seq, secret, userLock, exchanged, overtaken>>
      /\ pw' = [pw EXCEPT ![k] = [status |-> "active", exp |-> credReq[p].at + Cred!PasswordTTL]]
    BY DEF Cred!CreateConnectionPassword, Cred!environment, Cred!history, CredInv, CredTypes
<1>2. credReq[p].at + Cred!PasswordTTL \in Nat
    BY <1>1 DEF CredReq, Cred!PasswordTTL
<1>3. [status |-> "active", exp |-> credReq[p].at + Cred!PasswordTTL] \in GrantRow
    BY <1>2 DEF GrantRow
<1>4. /\ pw' \in [UserAccounts \cup Passwords -> GrantRow] /\ \A a \in UserAccounts : pw'[a] = pw[a]
    BY <1>1, <1>3, CredentialsAssumption DEF CredInv, CredTypes
<1>5. credReq' \in [Procs -> CredReq] /\ credReq'[p] = Cred!Idle
      /\ \A q \in Procs \ {p} : credReq'[q] = credReq[q]
    BY <1>1, IdleTyped DEF CredInv, CredTypes, Cred!Reply
<1>6. Cred!ActivePermanent' = Cred!ActivePermanent
    BY <1>1 DEF Cred!ActivePermanent
<1>7. Others(p)
    BY <1>1, <1>5, <1>6 DEF Others, CredInv, CredTypes
<1>8. RequestsFit'
    BY <1>5, <1>7, RequestsEnd
<1>9. ASSUME NEW a \in Cred!TemporaryAccounts PROVE Promised(a)'
    <2>1. Untouched(a)
        BY <1>1, <1>4 DEF Untouched
    <2>. QED
        BY <2>1, <1>1, UntouchedStays DEF CredInv, CredTypes
<1>10. Cred!DisabledAccessIsDead' /\ InStep'
    BY <1>9, PromisedNext
<1>11. CredTypes' /\ EmptyRows' /\ Numbered' /\ OnePermanent'
    BY <1>1, <1>4, <1>5, <1>6 DEF CredInv, CredTypes, EmptyRows, Numbered, OnePermanent
<1>12. Pairs'
    BY <1>1, PairsStay
<1>. QED
    BY <1>8, <1>10, <1>11, <1>12 DEF CredInv

(* A session is marked expired: either it still carries the expiry that    *)
(* the login found in the past, or the mark is one that was overtaken.     *)
LEMMA MarkKeeps ==
    ASSUME CredInv, NEW p \in Procs, Cred!MarkSessionExpired(p)
    PROVE  CredInv'
<1>1. /\ Cred!Reply(p) /\ Cred!At(p, "login", "mark")
      /\ UNCHANGED <<now, tempAcct, grant, pw, tok, seq, secret, userLock, exchanged>>
    BY DEF Cred!MarkSessionExpired, Cred!environment
<1>2. PICK s \in 1 .. MaxSeq, e \in Nat : s = credReq[p].sid /\ e = credReq[p].exp /\ e < now
    BY <1>1 DEF CredInv, CredTypes, CredReq, RequestsFit, Fits, LoginFits, Cred!At
<1>3. /\ sess' = [sess EXCEPT ![s].status = "expired"]
      /\ overtaken \subseteq overtaken' /\ (sess[s].exp = e \/ s \in overtaken')
    BY <1>2 DEF Cred!MarkSessionExpired
<1>4. /\ sess' \in [1 .. MaxSeq -> SessRow] /\ sess'[s].status = "expired" /\ sess'[s].exp = sess[s].exp
      /\ \A t \in 1 .. MaxSeq : sess'[t].type = sess[t].type
      /\ \A t \in (1 .. MaxSeq) \ {s} : sess'[t] = sess[t]
    BY <1>3 DEF CredInv, CredTypes, SessRow
<1>5. credReq' \in [Procs -> CredReq] /\ credReq'[p] = Cred!Idle
      /\ \A q \in Procs \ {p} : credReq'[q] = credReq[q]
    BY <1>1, IdleTyped DEF CredInv, CredTypes, Cred!Reply
<1>6. Cred!ActivePermanent' \subseteq Cred!ActivePermanent /\ OnePermanent'
    BY <1>4, PermanentShrinks
<1>7. Others(p)
    BY <1>1, <1>4, <1>5, <1>6 DEF Others, CredInv, CredTypes
<1>8. RequestsFit'
    BY <1>5, <1>7, RequestsEnd
<1>9. ASSUME NEW a \in Cred!TemporaryAccounts PROVE Promised(a)'
    <2>1. tempAcct[a].status # "none" => tempAcct[a].sid \in 1 .. MaxSeq
        BY DEF CredInv, Numbered
    <2>2. CASE tempAcct[a].status = "none" \/ tempAcct[a].sid # s
        <3>1. Untouched(a)
            BY <1>1, <1>4, <2>1, <2>2 DEF Untouched
        <3>. QED
            BY <3>1, <1>1, <1>3, UntouchedStays DEF CredInv, CredTypes
    <2>3. CASE tempAcct[a].status # "none" /\ tempAcct[a].sid = s
        <3>1. Promised(a) /\ now \in Nat
            BY PromisedAll DEF CredInv, CredTypes
        <3>2. DeadAt(a)'
            BY <1>1, <1>4, <2>3, <3>1 DEF Promised, DeadAt
        <3>3. a \in UserAccounts => InStepAt(a)'
            BY <1>1, <1>2, <1>3, <1>4, <2>3, <3>1 DEF Promised, InStepAt
        <3>. QED
            BY <3>2, <3>3 DEF Promised
    <2>. QED
        BY <2>2, <2>3
<1>10. Cred!DisabledAccessIsDead' /\ InStep'
    BY <1>9, PromisedNext
<1>11. CredTypes' /\ EmptyRows' /\ Numbered'
    BY <1>1, <1>4, <1>5 DEF CredInv, CredTypes, EmptyRows, Numbered
<1>12. Pairs'
    BY <1>1, PairsStay
<1>. QED
    BY <1>6, <1>8, <1>10, <1>11, <1>12 DEF CredInv

(* Time, the user's row, the target and the permissions.                   *)
LEMMA EnvironmentKeeps ==
    ASSUME CredInv, Cred!Tick \/ Cred!ChangeUser \/ Cred!ChangeTarget
    PROVE  CredInv'
<1>1. /\ UNCHANGED <<tempAcct, sess, grant, pw, tok, seq, secret, userLock, credReq, exchanged, overtaken>>
      /\ now' \in Nat /\ now' >= now
    BY DEF Cred!Tick, Cred!ChangeUser, Cred!ChangeTarget, Cred!tables, Cred!history, CredInv, CredTypes
<1>2. Cred!ActivePermanent' = Cred!ActivePermanent
    BY <1>1 DEF Cred!ActivePermanent
<1>3. Others(NoOne)
    BY <1>1, <1>2 DEF Others, CredInv, CredTypes
<1>4. RequestsFit'
    BY <1>3, RequestsEnd, CredentialsAssumption
<1>5. ASSUME NEW a \in Cred!TemporaryAccounts PROVE Promised(a)'
    <2>1. Untouched(a)
        BY <1>1 DEF Untouched
    <2>. QED
        BY <2>1, <1>1, UntouchedStays
<1>6. Cred!DisabledAccessIsDead' /\ InStep'
    BY <1>5, PromisedNext
<1>7. CredTypes' /\ EmptyRows' /\ Numbered' /\ OnePermanent'
    BY <1>1, <1>2 DEF CredInv, CredTypes, EmptyRows, Numbered, OnePermanent
<1>8. Pairs'
    BY <1>1, PairsStay
<1>. QED
    BY <1>4, <1>6, <1>7, <1>8 DEF CredInv

-----------------------------------------------------------------------------
LEMMA CredInvInit == Cred!Init => CredInv
<1>. SUFFICES ASSUME Cred!Init PROVE CredInv
    OBVIOUS
<1>1. /\ now = 0 /\ seq = 1 /\ secret = 0 /\ exchanged = {}
      /\ tempAcct = [a \in Cred!TemporaryAccounts |-> Cred!NoAccount]
      /\ sess = [s \in 1 .. MaxSeq |-> Cred!NoSession]
      /\ grant = [a \in UserAccounts |-> Cred!NoGrant]
      /\ pw = [k \in UserAccounts \cup Passwords |-> Cred!NoGrant]
      /\ tok = [a \in AIAccounts |-> Cred!NoToken]
      /\ credReq = [p \in Procs |-> Cred!Idle]
    BY DEF Cred!Init
<1>2. /\ Cred!NoAccount \in TempRow /\ Cred!NoAccount.status = "none"
      /\ Cred!NoSession \in SessRow /\ Cred!NoSession.type = "none"
      /\ Cred!NoGrant \in GrantRow
      /\ Cred!NoToken \in TokenRow /\ Cred!NoToken.status = "none" /\ Cred!NoToken.pair = 0
    BY DEF Cred!NoAccount, Cred!NoSession, Cred!NoGrant, Cred!NoToken, TempRow, SessRow, GrantRow, TokenRow
<1>3. CredTypes
    BY <1>1, <1>2, IdleTyped DEF CredTypes
<1>4. \A a \in Cred!TemporaryAccounts : tempAcct[a].status = "none"
    BY <1>1, <1>2
<1>5. EmptyRows /\ Numbered /\ Cred!DisabledAccessIsDead /\ InStep
    BY <1>1, <1>2, <1>4 DEF EmptyRows, Numbered, Cred!DisabledAccessIsDead, InStep, Cred!TemporaryAccounts
<1>6. \A p \in Procs : credReq[p].op = "idle"
    BY <1>1, IdleTyped
<1>7. RequestsFit
    BY <1>6 DEF RequestsFit, Fits, CreateFits, ExtendFits, SessionFits, LoginFits, RotateFits, Apart, Cred!At
<1>8. Pairs
    BY <1>1, <1>2 DEF Pairs, Cred!RefreshTokenUsedOnce
<1>9. OnePermanent
    BY <1>1, <1>2 DEF OnePermanent, Cred!ActivePermanent
<1>. QED
    BY <1>3, <1>5, <1>7, <1>8, <1>9 DEF CredInv

LEMMA CredInvNext == CredInv /\ [Cred!Next]_Cred!vars => CredInv'
<1>. SUFFICES ASSUME CredInv, [Cred!Next]_Cred!vars PROVE CredInv'
    OBVIOUS
<1>1. CASE UNCHANGED Cred!vars
    <2>1. /\ UNCHANGED <<now, tempAcct, sess, grant, pw, tok, seq, secret, exchanged, overtaken>>
          /\ UNCHANGED <<userLock, credReq>>
        BY <1>1 DEF Cred!vars
    <2>2. Cred!ActivePermanent' = Cred!ActivePermanent
        BY <2>1 DEF Cred!ActivePermanent
    <2>3. Others(NoOne)
        BY <2>1, <2>2 DEF Others, CredInv, CredTypes
    <2>4. RequestsFit'
        BY <2>3, RequestsEnd, CredentialsAssumption
    <2>. QED
        BY <2>1, <2>4, TablesStay DEF CredInv, CredTypes
<1>2. ASSUME NEW p \in Procs, Cred!TemporaryAccessStep(p) PROVE CredInv'
    <2>1. ASSUME NEW a \in Cred!TemporaryAccounts, NEW exp \in Expiries,
                 Cred!createTemporaryAuthorization(p, a, exp) \/ Cred!handleAITokens(p, a, exp)
          PROVE  CredInv'
        <3>1. Cred!Create(p, a, exp)
            BY <2>1 DEF Cred!createTemporaryAuthorization, Cred!handleAITokens, Cred!CreateAI
        <3>2. Quiet
            BY <2>1, QuietStep DEF Cred!createTemporaryAuthorization, Cred!handleAITokens
        <3>. QED
            BY <1>2, <2>1, <3>1, <3>2, CreateBegins
    <2>. QED
        BY <1>2, <2>1, ExtendBegins, AllocateKeeps, CreateUserKeeps, CreateAIKeeps, RetryCreateKeeps,
           QuietStepKeeps, ReadAccountKeeps, ExtendKeeps DEF Cred!TemporaryAccessStep
<1>3. ASSUME NEW p \in Procs, Cred!TokenStep(p) PROVE CredInv'
    BY <1>3, RotateBegins, QuietStepKeeps, RotateKeeps, ResultKeeps, ResourceBegins DEF Cred!TokenStep
<1>4. ASSUME NEW p \in Procs, Cred!SessionStep(p) PROVE CredInv'
    BY <1>4, SessionBegins, LockKeeps, PermanentKeeps, QuietStepKeeps, PasswordKeeps, LoginBegins,
       MarkKeeps DEF Cred!SessionStep
<1>. QED
    BY <1>1, <1>2, <1>3, <1>4, DisableKeeps, RevokeKeeps, EnvironmentKeeps DEF Cred!Next

-----------------------------------------------------------------------------
(* The accounts of AI clients: the session of an active one, the requests  *)
(* for a password made with its token, and the passwords issued with it.   *)
(* An account that is disabled was so no earlier than any of these         *)
(* requests began, which bounds what they leave behind.                    *)
AITypes == /\ moved \subseteq AIAccounts /\ ended \in [AIAccounts -> Nat]
           /\ issued \subseteq Passwords \X AIAccounts

AIAt(a) ==
    tempAcct[a].status = "active" =>
        /\ a \notin moved => sess[tempAcct[a].sid].exp = tempAcct[a].exp
        /\ \/ sess[tempAcct[a].sid].status = "active"
           \/ sess[tempAcct[a].sid].exp <= now
           \/ tempAcct[a].sid \in overtaken

AskedWith(a, at) ==
    /\ at <= now /\ tempAcct[a].status # "none"
    /\ tempAcct[a].status = "disabled" => at <= ended[a]

Asked(p) ==
    credReq[p].op = "password" /\ credReq[p].acct \in AIAccounts =>
        AskedWith(credReq[p].acct, credReq[p].at)

IssuedAt(k, a) ==
    /\ pw[k].status # "none" /\ tempAcct[a].status # "none"
    /\ pw[k].exp <= now + Cred!PasswordTTL
    /\ tempAcct[a].status = "disabled" => pw[k].exp <= ended[a] + Cred!PasswordTTL

AIInv == /\ AITypes
         /\ \A a \in AIAccounts : AIAt(a)
         /\ \A p \in Procs : Asked(p)
         /\ \A k \in Passwords, a \in AIAccounts : <<k, a>> \in issued => IssuedAt(k, a)

(* An account is created, stays as it is, or is disabled now.              *)
Lives ==
    /\ now' \in Nat /\ now' >= now
    /\ \A a \in AIAccounts :
          \/ tempAcct'[a].status = tempAcct[a].status /\ ended'[a] = ended[a]
          \/ tempAcct[a].status = "none" /\ tempAcct'[a].status = "active"
          \/ tempAcct[a].status = "active" /\ tempAcct'[a].status = "disabled" /\ ended'[a] = now

SameAsk(q) ==
    \/ credReq'[q].op # "password"
    \/ /\ credReq[q].op = "password" /\ credReq'[q].acct = credReq[q].acct
       /\ credReq'[q].at = credReq[q].at

LEMMA AskedStays ==
    ASSUME CredInv, AIInv, Lives, NEW q \in Procs, SameAsk(q)
    PROVE  Asked(q)'
<1>. SUFFICES ASSUME credReq'[q].op = "password", credReq'[q].acct \in AIAccounts
              PROVE  /\ credReq'[q].at <= now' /\ tempAcct'[credReq'[q].acct].status # "none"
                     /\ tempAcct'[credReq'[q].acct].status = "disabled" =>
                           credReq'[q].at <= ended'[credReq'[q].acct]
    BY DEF Asked, AskedWith
<1>1. PICK a \in AIAccounts, t \in Nat :
          a = credReq[q].acct /\ t = credReq[q].at /\ a = credReq'[q].acct /\ t = credReq'[q].at
    BY DEF SameAsk, CredInv, CredTypes, CredReq
<1>2. AskedWith(a, t) /\ now \in Nat
    BY <1>1 DEF AIInv, Asked, SameAsk, CredInv, CredTypes
<1>3. t <= now' /\ tempAcct'[a].status # "none" /\ (tempAcct'[a].status = "disabled" => t <= ended'[a])
    BY <1>1, <1>2 DEF AskedWith, Lives
<1>. QED
    BY <1>1, <1>3

LEMMA IssuedStays ==
    ASSUME CredInv, AIInv, Lives, NEW k \in Passwords, NEW a \in AIAccounts, <<k, a>> \in issued,
           pw'[k] = pw[k]
    PROVE  IssuedAt(k, a)'
<1>1. IssuedAt(k, a) /\ now \in Nat /\ pw[k].exp \in Nat
    BY DEF AIInv, CredInv, CredTypes, GrantRow
<1>. QED
    BY <1>1 DEF IssuedAt, Lives, Cred!PasswordTTL

LEMMA AIStep ==
    ASSUME CredInv, AIInv, Lives, AITypes', issued' = issued,
           \A a \in AIAccounts : AIAt(a)',
           \A q \in Procs : SameAsk(q) \/ Asked(q)',
           \A k \in Passwords : pw'[k] = pw[k]
    PROVE  AIInv'
BY AskedStays, IssuedStays DEF AIInv

(* The rows of an account the step does not touch.                         *)
AISame(a) ==
    /\ tempAcct'[a] = tempAcct[a]
    /\ tempAcct[a].status # "none" => sess'[tempAcct[a].sid] = sess[tempAcct[a].sid]

LEMMA AISameStays ==
    ASSUME CredInv, AIInv, NEW a \in AIAccounts, AISame(a), now' \in Nat, now' >= now,
           moved \subseteq moved', overtaken \subseteq overtaken'
    PROVE  AIAt(a)'
<1>1. AIAt(a) /\ now \in Nat
    BY DEF AIInv, CredInv, CredTypes
<1>2. tempAcct[a].status = "active" => sess[tempAcct[a].sid].exp \in Nat
    BY DEF CredInv, CredTypes, SessRow, Numbered, Cred!TemporaryAccounts
<1>. QED
    BY <1>1, <1>2 DEF AIAt, AISame

(* No row that AIInv looks at is written.                                  *)
AIQuiet == /\ UNCHANGED <<tempAcct, sess, pw, overtaken, moved, ended, issued>>
           /\ now' \in Nat /\ now' >= now

LEMMA AIQuietKeeps ==
    ASSUME CredInv, AIInv, AIQuiet, \A q \in Procs : SameAsk(q) \/ Asked(q)'
    PROVE  AIInv'
<1>1. Lives /\ AITypes'
    BY DEF AIQuiet, Lives, AIInv, AITypes
<1>2. \A a \in AIAccounts : AISame(a)
    BY DEF AIQuiet, AISame
<1>3. \A a \in AIAccounts : AIAt(a)'
    BY <1>2, AISameStays DEF AIQuiet
<1>. QED
    BY <1>1, <1>3, AIStep DEF AIQuiet

(* What happens to the requests.                                           *)
LEMMA ReplyAsks ==
    ASSUME CredInv, NEW p \in Procs, Cred!Reply(p)
    PROVE  \A q \in Procs : SameAsk(q)
BY IdleTyped DEF SameAsk, Cred!Reply, CredInv, CredTypes

LEMMA GotoAsks ==
    ASSUME CredInv, NEW p \in Procs, NEW c, Cred!Goto(p, c)
    PROVE  \A q \in Procs : SameAsk(q)
<1>1. \A q \in Procs : credReq[q] \in CredReq
    BY DEF CredInv, CredTypes
<1>. QED
    BY <1>1 DEF SameAsk, Cred!Goto, CredInv, CredTypes, CredReq

LEMMA BeginAsks ==
    ASSUME CredInv, NEW p \in Procs, NEW r, credReq' = [credReq EXCEPT ![p] = r],
           r.op # "password" \/ Asked(p)'
    PROVE  \A q \in Procs : SameAsk(q) \/ Asked(q)'
BY DEF SameAsk, CredInv, CredTypes

LEMMA AIQuietStep ==
    ASSUME CredInv, UNCHANGED <<Cred!environment, Cred!tables, Cred!history>>
    PROVE  AIQuiet
BY DEF AIQuiet, Cred!environment, Cred!tables, Cred!history, CredInv, CredTypes

LEMMA AIBegins ==
    ASSUME CredInv, AIInv, NEW p \in Procs,
           \/ \E a \in Cred!TemporaryAccounts, exp \in Expiries :
                \/ Cred!createTemporaryAuthorization(p, a, exp)
                \/ Cred!handleAITokens(p, a, exp)
                \/ Cred!extendTemporaryAccount(p, a, exp)
           \/ \E a \in AIAccounts :
                \/ Cred!handleAIRefresh(p, a) \/ Cred!handleAIReissue(p, a)
                \/ Cred!issueAIResourceSession(p, a)
           \/ Cred!handleUserSessions(p)
           \/ \E s \in 1 .. MaxSeq, k \in DOMAIN pw : Cred!Authenticate(p, s, k)
    PROVE  AIInv'
<1>1. AIQuiet
    BY AIQuietStep DEF Cred!createTemporaryAuthorization, Cred!handleAITokens,
       Cred!extendTemporaryAccount, Cred!handleAIRefresh, Cred!handleAIReissue,
       Cred!issueAIResourceSession, Cred!handleUserSessions, Cred!Authenticate
<1>2. \A q \in Procs : SameAsk(q)
    <2>1. ASSUME NEW a \in Cred!TemporaryAccounts, NEW exp \in Expiries, Cred!Create(p, a, exp)
          PROVE  \A q \in Procs : SameAsk(q)
        BY <2>1 DEF Cred!Create, Cred!Idle, SameAsk, CredInv, CredTypes
    <2>2. ASSUME NEW a \in Cred!TemporaryAccounts, NEW exp \in Expiries, Cred!extendTemporaryAccount(p, a, exp)
          PROVE  \A q \in Procs : SameAsk(q)
        BY <2>2 DEF Cred!extendTemporaryAccount, Cred!Extend, Cred!Begin, Cred!Idle, SameAsk, CredInv, CredTypes
    <2>3. ASSUME NEW a \in AIAccounts, Cred!handleAIRefresh(p, a)
          PROVE  \A q \in Procs : SameAsk(q)
        <3>1. PICK n \in 1 .. secret : Cred!Refresh(p, a, n)
            BY <2>3 DEF Cred!handleAIRefresh
        <3>. QED
            BY <3>1 DEF Cred!Refresh, Cred!Begin, Cred!Idle, SameAsk, CredInv, CredTypes
    <2>4. ASSUME NEW a \in AIAccounts, Cred!handleAIReissue(p, a)
          PROVE  \A q \in Procs : SameAsk(q)
        BY <2>4 DEF Cred!handleAIReissue, Cred!Reissue, Cred!Begin, Cred!Idle, SameAsk, CredInv, CredTypes
    <2>5. ASSUME NEW a \in AIAccounts, Cred!issueAIResourceSession(p, a)
          PROVE  \A q \in Procs : SameAsk(q)
        BY <2>5 DEF Cred!issueAIResourceSession, Cred!Begin, Cred!Idle, SameAsk, CredInv, CredTypes
    <2>6. ASSUME Cred!handleUserSessions(p)
          PROVE  \A q \in Procs : SameAsk(q)
        BY <2>6 DEF Cred!handleUserSessions, Cred!Begin, Cred!Idle, SameAsk, CredInv, CredTypes
    <2>7. ASSUME NEW n \in 1 .. MaxSeq, NEW k \in DOMAIN pw, Cred!Authenticate(p, n, k)
          PROVE  \A q \in Procs : SameAsk(q)
        BY <2>7 DEF Cred!Authenticate, Cred!Begin, Cred!Idle, SameAsk, CredInv, CredTypes
    <2>. QED
        BY <2>1, <2>2, <2>3, <2>4, <2>5, <2>6, <2>7 DEF Cred!createTemporaryAuthorization,
           Cred!handleAITokens, Cred!CreateAI
<1>. QED
    BY <1>1, <1>2, AIQuietKeeps

(* A password is asked for: by the user, or with a token that is good now. *)
LEMMA AIAsks ==
    ASSUME CredInv, AIInv, NEW p \in Procs,
           \/ Cred!handleConnectionPasswords(p)
           \/ \E a \in AIAccounts : Cred!issueAIResourceCredential(p, a)
    PROVE  AIInv'
<1>1. AIQuiet /\ UNCHANGED now
    BY AIQuietStep DEF Cred!handleConnectionPasswords, Cred!issueAIResourceCredential, Cred!environment
<1>2. CASE Cred!handleConnectionPasswords(p)
    <2>. DEFINE r == [Cred!Idle EXCEPT !.op = "password", !.pc = "authorize", !.at = now]
    <2>1. credReq' = [credReq EXCEPT ![p] = r] /\ r.acct = NoOne
        BY <1>2 DEF Cred!handleConnectionPasswords, Cred!Begin, Cred!Idle
    <2>. HIDE DEF r
    <2>2. credReq'[p].acct \notin AIAccounts
        BY <2>1, CredentialsAssumption DEF CredInv, CredTypes
    <2>. QED
        BY <1>1, <2>1, <2>2, BeginAsks, AIQuietKeeps DEF Asked
<1>3. ASSUME NEW a \in AIAccounts, Cred!issueAIResourceCredential(p, a) PROVE AIInv'
    <2>. DEFINE r == [Cred!Idle EXCEPT !.op = "password", !.pc = "authorize", !.acct = a, !.at = now]
    <2>1. credReq' = [credReq EXCEPT ![p] = r] /\ r.acct = a /\ r.at = now
        BY <1>3 DEF Cred!issueAIResourceCredential, Cred!Begin, Cred!Idle
    <2>. HIDE DEF r
    <2>2. credReq'[p].acct = a /\ credReq'[p].at = now
        BY <2>1 DEF CredInv, CredTypes
    <2>3. tempAcct[a].status = "active"
        BY <1>3 DEF Cred!issueAIResourceCredential, Cred!AuthenticateAIAccessToken, Cred!TokenUsable,
           Cred!AccountLive
    <2>4. now <= now' /\ tempAcct'[a].status = "active"
        BY <1>1, <2>3 DEF AIQuiet, CredInv, CredTypes
    <2>5. Asked(p)'
        BY <2>2, <2>4 DEF Asked, AskedWith
    <2>. QED
        BY <1>1, <2>1, <2>5, BeginAsks, AIQuietKeeps
<1>. QED
    BY <1>2, <1>3

(* The steps that write none of the rows.                                  *)
LEMMA AIQuietSteps ==
    ASSUME CredInv, AIInv, NEW p \in Procs,
           \/ Cred!allocateTemporarySessionIdentity(p) \/ Cred!RetryCreate(p)
           \/ Cred!CreateRefused(p) \/ Cred!ReadAccount(p) \/ Cred!ReadToken(p)
           \/ Cred!RotateAIAccessToken(p)
           \/ \E written \in BOOLEAN : Cred!recordAIRefreshResult(p, written)
           \/ Cred!GetOrCreateAIResourceSession(p) \/ Cred!LockUser(p)
           \/ Cred!SessionRefused(p) \/ Cred!AuthorizeIssue(p)
           \/ Cred!authenticateCompact(p) \/ Cred!AuthenticateConnectionPassword(p)
           \/ Cred!Logout(p)
    PROVE  AIInv'
<1>1. AIQuiet
    BY AIQuietStep DEF Cred!allocateTemporarySessionIdentity, Cred!RetryCreate, Cred!CreateRefused,
       Cred!ReadAccount, Cred!ReadToken, Cred!RotateAIAccessToken, Cred!recordAIRefreshResult,
       Cred!GetOrCreateAIResourceSession, Cred!LockUser, Cred!SessionRefused, Cred!AuthorizeIssue,
       Cred!authenticateCompact, Cred!AuthenticateConnectionPassword, Cred!Logout,
       AIQuiet, Cred!environment, Cred!tables, Cred!history, CredInv, CredTypes
<1>2. \A q \in Procs : credReq[q] \in CredReq
    BY DEF CredInv, CredTypes
<1>3. ASSUME Cred!allocateTemporarySessionIdentity(p) PROVE \A q \in Procs : SameAsk(q)
    BY <1>2, <1>3 DEF Cred!allocateTemporarySessionIdentity, SameAsk, CredInv, CredTypes, CredReq
<1>4. ASSUME Cred!RetryCreate(p) PROVE \A q \in Procs : SameAsk(q)
    <2>1. CASE credReq[p].tries + 1 < MaxAttempts
        <3>1. credReq' = [credReq EXCEPT ![p] = [credReq[p] EXCEPT !.pc = "allocate", !.tries = credReq[p].tries + 1]]
              /\ credReq[p].op = "create"
            BY <1>4, <2>1 DEF Cred!RetryCreate, Cred!At
        <3>. QED
            BY <1>2, <3>1 DEF SameAsk, CredInv, CredTypes, CredReq
    <2>2. CASE ~(credReq[p].tries + 1 < MaxAttempts)
        <3>1. Cred!Reply(p)
            BY <1>4, <2>2 DEF Cred!RetryCreate, Cred!Reply
        <3>. QED
            BY <3>1, ReplyAsks
    <2>. QED
        BY <2>1, <2>2
<1>5. ASSUME Cred!RotateAIAccessToken(p) PROVE \A q \in Procs : SameAsk(q)
    <2>1. CASE Cred!Rotates(p)
        <3>1. credReq' = [credReq EXCEPT ![p].pc = "result", ![p].next = secret + 1]
            BY <1>5, <2>1 DEF Cred!RotateAIAccessToken
        <3>. QED
            BY <1>2, <3>1 DEF SameAsk, CredInv, CredTypes, CredReq
    <2>2. CASE ~Cred!Rotates(p)
        BY <1>5, <2>2, ReplyAsks DEF Cred!RotateAIAccessToken
    <2>. QED
        BY <2>1, <2>2
<1>6. ASSUME Cred!LockUser(p) PROVE \A q \in Procs : SameAsk(q)
    <2>1. PICK n : credReq' = [credReq EXCEPT ![p].pc = "insert", ![p].tries = n]
        BY <1>6 DEF Cred!LockUser
    <2>. QED
        BY <1>2, <2>1 DEF SameAsk, CredInv, CredTypes, CredReq
<1>7. ASSUME \/ Cred!CreateRefused(p) \/ Cred!ReadAccount(p) \/ Cred!ReadToken(p)
             \/ \E written \in BOOLEAN : Cred!recordAIRefreshResult(p, written)
             \/ Cred!GetOrCreateAIResourceSession(p)
             \/ Cred!SessionRefused(p) \/ Cred!AuthorizeIssue(p)
             \/ Cred!authenticateCompact(p) \/ Cred!AuthenticateConnectionPassword(p)
             \/ Cred!Logout(p)
      PROVE  \A q \in Procs : SameAsk(q)
    <2>1. Cred!Reply(p) \/ \E c : Cred!Goto(p, c)
        BY <1>7 DEF Cred!CreateRefused, Cred!ReadAccount, Cred!ReadToken, Cred!recordAIRefreshResult,
           Cred!GetOrCreateAIResourceSession, Cred!SessionRefused, Cred!AuthorizeIssue,
           Cred!authenticateCompact, Cred!AuthenticateConnectionPassword, Cred!Logout, Cred!Goto
    <2>. QED
        BY <2>1, ReplyAsks, GotoAsks
<1>. QED
    BY <1>1, <1>3, <1>4, <1>5, <1>6, <1>7, AIQuietKeeps

(* An account of either kind is created.                                   *)
LEMMA AICreates ==
    ASSUME CredInv, AIInv, NEW p \in Procs, Cred!CreateTemporaryAccess(p) \/ Cred!CreateTemporaryAIAccess(p)
    PROVE  AIInv'
<1>1. /\ Cred!At(p, "create", "insert") /\ Cred!Insert(p, "temporary") /\ Cred!Reply(p)
      /\ UNCHANGED <<now, overtaken, moved, ended, issued>>
    BY DEF Cred!CreateTemporaryAccess, Cred!CreateTemporaryAIAccess, Cred!environment, Cred!history
<1>2. PICK a \in Cred!TemporaryAccounts, n \in 1 .. MaxSeq :
          /\ tempAcct[a].status = "none" /\ sess[n].type = "none"
          /\ tempAcct'[a].status = "active" /\ tempAcct'[a].sid = n
          /\ \A b \in Cred!TemporaryAccounts \ {a} : tempAcct'[b] = tempAcct[b]
          /\ sess'[n].status = "active" /\ sess'[n].exp = tempAcct'[a].exp
          /\ \A s \in (1 .. MaxSeq) \ {n} : sess'[s] = sess[s]
    BY <1>1, InsertKeeps
<1>3. \A k \in Passwords : pw'[k] = pw[k]
    <2>1. CASE Cred!CreateTemporaryAccess(p)
        <3>1. \E x \in UserAccounts : \E v : pw' = [pw EXCEPT ![x] = v]
            BY <2>1 DEF Cred!CreateTemporaryAccess
        <3>. QED
            BY <3>1, CredentialsAssumption DEF CredInv, CredTypes
    <2>2. CASE Cred!CreateTemporaryAIAccess(p)
        BY <2>2 DEF Cred!CreateTemporaryAIAccess
    <2>. QED
        BY <2>1, <2>2
<1>4. Lives /\ AITypes'
    <2>1. \A b \in AIAccounts :
             \/ tempAcct'[b].status = tempAcct[b].status
             \/ tempAcct[b].status = "none" /\ tempAcct'[b].status = "active"
        BY <1>2 DEF Cred!TemporaryAccounts
    <2>. QED
        BY <1>1, <2>1 DEF Lives, AIInv, AITypes, CredInv, CredTypes
<1>5. ASSUME NEW b \in AIAccounts PROVE AIAt(b)'
    <2>1. CASE b = a
        BY <2>1, <1>2 DEF AIAt
    <2>2. CASE b # a
        <3>1. tempAcct[b].status # "none" =>
                  tempAcct[b].sid \in 1 .. MaxSeq /\ sess[tempAcct[b].sid].type = "temporary"
            BY DEF CredInv, Numbered, Cred!TemporaryAccounts
        <3>2. AISame(b)
            BY <1>2, <2>2, <3>1 DEF AISame, Cred!TemporaryAccounts
        <3>. QED
            BY <1>1, <3>2, AISameStays DEF CredInv, CredTypes
    <2>. QED
        BY <2>1, <2>2
<1>. QED
    BY <1>1, <1>3, <1>4, <1>5, ReplyAsks, AIStep

LEMMA AIExtends ==
    ASSUME CredInv, AIInv, NEW p \in Procs, Cred!ExtendTemporaryAccess(p)
    PROVE  AIInv'
<1>1. /\ Cred!Reply(p) /\ credReq[p].op = "extend"
      /\ UNCHANGED <<now, overtaken, ended, issued>>
    BY DEF Cred!ExtendTemporaryAccess, Cred!At, Cred!environment
<1>2. PICK a \in Cred!TemporaryAccounts, e \in Nat, n \in 1 .. MaxSeq :
          /\ a = credReq[p].acct /\ e = credReq[p].exp /\ tempAcct[a].status # "none"
          /\ tempAcct[a].sid = n
    BY <1>1 DEF CredInv, CredTypes, RequestsFit, Fits, ExtendFits, CredReq, Numbered
<1>3. CASE UNCHANGED <<tempAcct, grant, sess, pw, moved>>
    <2>1. AIQuiet
        BY <1>1, <1>3 DEF AIQuiet, CredInv, CredTypes
    <2>. QED
        BY <1>1, <2>1, ReplyAsks, AIQuietKeeps
<1>4. CASE ~UNCHANGED <<tempAcct, grant, sess, pw, moved>>
    <2>1. /\ tempAcct' = [tempAcct EXCEPT ![a].exp = e]
          /\ a \in UserAccounts => Cred!ExtendDependents(a, e)
          /\ a \notin UserAccounts => UNCHANGED <<grant, sess, pw>>
          /\ moved' = moved \cup ({a} \cap AIAccounts)
        BY <1>2, <1>4 DEF Cred!ExtendTemporaryAccess
    <2>2. /\ tempAcct'[a].status = tempAcct[a].status /\ tempAcct'[a].sid = n
          /\ \A b \in Cred!TemporaryAccounts \ {a} : tempAcct'[b] = tempAcct[b]
        BY <1>2, <2>1 DEF CredInv, CredTypes, TempRow
    <2>3. Lives /\ AITypes' /\ moved \subseteq moved'
        BY <1>1, <2>1, <2>2 DEF Lives, AIInv, AITypes, CredInv, CredTypes, Cred!TemporaryAccounts
    <2>4. /\ \A k \in Passwords : pw'[k] = pw[k]
          /\ \A s \in (1 .. MaxSeq) \ {n} : sess'[s] = sess[s]
          /\ a \notin UserAccounts => sess' = sess
        <3>1. CASE a \in UserAccounts
            <4>1. pw' = [pw EXCEPT ![a].exp = e] /\ sess' = [sess EXCEPT ![n].exp = e]
                BY <1>2, <2>1, <3>1 DEF Cred!ExtendDependents
            <4>. QED
                BY <3>1, <4>1, CredentialsAssumption DEF CredInv, CredTypes
        <3>2. CASE a \notin UserAccounts
            BY <2>1, <3>2
        <3>. QED
            BY <3>1, <3>2
    <2>5. ASSUME NEW b \in AIAccounts PROVE AIAt(b)'
        <3>1. CASE b = a
            <4>1. AIAt(a) /\ a \in moved' /\ sess' = sess
                BY <3>1, <2>1, <2>4, CredentialsAssumption DEF AIInv
            <4>. QED
                BY <1>1, <1>2, <2>2, <3>1, <4>1 DEF AIAt
        <3>2. CASE b # a
            <4>1. tempAcct[b].status # "none" => tempAcct[b].sid \in (1 .. MaxSeq) \ {n}
                BY <1>2, <3>2 DEF CredInv, Numbered, Cred!TemporaryAccounts
            <4>2. AISame(b)
                BY <2>2, <2>4, <3>2, <4>1 DEF AISame, Cred!TemporaryAccounts
            <4>. QED
                BY <1>1, <2>3, <4>2, AISameStays DEF CredInv, CredTypes
        <3>. QED
            BY <3>1, <3>2
    <2>. QED
        BY <1>1, <2>3, <2>4, <2>5, ReplyAsks, AIStep
<1>. QED
    BY <1>3, <1>4

LEMMA AIDisables ==
    ASSUME CredInv, AIInv, NEW a \in Cred!TemporaryAccounts, Cred!disableTemporaryAccount(a)
    PROVE  AIInv'
<1>1. /\ UNCHANGED <<now, credReq, overtaken, moved, issued>>
      /\ tempAcct[a] # Cred!NoAccount /\ tempAcct' = [tempAcct EXCEPT ![a].status = "disabled"]
      /\ Cred!DisableDependents(a)
      /\ ended' = IF a \in AIAccounts /\ tempAcct[a].status = "active"
                  THEN [ended EXCEPT ![a] = now] ELSE ended
    BY DEF Cred!disableTemporaryAccount, Cred!DisableTemporaryAccess, Cred!environment
<1>2. PICK n \in 1 .. MaxSeq : n = tempAcct[a].sid /\ tempAcct[a].status # "none"
    BY <1>1 DEF CredInv, EmptyRows, Numbered
<1>3. /\ tempAcct'[a].status = "disabled" /\ tempAcct[a].status \in {"active", "disabled"}
      /\ \A b \in Cred!TemporaryAccounts \ {a} : tempAcct'[b] = tempAcct[b]
    BY <1>1, <1>2 DEF CredInv, CredTypes, TempRow
<1>4. sess' = [sess EXCEPT ![n].status = "disabled"]
    BY <1>1, <1>2 DEF Cred!DisableDependents
<1>5. \A s \in (1 .. MaxSeq) \ {n} : sess'[s] = sess[s]
    BY <1>4 DEF CredInv, CredTypes
<1>6. \A k \in Passwords : pw'[k] = pw[k]
    <2>1. CASE a \in UserAccounts
        <3>1. pw' = [pw EXCEPT ![a].status = "revoked"]
            BY <2>1, <1>1 DEF Cred!DisableDependents
        <3>. QED
            BY <2>1, <3>1, CredentialsAssumption DEF CredInv, CredTypes
    <2>2. CASE a \notin UserAccounts
        BY <2>2, <1>1 DEF Cred!DisableDependents
    <2>. QED
        BY <2>1, <2>2
<1>7. Lives /\ AITypes'
    <2>1. now \in Nat /\ ended \in [AIAccounts -> Nat]
        BY DEF CredInv, CredTypes, AIInv, AITypes
    <2>2. ended' \in [AIAccounts -> Nat]
        BY <1>1, <2>1
    <2>3. \A b \in AIAccounts \ {a} : ended'[b] = ended[b] /\ tempAcct'[b] = tempAcct[b]
        BY <1>1, <1>3, <2>1 DEF Cred!TemporaryAccounts
    <2>4. a \in AIAccounts => IF tempAcct[a].status = "active" THEN ended'[a] = now ELSE ended'[a] = ended[a]
        BY <1>1, <2>1
    <2>. QED
        BY <1>1, <1>3, <2>1, <2>2, <2>3, <2>4 DEF Lives, AIInv, AITypes
<1>8. ASSUME NEW b \in AIAccounts PROVE AIAt(b)'
    <2>1. CASE b = a
        BY <2>1, <1>3 DEF AIAt
    <2>2. CASE b # a
        <3>1. tempAcct[b].status # "none" => tempAcct[b].sid \in (1 .. MaxSeq) \ {n}
            BY <1>2, <2>2 DEF CredInv, Numbered, Cred!TemporaryAccounts
        <3>2. AISame(b)
            BY <1>3, <1>5, <2>2, <3>1 DEF AISame, Cred!TemporaryAccounts
        <3>. QED
            BY <1>1, <3>2, AISameStays DEF CredInv, CredTypes
    <2>. QED
        BY <2>1, <2>2
<1>9. \A q \in Procs : credReq'[q] = credReq[q]
    BY <1>1
<1>. QED
    BY <1>1, <1>6, <1>7, <1>8, <1>9, AIStep DEF SameAsk

LEMMA AIPermanent ==
    ASSUME CredInv, AIInv, NEW p \in Procs, Cred!GetOrCreateActivePermanentUserSession(p)
    PROVE  AIInv'
<1>. DEFINE n == Cred!NextSequenceValue
<1>1. /\ Cred!Reply(p) /\ UNCHANGED <<now, tempAcct, pw, overtaken, moved, ended, issued>>
    BY DEF Cred!GetOrCreateActivePermanentUserSession, Cred!environment, Cred!history
<1>2. n \in Nat /\ n >= seq /\ seq \in Nat
    BY NextNumber DEF CredInv, CredTypes
<1>3. \A s \in 1 .. MaxSeq : s < seq => sess'[s] = sess[s]
    <2>1. CASE UNCHANGED sess
        BY <2>1
    <2>2. CASE ~UNCHANGED sess
        <3>1. PICK v : sess' = [sess EXCEPT ![n] = v]
            BY <2>2 DEF Cred!GetOrCreateActivePermanentUserSession
        <3>. HIDE DEF n
        <3>. QED
            BY <1>2, <3>1 DEF CredInv, CredTypes
    <2>. QED
        BY <2>1, <2>2
<1>4. ASSUME NEW b \in AIAccounts PROVE AIAt(b)'
    <2>1. tempAcct[b].status # "none" => tempAcct[b].sid \in 1 .. MaxSeq /\ tempAcct[b].sid < seq
        BY DEF CredInv, Numbered, Cred!TemporaryAccounts
    <2>2. AISame(b)
        BY <1>1, <1>3, <2>1 DEF AISame
    <2>. QED
        BY <1>1, <2>2, AISameStays DEF CredInv, CredTypes
<1>5. Lives /\ AITypes'
    BY <1>1 DEF Lives, AIInv, AITypes, CredInv, CredTypes
<1>. QED
    BY <1>1, <1>4, <1>5, ReplyAsks, AIStep

LEMMA AIMarks ==
    ASSUME CredInv, AIInv, NEW p \in Procs, Cred!MarkSessionExpired(p)
    PROVE  AIInv'
<1>1. /\ Cred!Reply(p) /\ Cred!At(p, "login", "mark")
      /\ UNCHANGED <<now, tempAcct, pw, moved, ended, issued>>
    BY DEF Cred!MarkSessionExpired, Cred!environment
<1>2. PICK s \in 1 .. MaxSeq, e \in Nat : s = credReq[p].sid /\ e = credReq[p].exp /\ e < now
    BY <1>1 DEF CredInv, CredTypes, CredReq, RequestsFit, Fits, LoginFits, Cred!At
<1>3. /\ sess' = [sess EXCEPT ![s].status = "expired"]
      /\ overtaken \subseteq overtaken' /\ (sess[s].exp = e \/ s \in overtaken')
    BY <1>2 DEF Cred!MarkSessionExpired
<1>4. /\ sess'[s].exp = sess[s].exp /\ \A t \in (1 .. MaxSeq) \ {s} : sess'[t] = sess[t]
    BY <1>3 DEF CredInv, CredTypes, SessRow
<1>5. ASSUME NEW b \in AIAccounts PROVE AIAt(b)'
    <2>1. tempAcct[b].status # "none" => tempAcct[b].sid \in 1 .. MaxSeq
        BY DEF CredInv, Numbered, Cred!TemporaryAccounts
    <2>2. CASE tempAcct[b].status # "none" /\ tempAcct[b].sid = s
        <3>1. AIAt(b) /\ now \in Nat
            BY DEF AIInv, CredInv, CredTypes
        <3>. QED
            BY <1>1, <1>2, <1>3, <1>4, <2>2, <3>1 DEF AIAt
    <2>3. CASE tempAcct[b].status = "none" \/ tempAcct[b].sid # s
        <3>1. AISame(b)
            BY <1>1, <1>4, <2>1, <2>3 DEF AISame
        <3>. QED
            BY <1>1, <1>3, <3>1, AISameStays DEF CredInv, CredTypes
    <2>. QED
        BY <2>2, <2>3
<1>6. Lives /\ AITypes'
    BY <1>1 DEF Lives, AIInv, AITypes, CredInv, CredTypes
<1>. QED
    BY <1>1, <1>5, <1>6, ReplyAsks, AIStep

(* A password is issued: with a token, it runs out a time to live after    *)
(* the request began.                                                      *)
LEMMA AIIssues ==
    ASSUME CredInv, AIInv, NEW p \in Procs, NEW k \in Passwords, Cred!CreateConnectionPassword(p, k)
    PROVE  AIInv'
<1>1. /\ Cred!Reply(p) /\ credReq[p].op = "password" /\ credReq[p] \in CredReq
      /\ UNCHANGED <<now, tempAcct, sess, overtaken, moved, ended>>
      /\ pw[k] = Cred!NoGrant
      /\ pw' = [pw EXCEPT ![k] = [status |-> "active", exp |-> credReq[p].at + Cred!PasswordTTL]]
      /\ issued' = issued \cup ({k} \X ({credReq[p].acct} \cap AIAccounts))
    BY DEF Cred!CreateConnectionPassword, Cred!environment, Cred!At, CredInv, CredTypes
<1>2. PICK t \in Nat : t = credReq[p].at
    BY <1>1 DEF CredReq
<1>3. /\ pw'[k].status = "active" /\ pw'[k].exp = t + Cred!PasswordTTL
      /\ \A j \in Passwords \ {k} : pw'[j] = pw[j]
    BY <1>1, <1>2 DEF CredInv, CredTypes
<1>4. Lives /\ AITypes'
    BY <1>1 DEF Lives, AIInv, AITypes, CredInv, CredTypes
<1>5. \A a \in AIAccounts : AIAt(a)'
    <2>1. \A a \in AIAccounts : AISame(a)
        BY <1>1 DEF AISame
    <2>. QED
        BY <1>1, <2>1, AISameStays DEF CredInv, CredTypes
<1>6. \A q \in Procs : Asked(q)'
    BY <1>1, <1>4, ReplyAsks, AskedStays
<1>7. ASSUME NEW j \in Passwords, NEW a \in AIAccounts, <<j, a>> \in issued' PROVE IssuedAt(j, a)'
    <2>1. CASE <<j, a>> \in issued
        <3>1. pw[j].status # "none"
            BY <2>1 DEF AIInv, IssuedAt
        <3>2. j # k
            BY <1>1, <3>1 DEF Cred!NoGrant
        <3>. QED
            BY <1>3, <1>4, <2>1, <3>2, IssuedStays
    <2>2. CASE <<j, a>> \notin issued
        <3>1. j = k /\ a = credReq[p].acct
            BY <1>1, <1>7, <2>2
        <3>2. AskedWith(a, t)
            BY <1>1, <1>2, <3>1 DEF AIInv, Asked
        <3>3. now \in Nat /\ ended[a] \in Nat
            BY DEF CredInv, CredTypes, AIInv, AITypes
        <3>. QED
            BY <1>1, <1>3, <3>1, <3>2, <3>3 DEF AskedWith, IssuedAt, Cred!PasswordTTL
    <2>. QED
        BY <2>1, <2>2
<1>. QED
    BY <1>4, <1>5, <1>6, <1>7 DEF AIInv

LEMMA AIEnvironment ==
    ASSUME CredInv, AIInv,
           \/ Cred!Tick \/ Cred!ChangeUser \/ Cred!ChangeTarget \/ UNCHANGED Cred!vars
           \/ \E a \in AIAccounts : Cred!RevokeAIAccessToken(a)
    PROVE  AIInv'
<1>1. AIQuiet /\ UNCHANGED credReq
    BY DEF AIQuiet, Cred!Tick, Cred!ChangeUser, Cred!ChangeTarget, Cred!RevokeAIAccessToken, Cred!vars,
       Cred!environment, Cred!tables, Cred!history, CredInv, CredTypes
<1>2. \A q \in Procs : SameAsk(q)
    BY <1>1 DEF SameAsk
<1>. QED
    BY <1>1, <1>2, AIQuietKeeps

LEMMA AIInvInit == Cred!Init => AIInv
<1>. SUFFICES ASSUME Cred!Init PROVE AIInv
    OBVIOUS
<1>1. /\ moved = {} /\ issued = {} /\ ended = [a \in AIAccounts |-> 0]
      /\ tempAcct = [a \in Cred!TemporaryAccounts |-> Cred!NoAccount]
      /\ credReq = [p \in Procs |-> Cred!Idle]
    BY DEF Cred!Init
<1>2. \A a \in AIAccounts : tempAcct[a].status = "none"
    BY <1>1 DEF Cred!NoAccount, Cred!TemporaryAccounts
<1>. QED
    BY <1>1, <1>2, IdleTyped DEF AIInv, AITypes, AIAt, Asked

LEMMA AIInvNext == CredInv /\ AIInv /\ [Cred!Next]_Cred!vars => AIInv'
<1>. SUFFICES ASSUME CredInv, AIInv, [Cred!Next]_Cred!vars PROVE AIInv'
    OBVIOUS
<1>1. ASSUME NEW p \in Procs, Cred!TemporaryAccessStep(p) PROVE AIInv'
    BY <1>1, AIBegins, AIQuietSteps, AICreates, AIExtends DEF Cred!TemporaryAccessStep
<1>2. ASSUME NEW p \in Procs, Cred!TokenStep(p) PROVE AIInv'
    BY <1>2, AIBegins, AIAsks, AIQuietSteps DEF Cred!TokenStep, Cred!handleAIResources
<1>3. ASSUME NEW p \in Procs, Cred!SessionStep(p) PROVE AIInv'
    BY <1>3, AIBegins, AIAsks, AIQuietSteps, AIPermanent, AIIssues, AIMarks DEF Cred!SessionStep
<1>. QED
    BY <1>1, <1>2, <1>3, AIDisables, AIEnvironment DEF Cred!Next

LEMMA CredInvAlways == MCSpec => [](part = "credentials" => CredInv /\ AIInv)
<1>. DEFINE Inv == part = "credentials" => CredInv /\ AIInv
<1>1. MCInit => Inv
    BY CredInvInit, AIInvInit DEF MCInit
<1>2. Inv /\ [HostsNext \/ CredNext \/ SSHNext]_all => Inv'
    <2>. SUFFICES ASSUME Inv, [HostsNext \/ CredNext \/ SSHNext]_all PROVE Inv'
        OBVIOUS
    <2>1. UNCHANGED part
        BY DEF HostsNext, CredNext, SSHNext, all
    <2>2. part = "credentials" => [Cred!Next]_Cred!vars
        BY DEF HostsNext, CredNext, SSHNext, all, credentialVars, Cred!vars
    <2>. QED
        BY <2>1, <2>2, CredInvNext, AIInvNext
<1>. QED
    BY <1>1, <1>2, PTL DEF MCSpec

(* A temporary access ends as a whole, for any number of accounts,         *)
(* requests and sessions: no row of a disabled account is live, and what   *)
(* was issued with its token runs out within its time to live; the four    *)
(* rows of a user's account expire together, and an AI account's session   *)
(* with the account until that is extended, with the session there to log  *)
(* in with until then unless a login marked it after an extension.         *)
THEOREM TemporaryAccessCorrect == MCSpec => []AccessEndsTogether
<1>1. ASSUME CredInv, AIInv PROVE Cred!AggregateInStep
    <2>. SUFFICES ASSUME NEW a \in Cred!TemporaryAccounts, tempAcct[a].status = "active"
                  PROVE  LET exp == tempAcct[a].exp  session == sess[tempAcct[a].sid] IN
                         /\ a \in UserAccounts => /\ grant[a] = [status |-> "active", exp |-> exp]
                                                  /\ pw[a] = [status |-> "active", exp |-> exp]
                         /\ a \notin moved => session.exp = exp
                         /\ \/ session.status = "active"
                            \/ ~Cred!Later(session.exp, now)
                            \/ tempAcct[a].sid \in overtaken
        BY DEF Cred!AggregateInStep
    <2>1. a \in UserAccounts => /\ grant[a] = [status |-> "active", exp |-> tempAcct[a].exp]
                                /\ pw[a] = [status |-> "active", exp |-> tempAcct[a].exp]
        BY <1>1 DEF CredInv, CredTypes, GrantRow, InStep
    <2>2. tempAcct[a].exp \in Nat /\ now \in Nat /\ sess[tempAcct[a].sid].exp \in Nat
        BY <1>1 DEF CredInv, CredTypes, TempRow, SessRow, Numbered
    <2>3. CASE a \in UserAccounts
        BY <1>1, <2>1, <2>2, <2>3 DEF CredInv, InStep, Cred!Later
    <2>4. CASE a \in AIAccounts
        BY <1>1, <2>1, <2>2, <2>4, CredentialsAssumption DEF AIInv, AIAt, Cred!Later
    <2>. QED
        BY <2>3, <2>4 DEF Cred!TemporaryAccounts
<1>2. ASSUME AIInv PROVE Cred!IssuedPasswordsRunOut
    <2>1. ASSUME NEW x \in issued PROVE \E k \in Passwords, a \in AIAccounts : x = <<k, a>> /\ IssuedAt(k, a)
        BY <1>2 DEF AIInv, AITypes
    <2>. QED
        BY <2>1 DEF Cred!IssuedPasswordsRunOut, IssuedAt
<1>3. (part = "credentials" => CredInv /\ AIInv) => AccessEndsTogether
    BY <1>1, <1>2 DEF CredInv, AccessEndsTogether, Cred!AccessEndsTogether
<1>. QED
    BY <1>3, CredInvAlways, PTL

(* No two requests win the same race, however many run: a refresh token is *)
(* exchanged at most once, and a user has at most one active permanent     *)
(* session.                                                                *)
THEOREM SecretsCorrect == MCSpec => []OneLiveSecret
<1>1. CredInv => Cred!OneLiveSecret
    BY OnePermanentCounted DEF CredInv, Pairs, Cred!OneLiveSecret
<1>2. (part = "credentials" => CredInv /\ AIInv) => OneLiveSecret
    BY <1>1 DEF OneLiveSecret
<1>. QED
    BY <1>2, CredInvAlways, PTL

-----------------------------------------------------------------------------
(***************************************************************************)
(* SSHGateway: the recorder, the proxies and the handler.                  *)
(***************************************************************************)
Frame == [id : Nat, kind : {"none", "line", "part", "enter", "op", "exec"}, secret : BOOLEAN]
Recorder ==
    [made : BOOLEAN, closed : BOOLEAN, fatal : BOOLEAN, line : Seq(Nat), current : Seq(Nat),
     written : BOOLEAN, sensitive : BOOLEAN, hide : BOOLEAN, tail : BOOLEAN,
     held : {"", "half", "full"}, submitted : Seq(Seq(Nat)), sink : Seq(Seq(Nat)),
     dropped : Seq(Seq(Nat)), asks : Nat, seen : SUBSET Frame, kept : SUBSET Nat, clear : SUBSET Nat]
Proxy ==
    [state : {"none", "open", "over"}, mode : {"none", "shell", "exec", "sftp"},
     queue : Seq(Frame), hold : Frame, todo : Frame,
     prompt : {"no", "asked", "out", "err"}, crossed : BOOLEAN]

Options == [enabled : BOOLEAN, input : BOOLEAN, commands : BOOLEAN, redact : BOOLEAN]
GatewayTypes ==
    /\ cfg \in Options /\ frames \in Nat /\ rec \in Recorder /\ chan \in [Channels -> Proxy]
    /\ answers \subseteq Nat /\ reached \subseteq Frame
    /\ clientUp \in BOOLEAN /\ targetUp \in BOOLEAN

(* The frames that the recorder r put into a command: those its commands   *)
(* begin with, that the open command begins with, and those of the line    *)
(* being typed.                                                            *)
Heads(sink) == {sink[i][1] : i \in DOMAIN sink}
Open(current) == IF current = <<>> THEN {} ELSE {current[1]}
Ids(line) == {line[k] : k \in DOMAIN line}
Seen(r) == Heads(r.sink) \cup Open(r.current) \cup Ids(r.line)

(* What has been written, what is open and what is being typed are apart,  *)
(* and while nothing failed the first two are what was submitted.          *)
Distinct(sink) ==
    /\ \A i \in DOMAIN sink : sink[i] # <<>>
    /\ \A i, j \in DOMAIN sink : sink[i][1] = sink[j][1] => i = j
Pending(r) == IF r.current # <<>> /\ ~r.written THEN <<r.current>> ELSE <<>>
Kept(r) ==
    /\ Distinct(r.sink)
    /\ ~r.written => Open(r.current) \cap Heads(r.sink) = {}
    /\ Ids(r.line) \cap (Heads(r.sink) \cup Open(r.current)) = {}
    /\ ~r.fatal => r.submitted = r.sink \o Pending(r)
    /\ ~r.fatal /\ r.closed => r.current = <<>>

(* A frame on its way to the recorder was numbered once and not recorded.  *)
Touched == Seen(rec) \cup answers \cup rec.clear
FramesNumbered(p) ==
    /\ p.todo.id <= frames /\ p.hold.id <= frames
    /\ \A i \in DOMAIN p.queue : p.queue[i].id <= frames /\ p.queue[i].id \notin Touched
    /\ p.todo.kind = "exec" => p.todo.id \notin Touched
Numbers == (\A n \in Touched : n <= frames) /\ \A c \in Channels : FramesNumbered(chan[c])
QueuesApart ==
    \A c, d \in Channels : \A i \in DOMAIN chan[c].queue :
        /\ \A j \in DOMAIN chan[d].queue :
              chan[c].queue[i].id = chan[d].queue[j].id => c = d /\ i = j
        /\ chan[d].todo.kind = "exec" => chan[d].todo.id # chan[c].queue[i].id
TodosApart ==
    \A c, d \in Channels :
        chan[c].todo.kind = "exec" /\ chan[d].todo.kind = "exec" /\ chan[c].todo.id = chan[d].todo.id
            => c = d
FramesApart == Numbers /\ QueuesApart /\ TodosApart

(* What the recorder must know while the client answers a prompt, and that *)
(* what is answered is one run of frames, with the end of the line last.   *)
PromptKnown(p, r) ==
    /\ p.prompt = "asked" /\ ~p.crossed => r.hide /\ r.sensitive
    /\ p.prompt \in {"out", "err"} /\ ~p.crossed => r.tail
AnswersHidden ==
    cfg.redact =>
        /\ rec.made /\ ~rec.closed => \A c \in Channels : PromptKnown(chan[c], rec)
        /\ ~rec.closed /\ Ids(rec.line) \cap answers # {} => rec.sensitive
        /\ answers \cap rec.clear = {}
Answering(p) ==
    \A i \in DOMAIN p.queue : p.queue[i].secret =>
        /\ p.prompt = "asked"
        /\ p.queue[i].kind # "part" => \A j \in DOMAIN p.queue : j > i => ~p.queue[j].secret

(* Where the handler stands and what that says of the rest.                *)
Early == {"handshake", "resolve", "authorize", "dial", "audit", "record", "register", "shell"}
Ready == {"register", "shell"}
Late == {"closeRecorder", "endAudit", "closeTarget", "closeClient", "done"}
Unused(p) ==
    /\ p.queue = <<>> /\ p.hold = SSH!NoFrame /\ p.todo = SSH!NoFrame
    /\ p.prompt = "no" /\ p.mode = "none"
Started(p) ==
    /\ pc \in Early => p.state = "none"
    /\ p.state # "open" => Unused(p)
    /\ p.state # "none" => rec.made = cfg.enabled
Flow ==
    /\ pc \in Early \cup {"serve"} \cup Late
    /\ \A c \in Channels : Started(chan[c])
    /\ pc \in Early \ Ready => ~rec.made
    /\ pc \in Ready \cup {"serve"} => rec.made = cfg.enabled
    /\ rec.fatal \/ rec.closed => rec.made
    /\ rec.fatal => ~targetUp
    /\ front # "ssh" /\ (pc \in Late \ {"closeTarget"} \/ rec.closed) => ~targetUp

(* What a channel carries in each mode.                                    *)
Fitting(p) ==
    /\ p.mode = "none" => p.queue = <<>>
    /\ \A i \in DOMAIN p.queue :
          IF p.mode = "sftp" THEN p.queue[i].kind = "op"
          ELSE p.queue[i].kind \in {"line", "part", "enter"}
    /\ p.todo # SSH!NoFrame => p.todo.kind = "exec" \/ (p.todo.kind = "op" /\ p.mode = "sftp")
    /\ p.hold # SSH!NoFrame => p.hold.kind \in {"line", "part", "enter"}
    /\ front # "ssh" => /\ p.todo = SSH!NoFrame
                        /\ p.mode \in {"none", "shell"}
                        /\ p.state = "open" => p.mode = "shell"

(* What reached the target or is about to.                                 *)
Traced(p) ==
    /\ p.mode = "none" => p.todo \notin reached
    /\ SSH!Recording /\ p.hold # SSH!NoFrame => p.hold \in rec.seen \/ rec.closed \/ rec.fatal
Effects ==
    /\ \A f \in reached : f.id <= frames /\ f.kind # "none"
    /\ \A c \in Channels : Traced(chan[c])

(* What the target has of the input went through the recorder.             *)
InputSeen == SSH!Recording => SSH!SeenFirst

GatewayInv ==
    /\ GatewayTypes /\ Kept(rec) /\ FramesApart /\ AnswersHidden /\ Flow /\ Effects /\ InputSeen
    /\ \A c \in Channels : Answering(chan[c]) /\ Fitting(chan[c])

-----------------------------------------------------------------------------
LEMMA Successor == \A n \in Nat : n + 1 \in Nat
OBVIOUS
LEMMA LinesCounted == \A s \in Seq(Seq(Nat)) : Len(s) \in Nat
OBVIOUS
LEMMA NextFits == \A m, n \in Nat : m < n => m + 1 <= n
OBVIOUS
LEMMA RoomAbove == \A m, n \in Nat : m <= n => m < n + 1 /\ m <= n + 1
OBVIOUS

(* Sequences of commands.                                                  *)
LEMMA Appending ==
    ASSUME NEW a \in Seq(Seq(Nat)), NEW l \in Seq(Nat)
    PROVE  /\ Append(a, l) \in Seq(Seq(Nat)) /\ Append(a, l) = a \o <<l>> /\ a \o <<>> = a
           /\ DOMAIN Append(a, l) = DOMAIN a \cup {Len(a) + 1} /\ Len(a) + 1 \notin DOMAIN a
           /\ \A i \in DOMAIN a : Append(a, l)[i] = a[i]
           /\ Append(a, l)[Len(a) + 1] = l
OBVIOUS

LEMMA EmptySeqs ==
    /\ <<>> \in Seq(Nat) /\ <<>> \in Seq(Seq(Nat)) /\ <<>> \in Seq(Frame) /\ DOMAIN <<>> = {}
    /\ Ids(<<>>) = {} /\ Open(<<>>) = {} /\ Heads(<<>>) = {}
BY DEF Ids, Open, Heads

LEMMA HeadsGrow ==
    ASSUME NEW a \in Seq(Seq(Nat)), NEW l \in Seq(Nat), l # <<>>
    PROVE  /\ Heads(Append(a, l)) = Heads(a) \cup Open(l)
           /\ Distinct(a) /\ Open(l) \cap Heads(a) = {} => Distinct(Append(a, l))
<1>1. PICK s : s = Append(a, l)
    OBVIOUS
<1>2. PICK m : m = Len(a) + 1
    OBVIOUS
<1>3. /\ DOMAIN s = DOMAIN a \cup {m} /\ m \notin DOMAIN a
      /\ \A i \in DOMAIN a : s[i] = a[i]
      /\ s[m] = l
    BY <1>1, <1>2, Appending
<1>4. Open(l) = {l[1]}
    BY DEF Open
<1>5. Heads(s) = Heads(a) \cup {l[1]}
    BY <1>3 DEF Heads
<1>6. ASSUME Distinct(a), l[1] \notin Heads(a)
      PROVE  Distinct(s)
    <2>1. \A i \in DOMAIN s : s[i] # <<>>
        BY <1>3, <1>6 DEF Distinct
    <2>2. ASSUME NEW i \in DOMAIN s, NEW j \in DOMAIN s, s[i][1] = s[j][1]
          PROVE  i = j
        <3>1. CASE i \in DOMAIN a /\ j \in DOMAIN a
            BY <1>3, <1>6, <2>2, <3>1 DEF Distinct
        <3>2. CASE i \in DOMAIN a /\ j = m
            BY <1>3, <1>6, <2>2, <3>2 DEF Heads
        <3>3. CASE i = m /\ j \in DOMAIN a
            BY <1>3, <1>6, <2>2, <3>3 DEF Heads
        <3>. QED
            BY <1>3, <2>2, <3>1, <3>2, <3>3
    <2>. QED
        BY <2>1, <2>2 DEF Distinct
<1>. QED
    BY <1>1, <1>4, <1>5, <1>6

LEMMA LineGrows ==
    ASSUME NEW l \in Seq(Nat), NEW n \in Nat
    PROVE  /\ Append(l, n) \in Seq(Nat) /\ Append(l, n) # <<>> /\ Ids(Append(l, n)) = Ids(l) \cup {n}
           /\ SSH!ToSet(l) = Ids(l) /\ Ids(l) \subseteq Nat /\ Open(l) \subseteq Ids(l)
<1>1. Append(l, n) \in Seq(Nat) /\ Append(l, n) # <<>>
    BY AppendProperties
<1>2. Ids(Append(l, n)) = Ids(l) \cup {n}
    <2>1. PICK s : s = Append(l, n)
        OBVIOUS
    <2>2. /\ DOMAIN s = DOMAIN l \cup {Len(l) + 1} /\ \A i \in DOMAIN l : s[i] = l[i]
          /\ s[Len(l) + 1] = n
        BY <2>1
    <2>. QED
        BY <2>1, <2>2 DEF Ids
<1>3. SSH!ToSet(l) = Ids(l)
    BY DEF SSH!ToSet, Ids
<1>4. Ids(l) \subseteq Nat
    BY DEF Ids
<1>5. Open(l) \subseteq Ids(l)
    BY DEF Open, Ids
<1>. QED
    BY <1>1, <1>2, <1>3, <1>4, <1>5

(* What a step of the recorder leaves alone.                               *)
SameCommands(q, r) ==
    /\ q.line = r.line /\ q.current = r.current /\ q.written = r.written
    /\ q.submitted = r.submitted /\ q.sink = r.sink
SamePrompt(q, r) ==
    q.sensitive = r.sensitive /\ q.hide = r.hide /\ q.tail = r.tail /\ q.held = r.held
SameLife(q, r) == q.made = r.made /\ q.closed = r.closed /\ (r.fatal => q.fatal)

(* The open command stays, or is in the log now.                           *)
Shift(q, r) ==
    \/ q.current = r.current /\ q.kept = r.kept
    \/ q.current = <<>> /\ q.kept = r.kept \cup Ids(r.current)

LEMMA CommandsAlone ==
    ASSUME NEW r, NEW q, SameCommands(q, r), r.fatal => q.fatal, q.closed = r.closed, Kept(r)
    PROVE  Kept(q) /\ Seen(q) = Seen(r)
BY DEF SameCommands, Kept, Seen, Pending

LEMMA FlushFacts ==
    ASSUME NEW r \in Recorder, NEW res, Kept(r), NEW q, q = SSH!FlushCurrent(r, res)
    PROVE  /\ q \in Recorder /\ Kept(q) /\ SamePrompt(q, r) /\ SameLife(q, r)
           /\ q.line = r.line /\ q.seen = r.seen /\ q.clear = r.clear /\ q.submitted = r.submitted
           /\ q.dropped = r.dropped /\ q.asks = r.asks /\ Shift(q, r)
           /\ Seen(q) \subseteq Seen(r)
           /\ SSH!FlushFails(r, res) => q.fatal
           /\ ~SSH!FlushFails(r, res) => q.current = <<>>
<1>. USE EmptySeqs
<1>0. PICK w \in SUBSET Nat : w = r.kept \cup SSH!ToSet(r.current) /\ w = r.kept \cup Ids(r.current)
    <2>1. r.kept \in SUBSET Nat /\ r.current \in Seq(Nat)
        BY DEF Recorder
    <2>2. SSH!ToSet(r.current) = Ids(r.current) /\ Ids(r.current) \subseteq Nat
        BY <2>1, LineGrows
    <2>. QED
        BY <2>1, <2>2
<1>1. CASE r.current = <<>>
    BY <1>1 DEF SSH!FlushCurrent, SSH!FlushFails, SamePrompt, SameLife, Shift
<1>2. CASE r.current # <<>> /\ res = "file"
    <2>1. q = [r EXCEPT !.fatal = TRUE]
        BY <1>2 DEF SSH!FlushCurrent
    <2>2. /\ q \in Recorder /\ q.fatal /\ SameCommands(q, r) /\ q.seen = r.seen /\ q.clear = r.clear
          /\ q.dropped = r.dropped /\ q.asks = r.asks /\ q.kept = r.kept
          /\ SamePrompt(q, r) /\ q.made = r.made /\ q.closed = r.closed
        BY <2>1 DEF Recorder, SamePrompt, SameCommands
    <2>. QED
        BY <1>2, <2>2, CommandsAlone DEF SameCommands, SameLife, SSH!FlushFails, Shift
<1>3. CASE r.current # <<>> /\ res # "file" /\ r.written
    <2>1. q = [r EXCEPT !.current = <<>>, !.written = FALSE, !.kept = w]
        BY <1>0, <1>3 DEF SSH!FlushCurrent
    <2>2. q \in Recorder
        BY <2>1 DEF Recorder
    <2>3. /\ q.fatal = r.fatal /\ q.sink = r.sink /\ q.current = <<>> /\ q.line = r.line
          /\ q.submitted = r.submitted /\ q.seen = r.seen /\ q.clear = r.clear
          /\ q.dropped = r.dropped /\ q.asks = r.asks /\ q.kept = w
          /\ SamePrompt(q, r) /\ q.made = r.made /\ q.closed = r.closed
        BY <2>1 DEF Recorder, SamePrompt
    <2>4. Kept(q)
        BY <1>3, <2>3 DEF Kept, Pending
    <2>5. Seen(q) \subseteq Seen(r)
        BY <2>3 DEF Seen
    <2>. QED
        BY <1>0, <1>3, <2>2, <2>3, <2>4, <2>5 DEF SameLife, SSH!FlushFails, Shift
<1>4. CASE r.current # <<>> /\ res = "db" /\ ~r.written
    <2>1. q = [r EXCEPT !.current = <<>>, !.written = FALSE, !.kept = w, !.fatal = TRUE]
        BY <1>0, <1>4 DEF SSH!FlushCurrent
    <2>2. q \in Recorder
        BY <2>1 DEF Recorder
    <2>3. /\ q.fatal /\ q.sink = r.sink /\ q.current = <<>> /\ q.line = r.line
          /\ q.submitted = r.submitted /\ q.seen = r.seen /\ q.clear = r.clear
          /\ q.dropped = r.dropped /\ q.asks = r.asks /\ q.kept = w
          /\ SamePrompt(q, r) /\ q.made = r.made /\ q.closed = r.closed
        BY <2>1 DEF Recorder, SamePrompt
    <2>4. Kept(q)
        BY <2>3 DEF Kept
    <2>5. Seen(q) \subseteq Seen(r)
        BY <2>3 DEF Seen
    <2>. QED
        BY <1>0, <1>4, <2>2, <2>3, <2>4, <2>5 DEF SameLife, SSH!FlushFails, Shift
<1>5. CASE r.current # <<>> /\ res # "file" /\ ~r.written /\ res # "db"
    <2>1. q = [r EXCEPT !.current = <<>>, !.written = FALSE, !.kept = w, !.sink = Append(r.sink, r.current)]
        BY <1>0, <1>5 DEF SSH!FlushCurrent
    <2>2. r.sink \in Seq(Seq(Nat)) /\ r.current \in Seq(Nat)
        BY DEF Recorder
    <2>3. PICK s \in Seq(Seq(Nat)) :
              /\ s = Append(r.sink, r.current) /\ s = r.sink \o <<r.current>> /\ s \o <<>> = s
              /\ DOMAIN s = DOMAIN r.sink \cup {Len(r.sink) + 1}
              /\ \A i \in DOMAIN r.sink : s[i] = r.sink[i]
              /\ s[Len(r.sink) + 1] = r.current
        BY <2>2, Appending
    <2>4. q = [r EXCEPT !.current = <<>>, !.written = FALSE, !.kept = w, !.sink = s]
        BY <2>1, <2>3
    <2>5. q \in Recorder
        BY <2>4 DEF Recorder
    <2>6. /\ q.fatal = r.fatal /\ q.sink = s /\ q.current = <<>> /\ q.line = r.line
          /\ q.submitted = r.submitted /\ q.seen = r.seen /\ q.clear = r.clear
          /\ q.dropped = r.dropped /\ q.asks = r.asks /\ q.kept = w
          /\ SamePrompt(q, r) /\ q.made = r.made /\ q.closed = r.closed
        BY <2>4 DEF Recorder, SamePrompt
    <2>7. ~q.fatal => q.submitted = q.sink \o Pending(q)
        BY <1>5, <2>3, <2>6 DEF Kept, Pending
    <2>8. Heads(s) = Heads(r.sink) \cup Open(r.current) /\ Distinct(s)
        BY <1>5, <2>2, <2>3, HeadsGrow DEF Kept
    <2>9. Kept(q) /\ Seen(q) \subseteq Seen(r)
        BY <2>6, <2>7, <2>8 DEF Kept, Seen
    <2>. QED
        BY <1>0, <1>5, <2>5, <2>6, <2>9 DEF SameLife, SSH!FlushFails, Shift
<1>. QED
    BY <1>1, <1>2, <1>3, <1>4, <1>5

(* A finished line becomes the open command, unless it answers a prompt.   *)
LEMMA SubmitFacts ==
    ASSUME NEW r \in Recorder, NEW res, Kept(r), ~r.closed, NEW q, q = SSH!SubmitLine(r, res)
    PROVE  /\ q \in Recorder /\ Kept(q) /\ SameLife(q, r) /\ q.line = <<>> /\ q.seen = r.seen
           /\ q.hide = r.hide /\ q.tail = r.tail /\ q.held = r.held
           /\ Seen(q) \subseteq Seen(r)
           /\ r.sensitive => q.clear = r.clear
           /\ q.clear \subseteq r.clear \cup Ids(r.line)
<1>. USE EmptySeqs
<1>1. PICK t : t = [r EXCEPT !.line = <<>>]
    OBVIOUS
<1>2. t \in Recorder
    BY <1>1 DEF Recorder
<1>3. /\ t.line = <<>> /\ t.sink = r.sink /\ t.current = r.current /\ t.fatal = r.fatal
      /\ t.written = r.written /\ t.submitted = r.submitted /\ t.seen = r.seen /\ t.clear = r.clear
      /\ SamePrompt(t, r) /\ t.made = r.made /\ t.closed = r.closed
    BY <1>1 DEF Recorder, SamePrompt
<1>4. Kept(t) /\ SameLife(t, r) /\ Seen(t) \subseteq Seen(r)
    BY <1>3 DEF Kept, Pending, SameLife, Seen
<1>5. CASE r.line = <<>>
    <2>1. q = t
        BY <1>1, <1>5 DEF SSH!SubmitLine
    <2>. QED
        BY <1>2, <1>3, <1>4, <2>1 DEF SamePrompt
<1>6. CASE r.line # <<>> /\ r.sensitive
    <2>0. PICK d \in Seq(Seq(Nat)) : d = Append(t.dropped, r.line)
        <3>1. t.dropped \in Seq(Seq(Nat)) /\ r.line \in Seq(Nat)
            BY <1>2 DEF Recorder
        <3>. QED
            BY <3>1, Appending
    <2>1. q = [t EXCEPT !.sensitive = FALSE, !.dropped = d]
        BY <1>1, <1>6, <2>0 DEF SSH!SubmitLine
    <2>2. /\ q \in Recorder /\ SameCommands(q, t) /\ q.fatal = t.fatal
          /\ q.seen = t.seen /\ q.clear = t.clear
          /\ q.hide = t.hide /\ q.tail = t.tail /\ q.held = t.held /\ q.made = t.made /\ q.closed = t.closed
        BY <1>2, <2>1 DEF Recorder, SameCommands
    <2>3. Kept(q) /\ Seen(q) = Seen(t)
        BY <1>4, <2>2, CommandsAlone
    <2>. QED
        BY <1>3, <1>4, <2>2, <2>3 DEF SamePrompt, SameLife, SameCommands
<1>7. CASE r.line # <<>> /\ ~r.sensitive
    <2>1. PICK u : u = SSH!FlushCurrent(t, res)
        OBVIOUS
    <2>2. /\ u \in Recorder /\ Kept(u) /\ SamePrompt(u, t) /\ SameLife(u, t)
          /\ u.line = t.line /\ u.seen = t.seen /\ u.clear = t.clear /\ u.submitted = t.submitted
          /\ Seen(u) \subseteq Seen(t)
          /\ SSH!FlushFails(t, res) => u.fatal
          /\ ~SSH!FlushFails(t, res) => u.current = <<>>
        BY <1>2, <1>4, <2>1, FlushFacts
    <2>3. CASE SSH!FlushFails(t, res)
        <3>1. q = u
            BY <1>1, <1>7, <2>1, <2>3 DEF SSH!SubmitLine
        <3>. QED
            BY <1>3, <1>4, <2>2, <3>1 DEF SamePrompt, SameLife
    <2>4. CASE ~SSH!FlushFails(t, res)
        <3>1. q = [u EXCEPT !.current = r.line, !.written = FALSE,
                            !.submitted = Append(u.submitted, r.line),
                            !.clear = u.clear \cup SSH!ToSet(r.line)]
            BY <1>1, <1>7, <2>1, <2>4 DEF SSH!SubmitLine
        <3>2. r.line \in Seq(Nat) /\ u.submitted \in Seq(Seq(Nat)) /\ u.sink \in Seq(Seq(Nat))
              /\ u.clear \subseteq Nat
            BY <2>2 DEF Recorder
        <3>3. PICK s \in Seq(Seq(Nat)) :
                  s = Append(u.submitted, r.line) /\ s = u.submitted \o <<r.line>> /\ u.sink \o <<>> = u.sink
            BY <3>2, Appending
        <3>4. PICK w \in SUBSET Nat : w = u.clear \cup Ids(r.line) /\ SSH!ToSet(r.line) = Ids(r.line)
            <4>1. SSH!ToSet(r.line) = Ids(r.line) /\ Ids(r.line) \subseteq Nat
                BY <3>2, LineGrows
            <4>. QED
                BY <3>2, <4>1
        <3>5. q = [u EXCEPT !.current = r.line, !.written = FALSE, !.submitted = s, !.clear = w]
            BY <3>1, <3>3, <3>4
        <3>6. q \in Recorder
            BY <2>2, <3>2, <3>5 DEF Recorder
        <3>7. /\ q.line = u.line /\ q.sink = u.sink /\ q.current = r.line /\ q.fatal = u.fatal
              /\ ~q.written /\ q.submitted = s /\ q.seen = u.seen /\ q.clear = w
              /\ SamePrompt(q, u) /\ q.made = u.made /\ q.closed = u.closed
            BY <2>2, <3>5 DEF Recorder, SamePrompt
        <3>8. Heads(u.sink) \subseteq Heads(r.sink) \cup Open(r.current)
            BY <1>3, <2>2 DEF Seen
        <3>9. Open(r.line) \subseteq Ids(r.line)
            BY <3>2, LineGrows
        <3>10. ~q.fatal => q.submitted = q.sink \o Pending(q)
            <4>1. ~u.fatal => u.submitted = u.sink
                BY <2>2, <2>4, <3>3 DEF Kept, Pending
            <4>. QED
                BY <1>7, <3>3, <3>7, <4>1 DEF Pending
        <3>11. Kept(q)
            <4>1. Ids(r.line) \cap Heads(u.sink) = {}
                BY <3>8 DEF Kept
            <4>2. ~q.closed
                BY <1>3, <2>2, <3>7 DEF SameLife
            <4>. QED
                BY <1>3, <2>2, <3>7, <3>9, <3>10, <4>1, <4>2 DEF Kept
        <3>12. Seen(q) \subseteq Seen(r)
            BY <1>3, <2>2, <3>7, <3>8, <3>9 DEF Seen
        <3>. QED
            BY <1>3, <1>7, <2>2, <3>4, <3>6, <3>7, <3>11, <3>12 DEF SamePrompt, SameLife
    <2>. QED
        BY <2>3, <2>4
<1>. QED
    BY <1>5, <1>6, <1>7

(* One frame of input for the command recorder.                            *)
LEMMA ObserveFacts ==
    ASSUME NEW r \in Recorder, NEW f \in Frame, NEW res, Kept(r), ~r.closed, f.id \notin Seen(r),
           NEW q, q = SSH!ObserveInput(r, f, res)
    PROVE  /\ q \in Recorder /\ Kept(q) /\ SameLife(q, r) /\ q.seen = r.seen
           /\ q.hide = r.hide /\ q.tail = r.tail /\ q.held = r.held
           /\ Seen(q) \subseteq Seen(r) \cup {f.id}
           /\ Ids(q.line) \subseteq Ids(r.line) \cup {f.id}
           /\ q.line = <<>> \/ (r.sensitive => q.sensitive)
           /\ f.kind = "part" => q.sensitive = r.sensitive
           /\ r.sensitive => q.clear = r.clear
           /\ q.clear \subseteq r.clear \cup Ids(r.line) \cup {f.id}
<1>. USE EmptySeqs
<1>1. PICK t : t = IF f.kind = "enter" THEN r ELSE [r EXCEPT !.line = Append(@, f.id)]
    OBVIOUS
<1>2. q = IF f.kind = "part" THEN t ELSE SSH!SubmitLine(t, res)
    BY <1>1 DEF SSH!ObserveInput
<1>3. f.id \in Nat /\ r.line \in Seq(Nat)
    BY DEF Frame, Recorder
<1>4. /\ t \in Recorder /\ Kept(t) /\ SameLife(t, r) /\ SamePrompt(t, r)
      /\ t.seen = r.seen /\ t.clear = r.clear
      /\ Seen(t) \subseteq Seen(r) \cup {f.id} /\ Ids(t.line) \subseteq Ids(r.line) \cup {f.id}
    <2>1. CASE f.kind = "enter"
        BY <1>1, <2>1 DEF SameLife, SamePrompt
    <2>2. CASE f.kind # "enter"
        <3>1. PICK s \in Seq(Nat) : s = Append(r.line, f.id) /\ Ids(s) = Ids(r.line) \cup {f.id}
            BY <1>3, LineGrows
        <3>2. t = [r EXCEPT !.line = s]
            BY <1>1, <2>2, <3>1
        <3>3. /\ t \in Recorder /\ t.line = s /\ t.sink = r.sink /\ t.current = r.current /\ t.fatal = r.fatal
              /\ t.written = r.written /\ t.submitted = r.submitted /\ t.seen = r.seen /\ t.clear = r.clear
              /\ SamePrompt(t, r) /\ t.made = r.made /\ t.closed = r.closed
            BY <3>2 DEF Recorder, SamePrompt
        <3>4. Seen(t) = Seen(r) \cup {f.id}
            BY <3>1, <3>3 DEF Seen
        <3>5. Kept(t)
            BY <3>1, <3>3 DEF Kept, Seen, Pending
        <3>. QED
            BY <3>1, <3>3, <3>4, <3>5 DEF SameLife
    <2>. QED
        BY <2>1, <2>2
<1>5. CASE f.kind = "part"
    BY <1>2, <1>4, <1>5 DEF SamePrompt
<1>6. CASE f.kind # "part"
    <2>1. /\ q \in Recorder /\ Kept(q) /\ SameLife(q, t) /\ q.line = <<>> /\ q.seen = t.seen
          /\ q.hide = t.hide /\ q.tail = t.tail /\ q.held = t.held
          /\ Seen(q) \subseteq Seen(t)
          /\ t.sensitive => q.clear = t.clear
          /\ q.clear \subseteq t.clear \cup Ids(t.line)
        <3>1. ~t.closed /\ q = SSH!SubmitLine(t, res)
            BY <1>2, <1>4, <1>6 DEF SameLife
        <3>. QED
            BY <1>4, <3>1, SubmitFacts
    <2>. QED
        BY <1>4, <1>6, <2>1 DEF SamePrompt, SameLife
<1>. QED
    BY <1>5, <1>6

(* A command of an exec request is written, or will be when it is flushed. *)
LEMMA DirectFacts ==
    ASSUME NEW r \in Recorder, NEW n \in Nat, NEW res, Kept(r), ~r.closed, n \notin Seen(r),
           NEW q, q = SSH!RecordDirect(r, n, res)
    PROVE  /\ q \in Recorder /\ Kept(q) /\ SameLife(q, r) /\ SamePrompt(q, r)
           /\ q.seen = r.seen /\ q.clear = r.clear /\ q.line = r.line
           /\ Seen(q) \subseteq Seen(r) \cup {n}
<1>1. PICK u : u = SSH!FlushCurrent(r, res)
    OBVIOUS
<1>2. /\ u \in Recorder /\ Kept(u) /\ SamePrompt(u, r) /\ SameLife(u, r)
      /\ u.line = r.line /\ u.seen = r.seen /\ u.clear = r.clear /\ u.submitted = r.submitted
      /\ Seen(u) \subseteq Seen(r)
      /\ SSH!FlushFails(r, res) => u.fatal
      /\ ~SSH!FlushFails(r, res) => u.current = <<>>
    BY <1>1, FlushFacts
<1>3. CASE SSH!FlushFails(r, res)
    <2>1. q = u
        BY <1>1, <1>3 DEF SSH!RecordDirect
    <2>. QED
        BY <1>2, <2>1
<1>4. CASE ~SSH!FlushFails(r, res)
    <2>0. PICK l \in Seq(Nat) : l = <<n>>
        <3>1. <<n>> \in Seq(Nat)
            OBVIOUS
        <3>. QED
            BY <3>1, Zenon
    <2>1. l # <<>> /\ Open(l) = {n}
        <3>1. Len(l) = 1 /\ l[1] = n
            BY <2>0
        <3>2. l # <<>>
            BY <3>1
        <3>. QED
            BY <3>1, <3>2 DEF Open
    <2>2. u.submitted \in Seq(Seq(Nat)) /\ u.sink \in Seq(Seq(Nat))
        BY <1>2 DEF Recorder
    <2>3. PICK s \in Seq(Seq(Nat)) : s = Append(u.submitted, l) /\ s = u.submitted \o <<l>>
        <3>1. Append(u.submitted, l) \in Seq(Seq(Nat)) /\ Append(u.submitted, l) = u.submitted \o <<l>>
            BY <2>2, Appending
        <3>. QED
            BY <3>1, Zenon
    <2>4. PICK k \in Seq(Seq(Nat)) :
              /\ k = Append(u.sink, l) /\ k = u.sink \o <<l>> /\ k \o <<>> = k /\ u.sink \o <<>> = u.sink
        BY <2>2, Appending
    <2>5. ~u.fatal => u.submitted = u.sink
        BY <1>2, <1>4, <2>4 DEF Kept, Pending
    <2>6. n \notin Heads(u.sink) /\ n \notin Ids(u.line)
        BY <1>2 DEF Seen
    <2>7. CASE res = "db"
        <3>1. q = [u EXCEPT !.current = l, !.submitted = s, !.written = FALSE, !.fatal = TRUE]
            BY <1>1, <1>2, <1>4, <2>0, <2>3, <2>7 DEF SSH!RecordDirect, Recorder
        <3>2. q \in Recorder
            BY <1>2, <3>1 DEF Recorder
        <3>3. /\ q.line = u.line /\ q.sink = u.sink /\ q.current = l /\ q.fatal
              /\ ~q.written /\ q.submitted = s /\ q.seen = u.seen /\ q.clear = u.clear
              /\ SamePrompt(q, u) /\ q.made = u.made /\ q.closed = u.closed
            BY <1>2, <3>1 DEF Recorder, SamePrompt
        <3>4. Kept(q)
            <4>1. Ids(u.line) \cap Heads(u.sink) = {} /\ Distinct(u.sink)
                BY <1>2 DEF Kept
            <4>. QED
                BY <2>1, <2>6, <3>3, <4>1 DEF Kept
        <3>5. Seen(q) \subseteq Seen(r) \cup {n}
            BY <1>2, <2>1, <3>3 DEF Seen
        <3>. QED
            BY <1>2, <3>2, <3>3, <3>4, <3>5 DEF SamePrompt, SameLife
    <2>8. CASE res # "db"
        <3>0. PICK w \in SUBSET Nat : w = u.kept \cup {n}
            BY <1>2 DEF Recorder
        <3>1. q = [u EXCEPT !.current = l, !.submitted = s, !.written = TRUE, !.sink = k, !.kept = w]
            BY <1>1, <1>2, <1>4, <2>0, <2>3, <2>4, <2>8, <3>0 DEF SSH!RecordDirect, Recorder
        <3>2. q \in Recorder
            BY <1>2, <3>1 DEF Recorder
        <3>3. /\ q.line = u.line /\ q.sink = k /\ q.current = l /\ q.fatal = u.fatal
              /\ q.written /\ q.submitted = s /\ q.seen = u.seen /\ q.clear = u.clear
              /\ SamePrompt(q, u) /\ q.made = u.made /\ q.closed = u.closed
            BY <1>2, <3>1 DEF Recorder, SamePrompt
        <3>4. Heads(k) = Heads(u.sink) \cup {n} /\ Distinct(k)
            <4>1. Distinct(u.sink) /\ Open(l) \cap Heads(u.sink) = {}
                BY <1>2, <2>1, <2>6 DEF Kept
            <4>2. /\ Heads(Append(u.sink, l)) = Heads(u.sink) \cup Open(l)
                  /\ Distinct(Append(u.sink, l))
                BY <2>1, <2>2, <4>1, HeadsGrow
            <4>. QED
                BY <2>1, <2>4, <4>2
        <3>5. ~q.fatal => q.submitted = q.sink \o Pending(q)
            BY <2>3, <2>4, <2>5, <3>3 DEF Pending
        <3>6. Kept(q)
            <4>1. ~q.closed
                BY <1>2, <3>3 DEF SameLife
            <4>. QED
                BY <1>2, <1>4, <2>1, <2>6, <3>3, <3>4, <3>5, <4>1, EmptySeqs DEF Kept
        <3>7. Seen(q) \subseteq Seen(r) \cup {n}
            BY <1>2, <2>1, <3>3, <3>4 DEF Seen
        <3>. QED
            BY <1>2, <3>2, <3>3, <3>6, <3>7 DEF SamePrompt, SameLife
    <2>. QED
        BY <2>7, <2>8
<1>. QED
    BY <1>3, <1>4

(* What every call of the session recorder keeps.                          *)
Advances(q, r) == q \in Recorder /\ Kept(q) /\ SameLife(q, r) /\ r.seen \subseteq q.seen

LEMMA PendingFacts ==
    ASSUME NEW r \in Recorder, Kept(r), NEW q, q = SSH!FlushPendingOutput(r)
    PROVE  /\ q \in Recorder /\ Kept(q) /\ Seen(q) = Seen(r) /\ SameLife(q, r) /\ q.fatal = r.fatal
           /\ q.seen = r.seen /\ q.clear = r.clear /\ q.line = r.line
           /\ q.hide = r.hide /\ q.tail = r.tail /\ (r.sensitive => q.sensitive)
<1>1. /\ q \in Recorder /\ SameCommands(q, r) /\ q.fatal = r.fatal /\ q.seen = r.seen /\ q.clear = r.clear
      /\ q.hide = r.hide /\ q.tail = r.tail /\ q.made = r.made /\ q.closed = r.closed
      /\ (r.sensitive => q.sensitive)
    BY DEF SSH!FlushPendingOutput, Recorder, SameCommands
<1>2. Kept(q) /\ Seen(q) = Seen(r)
    BY <1>1, CommandsAlone
<1>. QED
    BY <1>1, <1>2 DEF SameLife, SameCommands

(* A frame of input: only what is not hidden is recorded in clear, and a   *)
(* part of a line leaves a prompt known.                                   *)
LEMMA InputFacts ==
    ASSUME NEW r \in Recorder, NEW f \in Frame, NEW res, Kept(r), f.id \notin Seen(r),
           NEW q, q = SSH!RecordInput(r, f, res)
    PROVE  /\ Advances(q, r) /\ q.tail = r.tail
           /\ Seen(q) \subseteq Seen(r) \cup {f.id}
           /\ Ids(q.line) \subseteq Ids(r.line) \cup {f.id}
           /\ q.line = <<>> \/ (r.sensitive => q.sensitive)
           /\ f.kind = "part" /\ r.sensitive => q.sensitive
           /\ f.kind = "part" /\ cfg.redact /\ r.hide => q.hide
           /\ r.sensitive => q.clear \subseteq r.clear \cup {f.id}
           /\ q.clear \subseteq r.clear \cup Ids(r.line) \cup {f.id}
           /\ cfg.redact /\ r.hide /\ r.sensitive => q.clear = r.clear
           /\ r.made /\ ~r.closed /\ cfg.commands => f \in q.seen \/ q.fatal
           /\ ~(r.made /\ ~r.closed) => q = r
<1>1. CASE ~r.made \/ r.closed
    <2>1. q = r
        BY <1>1 DEF SSH!RecordInput
    <2>. QED
        BY <1>1, <2>1 DEF Advances, SameLife
<1>2. CASE r.made /\ ~r.closed
    <2>1. PICK a : a = SSH!FlushPendingOutput(r)
        OBVIOUS
    <2>2. PICK b : b = IF cfg.commands THEN SSH!ObserveInput(a, f, res) ELSE a
        OBVIOUS
    <2>3. PICK c : c = IF ~cfg.input THEN b
                       ELSE IF res = "cast" THEN [b EXCEPT !.fatal = TRUE]
                       ELSE SSH!RedactInputFrame(b, f)
        OBVIOUS
    <2>4. q = [c EXCEPT !.seen = IF c.fatal \/ ~cfg.commands THEN c.seen ELSE c.seen \cup {f}]
        BY <1>2, <2>1, <2>2, <2>3 DEF SSH!RecordInput
    <2>5. f.id \in Nat
        BY DEF Frame
    <2>6. /\ a \in Recorder /\ Kept(a) /\ Seen(a) = Seen(r) /\ SameLife(a, r) /\ a.fatal = r.fatal
          /\ a.seen = r.seen /\ a.clear = r.clear /\ a.line = r.line
          /\ a.hide = r.hide /\ a.tail = r.tail /\ (r.sensitive => a.sensitive)
        BY <2>1, PendingFacts
    <2>7. /\ b \in Recorder /\ Kept(b) /\ SameLife(b, a) /\ b.seen = a.seen
          /\ b.hide = a.hide /\ b.tail = a.tail
          /\ Seen(b) \subseteq Seen(a) \cup {f.id}
          /\ Ids(b.line) \subseteq Ids(a.line) \cup {f.id}
          /\ b.line = <<>> \/ (a.sensitive => b.sensitive)
          /\ f.kind = "part" => b.sensitive = a.sensitive
          /\ a.sensitive => b.clear = a.clear
          /\ b.clear \subseteq a.clear \cup Ids(a.line) \cup {f.id}
        <3>1. CASE cfg.commands
            <4>1. ~a.closed /\ f.id \notin Seen(a) /\ b = SSH!ObserveInput(a, f, res)
                BY <1>2, <2>2, <2>6, <3>1 DEF SameLife
            <4>. QED
                BY <2>6, <4>1, ObserveFacts
        <3>2. CASE ~cfg.commands
            BY <2>2, <2>6, <3>2 DEF SameLife
        <3>. QED
            BY <3>1, <3>2
    <2>8. /\ c \in Recorder /\ SameCommands(c, b) /\ c.seen = b.seen /\ c.tail = b.tail
          /\ c.made = b.made /\ c.closed = b.closed /\ (b.fatal => c.fatal) /\ c.sensitive = b.sensitive
          /\ f.kind = "part" /\ b.hide => c.hide
          /\ c.clear \subseteq b.clear \cup {f.id}
          /\ cfg.redact /\ b.hide => c.clear = b.clear
        <3>1. CASE ~cfg.input
            BY <2>3, <2>7, <3>1 DEF SameCommands
        <3>2. CASE cfg.input /\ res = "cast"
            BY <2>3, <2>7, <3>2 DEF SameCommands, Recorder
        <3>3. CASE cfg.input /\ res # "cast" /\ cfg.redact /\ b.hide
            <4>1. c = [b EXCEPT !.hide = (f.kind = "part")]
                BY <2>3, <3>3 DEF SSH!RedactInputFrame
            <4>. QED
                BY <2>7, <4>1 DEF SameCommands, Recorder
        <3>4. CASE cfg.input /\ res # "cast" /\ ~(cfg.redact /\ b.hide)
            <4>1. PICK w \in SUBSET Nat : w = b.clear \cup {f.id}
                <5>1. b.clear \in SUBSET Nat
                    BY <2>7 DEF Recorder
                <5>. QED
                    BY <2>5, <5>1
            <4>2. c = [b EXCEPT !.clear = w]
                BY <2>3, <3>4, <4>1 DEF SSH!RedactInputFrame
            <4>3. /\ c \in Recorder /\ SameCommands(c, b) /\ c.seen = b.seen /\ c.tail = b.tail
                  /\ c.made = b.made /\ c.closed = b.closed /\ c.fatal = b.fatal /\ c.sensitive = b.sensitive
                  /\ c.hide = b.hide /\ c.clear = w
                BY <2>7, <4>2 DEF SameCommands, Recorder
            <4>. QED
                BY <3>4, <4>1, <4>3
        <3>. QED
            BY <3>1, <3>2, <3>3, <3>4
    <2>9. PICK l \in SUBSET Frame : l = IF c.fatal \/ ~cfg.commands THEN c.seen ELSE c.seen \cup {f}
        <3>1. c.seen \in SUBSET Frame
            BY <2>8 DEF Recorder
        <3>. QED
            BY <2>5, <3>1
    <2>10. q = [c EXCEPT !.seen = l]
        BY <2>4, <2>9
    <2>11. /\ q \in Recorder /\ SameCommands(q, c) /\ q.seen = l /\ q.tail = c.tail
           /\ q.made = c.made /\ q.closed = c.closed /\ q.fatal = c.fatal /\ q.sensitive = c.sensitive
           /\ q.hide = c.hide /\ q.clear = c.clear
        BY <2>8, <2>10 DEF SameCommands, Recorder
    <2>12. /\ SameCommands(q, b) /\ (b.fatal => q.fatal) /\ q.closed = b.closed
        BY <2>8, <2>11 DEF SameCommands
    <2>13. Kept(q) /\ Seen(q) = Seen(b) /\ q.line = b.line
        <3>1. Kept(q) /\ Seen(q) = Seen(b)
            BY <2>7, <2>12, CommandsAlone
        <3>. QED
            BY <2>12, <3>1 DEF SameCommands
    <2>14. Advances(q, r) /\ q.tail = r.tail /\ (cfg.commands => f \in q.seen \/ q.fatal)
        BY <2>6, <2>7, <2>8, <2>9, <2>11, <2>13 DEF Advances, SameLife
    <2>15. /\ Seen(q) \subseteq Seen(r) \cup {f.id} /\ Ids(q.line) \subseteq Ids(r.line) \cup {f.id}
           /\ q.line = <<>> \/ (r.sensitive => q.sensitive)
           /\ f.kind = "part" /\ r.sensitive => q.sensitive
           /\ f.kind = "part" /\ cfg.redact /\ r.hide => q.hide
        BY <2>6, <2>7, <2>8, <2>11, <2>13
    <2>16. /\ r.sensitive => q.clear \subseteq r.clear \cup {f.id}
           /\ q.clear \subseteq r.clear \cup Ids(r.line) \cup {f.id}
           /\ cfg.redact /\ r.hide /\ r.sensitive => q.clear = r.clear
        BY <2>6, <2>7, <2>8, <2>11
    <2>. QED
        BY <1>2, <2>14, <2>15, <2>16
<1>. QED
    BY <1>1, <1>2

LEMMA CommandFacts ==
    ASSUME NEW r \in Recorder, NEW f \in Frame, NEW res, Kept(r), f.id \notin Seen(r),
           NEW q, q = SSH!RecordCommand(r, f, res)
    PROVE  /\ Advances(q, r) /\ q.tail = r.tail /\ q.hide = r.hide /\ (r.sensitive => q.sensitive)
           /\ q.line = r.line /\ q.clear = r.clear /\ Seen(q) \subseteq Seen(r) \cup {f.id}
           /\ r.made /\ ~r.closed /\ cfg.commands => f \in q.seen \/ q.fatal
           /\ ~(r.made /\ ~r.closed) => q = r
<1>1. CASE ~r.made \/ r.closed \/ ~cfg.commands
    <2>1. q = r
        BY <1>1 DEF SSH!RecordCommand
    <2>. QED
        BY <1>1, <2>1 DEF Advances, SameLife
<1>2. CASE r.made /\ ~r.closed /\ cfg.commands
    <2>1. PICK a : a = SSH!FlushPendingOutput(r)
        OBVIOUS
    <2>2. PICK c : c = SSH!RecordDirect(a, f.id, res)
        OBVIOUS
    <2>3. q = [c EXCEPT !.seen = IF c.fatal THEN c.seen ELSE c.seen \cup {f}]
        BY <1>2, <2>1, <2>2 DEF SSH!RecordCommand
    <2>4. f.id \in Nat
        BY DEF Frame
    <2>5. /\ a \in Recorder /\ Kept(a) /\ Seen(a) = Seen(r) /\ SameLife(a, r) /\ a.fatal = r.fatal
          /\ a.seen = r.seen /\ a.clear = r.clear /\ a.line = r.line
          /\ a.hide = r.hide /\ a.tail = r.tail /\ (r.sensitive => a.sensitive)
        BY <2>1, PendingFacts
    <2>6. ~a.closed /\ f.id \notin Seen(a)
        BY <1>2, <2>5 DEF SameLife
    <2>7. /\ c \in Recorder /\ Kept(c) /\ SameLife(c, a) /\ SamePrompt(c, a)
          /\ c.seen = a.seen /\ c.clear = a.clear /\ c.line = a.line
          /\ Seen(c) \subseteq Seen(a) \cup {f.id}
        BY <2>2, <2>4, <2>5, <2>6, DirectFacts
    <2>8. PICK l \in SUBSET Frame : l = IF c.fatal THEN c.seen ELSE c.seen \cup {f}
        <3>1. c.seen \in SUBSET Frame
            BY <2>7 DEF Recorder
        <3>. QED
            BY <2>4, <3>1
    <2>9. q = [c EXCEPT !.seen = l]
        BY <2>3, <2>8
    <2>10. /\ q \in Recorder /\ SameCommands(q, c) /\ q.seen = l /\ q.tail = c.tail
           /\ q.made = c.made /\ q.closed = c.closed /\ q.fatal = c.fatal /\ q.sensitive = c.sensitive
           /\ q.hide = c.hide /\ q.clear = c.clear
        BY <2>7, <2>9 DEF SameCommands, Recorder
    <2>11. Kept(q) /\ Seen(q) = Seen(c)
        BY <2>7, <2>10, CommandsAlone
    <2>12. q.line = r.line /\ q.clear = r.clear /\ q.tail = r.tail /\ q.hide = r.hide
           /\ (r.sensitive => q.sensitive)
        BY <2>5, <2>7, <2>10 DEF SamePrompt, SameCommands
    <2>13. Advances(q, r) /\ (f \in q.seen \/ q.fatal)
        BY <2>5, <2>7, <2>8, <2>10, <2>11 DEF Advances, SameLife
    <2>. QED
        BY <1>2, <2>5, <2>7, <2>11, <2>12, <2>13
<1>. QED
    BY <1>1, <1>2

(* The calls that leave the commands alone.                                *)
Beside(q, r) ==
    /\ Advances(q, r) /\ q.line = r.line /\ q.clear = r.clear /\ Seen(q) = Seen(r)
    /\ (r.hide => q.hide) /\ (r.sensitive => q.sensitive)
    /\ ~(r.made /\ ~r.closed) => q.closed = r.closed /\ q.seen = r.seen

LEMMA BesideCommands ==
    ASSUME NEW r \in Recorder, Kept(r), NEW q \in Recorder, SameCommands(q, r), SameLife(q, r),
           r.seen \subseteq q.seen, ~(r.made /\ ~r.closed) => q.seen = r.seen,
           q.clear = r.clear, r.hide => q.hide, r.sensitive => q.sensitive
    PROVE  Beside(q, r)
<1>1. Kept(q) /\ Seen(q) = Seen(r)
    BY CommandsAlone DEF SameLife
<1>. QED
    BY <1>1 DEF Beside, Advances, SameCommands, SameLife

LEMMA FileEventFacts ==
    ASSUME NEW r \in Recorder, NEW f \in Frame, NEW res, Kept(r),
           NEW q, q = SSH!RecordFileEvent(r, f, res)
    PROVE  /\ Beside(q, r) /\ q.tail = r.tail
           /\ r.made /\ ~r.closed => f \in q.seen \/ q.fatal
           /\ ~(r.made /\ ~r.closed) => q = r
<1>0. PICK w \in SUBSET Nat : w = r.kept \cup {f.id}
    BY DEF Frame, Recorder
<1>1. PICK l \in SUBSET Frame : l = r.seen \cup {f}
    BY DEF Recorder
<1>2. /\ q \in Recorder /\ SameCommands(q, r) /\ SameLife(q, r)
      /\ r.seen \subseteq q.seen /\ (~(r.made /\ ~r.closed) => q = r)
      /\ q.clear = r.clear /\ q.hide = r.hide /\ q.sensitive = r.sensitive /\ q.tail = r.tail
      /\ r.made /\ ~r.closed => f \in q.seen \/ q.fatal
    <2>1. CASE ~r.made \/ r.closed
        BY <2>1 DEF SSH!RecordFileEvent, SameCommands, SameLife
    <2>2. CASE r.made /\ ~r.closed /\ res \in {"db", "file"}
        <3>1. q = [r EXCEPT !.kept = w, !.fatal = TRUE]
            BY <1>0, <2>2 DEF SSH!RecordFileEvent
        <3>. QED
            BY <2>2, <3>1 DEF SameCommands, SameLife, Recorder
    <2>3. CASE r.made /\ ~r.closed /\ res \notin {"db", "file"}
        <3>1. q = [r EXCEPT !.kept = w, !.seen = l]
            BY <1>0, <1>1, <2>3 DEF SSH!RecordFileEvent
        <3>2. /\ q \in Recorder /\ SameCommands(q, r) /\ SameLife(q, r) /\ q.seen = l
              /\ q.clear = r.clear /\ q.hide = r.hide /\ q.sensitive = r.sensitive /\ q.tail = r.tail
            BY <3>1 DEF SameCommands, SameLife, Recorder
        <3>. QED
            BY <1>1, <2>3, <3>2
    <2>. QED
        BY <2>1, <2>2, <2>3
<1>3. Beside(q, r)
    BY <1>2, BesideCommands
<1>. QED
    BY <1>2, <1>3

LEMMA SubtypeFacts ==
    ASSUME NEW r \in Recorder, NEW res, Kept(r), NEW q, q = SSH!SetProtocolSubtype(r, res)
    PROVE  Beside(q, r) /\ q.tail = r.tail /\ q.seen = r.seen /\ (q.fatal => r.fatal \/ r.made)
<1>1. /\ q \in Recorder /\ SameCommands(q, r) /\ SameLife(q, r) /\ q.seen = r.seen
      /\ q.clear = r.clear /\ q.hide = r.hide /\ q.sensitive = r.sensitive /\ q.tail = r.tail
      /\ (q.fatal => r.fatal \/ r.made)
    BY DEF SSH!SetProtocolSubtype, SameCommands, SameLife, Recorder
<1>2. Beside(q, r)
    BY <1>1, BesideCommands
<1>. QED
    BY <1>1, <1>2

(* Output: a prompt, or the end of one whose first half came last, is      *)
(* known from then on.                                                     *)
LEMMA OutputFacts ==
    ASSUME NEW r \in Recorder, NEW kind, NEW res, Kept(r), NEW q, q = SSH!RecordOutput(r, kind, res)
    PROVE  /\ Beside(q, r) /\ q.seen = r.seen
           /\ cfg.redact /\ r.made /\ ~r.closed =>
                 /\ q.tail = (kind = "half")
                 /\ kind = "prompt" \/ (kind = "end" /\ r.tail) => q.hide /\ q.sensitive
           /\ ~(r.made /\ ~r.closed) => q = r
<1>1. CASE ~r.made \/ r.closed
    <2>1. q = r
        BY <1>1 DEF SSH!RecordOutput
    <2>2. Beside(q, r)
        BY <2>1 DEF Beside, Advances, SameLife
    <2>. QED
        BY <1>1, <2>1, <2>2
<1>2. CASE r.made /\ ~r.closed
    <2>1. PICK a : a = SSH!ObserveSensitivePrompt(r, kind)
        OBVIOUS
    <2>2. /\ a \in Recorder /\ SameCommands(a, r) /\ a.fatal = r.fatal /\ a.made = r.made /\ a.closed = r.closed
          /\ a.seen = r.seen /\ a.clear = r.clear /\ (r.hide => a.hide) /\ (r.sensitive => a.sensitive)
          /\ cfg.redact => /\ a.tail = (kind = "half")
                           /\ kind = "prompt" \/ (kind = "end" /\ r.tail) => a.hide /\ a.sensitive
        <3>1. CASE cfg.redact
            <4>1. PICK seen \in BOOLEAN : seen = (kind = "prompt" \/ (kind = "end" /\ r.tail))
                OBVIOUS
            <4>2. PICK half \in BOOLEAN : half = (kind = "half")
                OBVIOUS
            <4>0. PICK hide \in BOOLEAN, sens \in BOOLEAN :
                      hide = (r.hide \/ seen) /\ sens = (r.sensitive \/ seen)
                OBVIOUS
            <4>3. a = [r EXCEPT !.tail = half, !.hide = hide, !.sensitive = sens]
                BY <2>1, <3>1, <4>0, <4>1, <4>2 DEF SSH!ObserveSensitivePrompt
            <4>4. /\ a \in Recorder /\ SameCommands(a, r) /\ a.fatal = r.fatal /\ a.made = r.made
                  /\ a.closed = r.closed /\ a.seen = r.seen /\ a.clear = r.clear
                  /\ a.tail = half /\ a.hide = hide /\ a.sensitive = sens
                BY <4>3 DEF Recorder, SameCommands
            <4>. QED
                BY <4>0, <4>1, <4>2, <4>4
        <3>2. CASE ~cfg.redact
            BY <2>1, <3>2 DEF SSH!ObserveSensitivePrompt, SameCommands
        <3>. QED
            BY <3>1, <3>2
    <2>3. PICK h \in {"", "half", "full"} : h = SSH!Held(r, kind)
        BY DEF SSH!Held
    <2>4. q = [a EXCEPT !.held = SSH!Held(r, kind),
                        !.asks = IF kind \in {"prompt", "end"} THEN @ + 1 ELSE @,
                        !.sensitive = (@ \/ (cfg.commands /\ (\/ (~cfg.redact /\ kind = "prompt")
                                                             \/ (kind = "text" /\ r.held = "full")))),
                        !.fatal = (@ \/ res = "cast")]
        BY <1>2, <2>1 DEF SSH!RecordOutput
    <2>5. PICK sens \in BOOLEAN :
              sens = (a.sensitive \/ (cfg.commands /\ (\/ (~cfg.redact /\ kind = "prompt")
                                                      \/ (kind = "text" /\ r.held = "full"))))
        OBVIOUS
    <2>10. PICK fatal \in BOOLEAN : fatal = (a.fatal \/ res = "cast")
        OBVIOUS
    <2>11. PICK n \in Nat : n = IF kind \in {"prompt", "end"} THEN a.asks + 1 ELSE a.asks
        <3>1. a.asks \in Nat
            BY <2>2 DEF Recorder
        <3>2. (IF kind \in {"prompt", "end"} THEN a.asks + 1 ELSE a.asks) \in Nat
            <4>1. a.asks + 1 \in Nat
                BY <3>1, Successor, Zenon
            <4>. QED
                BY <3>1, <4>1, Zenon
        <3>. QED
            BY <3>2, Zenon
    <2>6. q = [a EXCEPT !.held = h, !.sensitive = sens, !.asks = n, !.fatal = fatal]
        BY <2>3, <2>4, <2>5, <2>10, <2>11
    <2>7. /\ q \in Recorder /\ SameCommands(q, a) /\ (a.fatal => q.fatal) /\ q.made = a.made
          /\ q.closed = a.closed /\ q.seen = a.seen /\ q.clear = a.clear
          /\ q.tail = a.tail /\ q.hide = a.hide /\ (a.sensitive => q.sensitive)
        <3>1. /\ q \in Recorder /\ SameCommands(q, a) /\ q.fatal = fatal /\ q.made = a.made
              /\ q.closed = a.closed /\ q.seen = a.seen /\ q.clear = a.clear
              /\ q.tail = a.tail /\ q.hide = a.hide /\ q.sensitive = sens
            BY <2>2, <2>3, <2>5, <2>6, <2>10, <2>11 DEF Recorder, SameCommands
        <3>. QED
            BY <2>5, <2>10, <3>1
    <2>8. SameCommands(q, r) /\ SameLife(q, r)
        BY <2>2, <2>7 DEF SameCommands, SameLife
    <2>9. Beside(q, r)
        BY <2>2, <2>7, <2>8, BesideCommands
    <2>. QED
        BY <1>2, <2>2, <2>7, <2>9
<1>. QED
    BY <1>1, <1>2

(* Closing writes the open command or fails.                               *)
LEMMA CloseFacts ==
    ASSUME NEW r \in Recorder, NEW res, Kept(r), NEW q, q = SSH!Close(r, res)
    PROVE  /\ q \in Recorder /\ Kept(q) /\ q.made = r.made /\ (r.fatal => q.fatal) /\ (q.fatal => r.fatal \/ r.made)
           /\ (q.closed <=> r.closed \/ r.made) /\ q.seen = r.seen /\ q.clear = r.clear
           /\ Seen(q) \subseteq Seen(r) /\ q.line = r.line
           /\ ~q.closed => q.sensitive = r.sensitive
<1>1. CASE ~r.made \/ r.closed
    <2>1. q = r
        BY <1>1 DEF SSH!Close
    <2>. QED
        BY <1>1, <2>1 DEF Recorder
<1>2. CASE r.made /\ ~r.closed
    <2>1. PICK a : a = SSH!FlushPendingOutput(r)
        OBVIOUS
    <2>2. /\ a \in Recorder /\ Kept(a) /\ Seen(a) = Seen(r) /\ SameLife(a, r) /\ a.fatal = r.fatal
          /\ a.seen = r.seen /\ a.clear = r.clear /\ a.line = r.line
        BY <2>1, PendingFacts
    <2>3. PICK b : b = SSH!FlushCurrent(a, res)
        OBVIOUS
    <2>4. /\ b \in Recorder /\ Kept(b) /\ SameLife(b, a)
          /\ b.line = a.line /\ b.seen = a.seen /\ b.clear = a.clear
          /\ Seen(b) \subseteq Seen(a)
          /\ SSH!FlushFails(a, res) => b.fatal
          /\ ~SSH!FlushFails(a, res) => b.current = <<>>
        BY <2>2, <2>3, FlushFacts
    <2>6. q = [b EXCEPT !.closed = TRUE, !.fatal = (@ \/ res \in {"file", "cast"}),
                        !.sensitive = FALSE, !.hide = FALSE, !.tail = FALSE]
        BY <1>2, <2>1, <2>3 DEF SSH!Close
    <2>7. q \in Recorder
        BY <2>4, <2>6, EmptySeqs DEF Recorder
    <2>8. /\ q.closed /\ (b.fatal => q.fatal) /\ q.line = b.line /\ q.made = b.made
          /\ q.current = b.current /\ q.written = b.written /\ q.submitted = b.submitted /\ q.sink = b.sink
          /\ q.seen = b.seen /\ q.clear = b.clear
        BY <2>4, <2>6 DEF Recorder
    <2>9. Kept(q)
        <3>1. ~q.fatal => q.current = <<>>
            BY <2>4, <2>8
        <3>. QED
            BY <2>4, <2>8, <3>1, EmptySeqs DEF Kept, Pending
    <2>10. Seen(q) \subseteq Seen(r)
        BY <2>2, <2>4, <2>8, EmptySeqs DEF Seen
    <2>. QED
        BY <1>2, <2>2, <2>4, <2>7, <2>8, <2>9, <2>10 DEF SameLife
<1>. QED
    BY <1>1, <1>2

-----------------------------------------------------------------------------
(* The ledger.  Every command but the last is in the log, and so is the    *)
(* last one unless it is the open one; a prompt that is still in force has *)
(* not been used up by a dropped line; and until something fails all that  *)
(* was taken can be found.                                                 *)
DroppedIds(lines) == UNION {Ids(lines[i]) : i \in DOMAIN lines}
Covered(r) == r.kept \cup Ids(r.line) \cup Ids(r.current) \cup DroppedIds(r.dropped)
Behind(r) ==
    \A i \in DOMAIN r.submitted :
        \/ Ids(r.submitted[i]) \subseteq r.kept
        \/ i = Len(r.submitted) /\ r.submitted[i] = r.current
Counted(r) ==
    /\ Len(r.dropped) <= r.asks
    /\ r.sensitive \/ r.held = "full" => Len(r.dropped) < r.asks
AllFound(r) == ~r.fatal => \A f \in r.seen : f.kind = "enter" \/ f.id \in Covered(r)
Ledger(r) == Behind(r) /\ Counted(r) /\ AllFound(r)

(* A step of the command recorder, which takes no frame yet.               *)
Grows(q, r) ==
    /\ Behind(q) /\ Counted(q)
    /\ ~q.fatal => ~r.fatal /\ Covered(r) \subseteq Covered(q)
SameLedger(q, r) ==
    /\ q.line = r.line /\ q.current = r.current /\ q.submitted = r.submitted
    /\ q.dropped = r.dropped /\ q.kept = r.kept /\ q.asks = r.asks

LEMMA LedgerAlone ==
    ASSUME NEW r, NEW q, SameLedger(q, r)
    PROVE  /\ Covered(q) = Covered(r) /\ (Behind(r) => Behind(q))
           /\ Counted(r) /\ (q.sensitive \/ q.held = "full" => r.sensitive \/ r.held = "full") => Counted(q)
<1>1. Covered(q) = Covered(r)
    BY DEF SameLedger, Covered
<1>2. Behind(r) => Behind(q)
    BY DEF SameLedger, Behind
<1>3. Counted(r) /\ (q.sensitive \/ q.held = "full" => r.sensitive \/ r.held = "full") => Counted(q)
    BY DEF SameLedger, Counted
<1>. QED
    BY <1>1, <1>2, <1>3

LEMMA DroppedGrow ==
    ASSUME NEW d \in Seq(Seq(Nat)), NEW l \in Seq(Nat), NEW e, e = Append(d, l)
    PROVE  DroppedIds(e) = DroppedIds(d) \cup Ids(l) /\ Len(e) = Len(d) + 1
<1>1. PICK m : m = Len(d) + 1
    OBVIOUS
<1>2. /\ DOMAIN e = DOMAIN d \cup {m} /\ m \notin DOMAIN d
      /\ \A i \in DOMAIN d : e[i] = d[i]
      /\ e[m] = l
    BY <1>1, Appending
<1>3. DroppedIds(e) = DroppedIds(d) \cup Ids(l)
    <2>1. ASSUME NEW x PROVE x \in DroppedIds(e) <=> x \in DroppedIds(d) \/ x \in Ids(l)
        <3>1. x \in DroppedIds(e) <=> \E i \in DOMAIN e : x \in Ids(e[i])
            BY DEF DroppedIds
        <3>2. x \in DroppedIds(d) <=> \E i \in DOMAIN d : x \in Ids(d[i])
            BY DEF DroppedIds
        <3>. QED
            BY <1>2, <3>1, <3>2
    <2>. QED
        BY <2>1
<1>4. Len(e) = Len(d) + 1
    OBVIOUS
<1>. QED
    BY <1>3, <1>4

LEMMA ShiftLedger ==
    ASSUME NEW r, NEW q, Shift(q, r), q.line = r.line, q.dropped = r.dropped, q.submitted = r.submitted
    PROVE  Covered(r) \subseteq Covered(q) /\ (Behind(r) => Behind(q))
<1>. USE EmptySeqs
<1>1. Covered(r) \subseteq Covered(q)
    BY DEF Shift, Covered
<1>2. ASSUME Behind(r), NEW i \in DOMAIN q.submitted
      PROVE  Ids(q.submitted[i]) \subseteq q.kept \/ (i = Len(q.submitted) /\ q.submitted[i] = q.current)
    BY <1>2 DEF Shift, Behind
<1>. QED
    BY <1>1, <1>2 DEF Behind

(* A command is submitted once the one before it is in the log.            *)
LEMMA BehindGrows ==
    ASSUME NEW u, u.submitted \in Seq(Seq(Nat)), Behind(u), u.current = <<>>, NEW l \in Seq(Nat),
           NEW q, q.submitted = Append(u.submitted, l), q.current = l, u.kept \subseteq q.kept
    PROVE  Behind(q)
<1>. USE EmptySeqs
<1>1. PICK m : m = Len(u.submitted) + 1
    OBVIOUS
<1>2. /\ DOMAIN q.submitted = DOMAIN u.submitted \cup {m} /\ Len(q.submitted) = m
      /\ \A i \in DOMAIN u.submitted : q.submitted[i] = u.submitted[i]
      /\ q.submitted[m] = l
    <2>1. Len(Append(u.submitted, l)) = m
        BY <1>1
    <2>. QED
        BY <1>1, <2>1, Appending
<1>3. ASSUME NEW i \in DOMAIN q.submitted
      PROVE  Ids(q.submitted[i]) \subseteq q.kept \/ (i = Len(q.submitted) /\ q.submitted[i] = q.current)
    <2>1. CASE i = m
        BY <1>2, <2>1
    <2>2. CASE i \in DOMAIN u.submitted
        <3>1. Ids(u.submitted[i]) \subseteq u.kept
            BY <2>2 DEF Behind
        <3>. QED
            BY <1>2, <2>2, <3>1
    <2>. QED
        BY <1>2, <1>3, <2>1, <2>2
<1>. QED
    BY <1>3 DEF Behind

LEMMA SubmitLedger ==
    ASSUME NEW r \in Recorder, NEW res, Kept(r), Behind(r), Counted(r), r.held # "full",
           NEW q, q = SSH!SubmitLine(r, res)
    PROVE  Grows(q, r)
<1>. USE EmptySeqs
<1>1. PICK t : t = [r EXCEPT !.line = <<>>]
    OBVIOUS
<1>2. t \in Recorder
    BY <1>1 DEF Recorder
<1>3. /\ t.line = <<>> /\ t.sink = r.sink /\ t.current = r.current /\ t.fatal = r.fatal
      /\ t.written = r.written /\ t.submitted = r.submitted /\ t.closed = r.closed
      /\ t.dropped = r.dropped /\ t.asks = r.asks /\ t.kept = r.kept
      /\ t.sensitive = r.sensitive /\ t.held = r.held
    BY <1>1 DEF Recorder
<1>4. Kept(t)
    BY <1>3 DEF Kept, Pending
<1>5. /\ Behind(t) /\ Counted(t)
      /\ Covered(r) = Covered(t) \cup Ids(r.line)
    BY <1>3 DEF Behind, Counted, Covered
<1>6. CASE r.line = <<>>
    <2>1. q = t
        BY <1>1, <1>6 DEF SSH!SubmitLine
    <2>. QED
        BY <1>3, <1>5, <1>6, <2>1 DEF Grows
<1>7. CASE r.line # <<>> /\ r.sensitive
    <2>1. PICK d \in Seq(Seq(Nat)) : /\ d = Append(t.dropped, r.line) /\ Len(d) = Len(t.dropped) + 1
                                     /\ DroppedIds(d) = DroppedIds(t.dropped) \cup Ids(r.line)
        <3>1. t.dropped \in Seq(Seq(Nat)) /\ r.line \in Seq(Nat)
            BY <1>2 DEF Recorder
        <3>2. Append(t.dropped, r.line) \in Seq(Seq(Nat))
            BY <3>1, Appending
        <3>3. /\ Len(Append(t.dropped, r.line)) = Len(t.dropped) + 1
              /\ DroppedIds(Append(t.dropped, r.line)) = DroppedIds(t.dropped) \cup Ids(r.line)
            BY <3>1, DroppedGrow
        <3>. QED
            BY <3>2, <3>3, Zenon
    <2>2. q = [t EXCEPT !.sensitive = FALSE, !.dropped = d]
        BY <1>1, <1>7, <2>1 DEF SSH!SubmitLine
    <2>3. /\ q.line = t.line /\ q.current = t.current /\ q.submitted = t.submitted /\ q.fatal = t.fatal
          /\ q.dropped = d /\ q.kept = t.kept /\ q.asks = t.asks /\ ~q.sensitive /\ q.held = t.held
        BY <1>2, <2>2 DEF Recorder
    <2>4. Behind(q)
        BY <1>5, <2>3 DEF Behind
    <2>5. Counted(q)
        <3>1. t.dropped \in Seq(Seq(Nat)) /\ t.asks \in Nat
            BY <1>2 DEF Recorder
        <3>2. Len(t.dropped) < t.asks
            BY <1>3, <1>5, <1>7 DEF Counted
        <3>3. Len(t.dropped) \in Nat
            BY <3>1
        <3>4. Len(d) <= t.asks
            BY <2>1, <3>1, <3>2, <3>3, NextFits, Zenon
        <3>. QED
            BY <1>3, <2>3, <3>4 DEF Counted
    <2>6. Covered(r) \subseteq Covered(q)
        BY <1>5, <2>1, <2>3 DEF Covered
    <2>. QED
        BY <1>3, <2>3, <2>4, <2>5, <2>6 DEF Grows
<1>8. CASE r.line # <<>> /\ ~r.sensitive
    <2>1. PICK u : u = SSH!FlushCurrent(t, res)
        OBVIOUS
    <2>2. /\ u \in Recorder /\ SamePrompt(u, t) /\ SameLife(u, t)
          /\ u.line = t.line /\ u.submitted = t.submitted /\ u.dropped = t.dropped /\ u.asks = t.asks
          /\ Shift(u, t)
          /\ SSH!FlushFails(t, res) => u.fatal
          /\ ~SSH!FlushFails(t, res) => u.current = <<>>
        BY <1>2, <1>4, <2>1, FlushFacts
    <2>3. Covered(t) \subseteq Covered(u) /\ Behind(u)
        BY <1>5, <2>2, ShiftLedger
    <2>4. Counted(u)
        BY <1>5, <2>2 DEF Counted, SamePrompt
    <2>5. CASE SSH!FlushFails(t, res)
        <3>1. q = u
            BY <1>1, <1>8, <2>1, <2>5 DEF SSH!SubmitLine
        <3>. QED
            BY <2>2, <2>3, <2>4, <2>5, <3>1 DEF Grows
    <2>6. CASE ~SSH!FlushFails(t, res)
        <3>1. q = [u EXCEPT !.current = r.line, !.written = FALSE,
                            !.submitted = Append(u.submitted, r.line),
                            !.clear = u.clear \cup SSH!ToSet(r.line)]
            BY <1>1, <1>8, <2>1, <2>6 DEF SSH!SubmitLine
        <3>2. r.line \in Seq(Nat) /\ u.submitted \in Seq(Seq(Nat))
            BY <2>2 DEF Recorder
        <3>3. /\ q.line = u.line /\ q.current = r.line /\ q.submitted = Append(u.submitted, r.line)
              /\ q.fatal = u.fatal /\ q.dropped = u.dropped /\ q.kept = u.kept /\ q.asks = u.asks
              /\ q.sensitive = u.sensitive /\ q.held = u.held
            BY <2>2, <3>1 DEF Recorder
        <3>4. Behind(q)
            BY <2>2, <2>3, <2>6, <3>2, <3>3, BehindGrows
        <3>5. Counted(q)
            BY <2>4, <3>3 DEF Counted
        <3>6. Covered(r) \subseteq Covered(q)
            <4>1. Covered(u) \subseteq Covered(q) /\ Ids(r.line) \subseteq Covered(q)
                BY <2>2, <2>6, <3>3 DEF Covered
            <4>. QED
                BY <1>5, <2>3, <4>1
        <3>. QED
            BY <1>3, <2>2, <3>3, <3>4, <3>5, <3>6 DEF Grows, SameLife
    <2>. QED
        BY <2>5, <2>6
<1>. QED
    BY <1>6, <1>7, <1>8

(* A frame that is typed: it is on the line, or where the line went.       *)
LEMMA ObserveLedger ==
    ASSUME NEW r \in Recorder, NEW f \in Frame, NEW res, Kept(r), ~r.closed, f.id \notin Seen(r),
           Behind(r), Counted(r), r.held # "full",
           NEW q, q = SSH!ObserveInput(r, f, res)
    PROVE  Grows(q, r) /\ (~q.fatal => f.kind = "enter" \/ f.id \in Covered(q))
<1>1. PICK t : t = IF f.kind = "enter" THEN r ELSE [r EXCEPT !.line = Append(@, f.id)]
    OBVIOUS
<1>2. q = IF f.kind = "part" THEN t ELSE SSH!SubmitLine(t, res)
    BY <1>1 DEF SSH!ObserveInput
<1>3. f.id \in Nat /\ r.line \in Seq(Nat)
    BY DEF Frame, Recorder
<1>4. /\ t \in Recorder /\ Kept(t) /\ t.fatal = r.fatal /\ t.held = r.held
      /\ Behind(t) /\ Counted(t) /\ Covered(r) \subseteq Covered(t)
      /\ f.kind = "enter" \/ f.id \in Covered(t)
    <2>1. CASE f.kind = "enter"
        BY <1>1, <2>1
    <2>2. CASE f.kind # "enter"
        <3>1. PICK s \in Seq(Nat) : s = Append(r.line, f.id) /\ Ids(s) = Ids(r.line) \cup {f.id}
            BY <1>3, LineGrows
        <3>2. t = [r EXCEPT !.line = s]
            BY <1>1, <2>2, <3>1
        <3>3. /\ t \in Recorder /\ t.line = s /\ t.sink = r.sink /\ t.current = r.current /\ t.fatal = r.fatal
              /\ t.written = r.written /\ t.submitted = r.submitted /\ t.closed = r.closed
              /\ t.dropped = r.dropped /\ t.kept = r.kept /\ t.asks = r.asks
              /\ t.sensitive = r.sensitive /\ t.held = r.held
            BY <3>2 DEF Recorder
        <3>4. Kept(t)
            BY <3>1, <3>3 DEF Kept, Seen, Pending
        <3>5. Behind(t) /\ Counted(t)
            BY <3>3 DEF Behind, Counted
        <3>6. Covered(t) = Covered(r) \cup {f.id}
            BY <3>1, <3>3 DEF Covered
        <3>. QED
            BY <3>3, <3>4, <3>5, <3>6
    <2>. QED
        BY <2>1, <2>2
<1>5. CASE f.kind = "part"
    BY <1>2, <1>4, <1>5 DEF Grows
<1>6. CASE f.kind # "part"
    <2>1. Grows(q, t)
        BY <1>2, <1>4, <1>6, SubmitLedger
    <2>. QED
        BY <1>4, <2>1 DEF Grows
<1>. QED
    BY <1>5, <1>6

(* A command of an exec request.                                           *)
LEMMA DirectLedger ==
    ASSUME NEW r \in Recorder, NEW n \in Nat, NEW res, Kept(r), Behind(r), Counted(r),
           NEW q, q = SSH!RecordDirect(r, n, res)
    PROVE  Grows(q, r) /\ (~q.fatal => n \in Covered(q))
<1>1. PICK u : u = SSH!FlushCurrent(r, res)
    OBVIOUS
<1>2. /\ u \in Recorder /\ SamePrompt(u, r) /\ SameLife(u, r)
      /\ u.line = r.line /\ u.submitted = r.submitted /\ u.dropped = r.dropped /\ u.asks = r.asks
      /\ Shift(u, r)
      /\ SSH!FlushFails(r, res) => u.fatal
      /\ ~SSH!FlushFails(r, res) => u.current = <<>>
    BY <1>1, FlushFacts
<1>3. Covered(r) \subseteq Covered(u) /\ Behind(u)
    BY <1>2, ShiftLedger
<1>4. Counted(u)
    BY <1>2 DEF Counted, SamePrompt
<1>5. CASE SSH!FlushFails(r, res)
    <2>1. q = u
        BY <1>1, <1>5 DEF SSH!RecordDirect
    <2>. QED
        BY <1>2, <1>3, <1>4, <1>5, <2>1 DEF Grows
<1>6. CASE ~SSH!FlushFails(r, res)
    <2>1. PICK l \in Seq(Nat) : l = <<n>>
        <3>1. <<n>> \in Seq(Nat)
            OBVIOUS
        <3>. QED
            BY <3>1, Zenon
    <2>2. u.submitted \in Seq(Seq(Nat)) /\ u.sink \in Seq(Seq(Nat))
        BY <1>2 DEF Recorder
    <2>3. PICK s \in Seq(Seq(Nat)) : s = Append(u.submitted, l)
        <3>1. Append(u.submitted, l) \in Seq(Seq(Nat))
            BY <2>2, Appending
        <3>. QED
            BY <3>1, Zenon
    <2>4. PICK k \in Seq(Seq(Nat)) : k = Append(u.sink, l)
        <3>1. Append(u.sink, l) \in Seq(Seq(Nat))
            BY <2>2, Appending
        <3>. QED
            BY <3>1, Zenon
    <2>5. PICK w \in SUBSET Nat : w = u.kept \cup {n}
        BY <1>2 DEF Recorder
    <2>6. /\ q.line = u.line /\ q.current = l /\ q.submitted = s /\ q.dropped = u.dropped
          /\ q.asks = u.asks /\ q.sensitive = u.sensitive /\ q.held = u.held
          /\ u.kept \subseteq q.kept
          /\ ~q.fatal => ~u.fatal /\ n \in q.kept
        <3>1. CASE res = "db"
            <4>1. q = [u EXCEPT !.current = l, !.submitted = s, !.written = FALSE, !.fatal = TRUE]
                BY <1>1, <1>2, <1>6, <2>1, <2>3, <3>1 DEF SSH!RecordDirect, Recorder
            <4>. QED
                BY <1>2, <4>1 DEF Recorder
        <3>2. CASE res # "db"
            <4>1. q = [u EXCEPT !.current = l, !.submitted = s, !.written = TRUE, !.sink = k, !.kept = w]
                BY <1>1, <1>2, <1>6, <2>1, <2>3, <2>4, <2>5, <3>2 DEF SSH!RecordDirect, Recorder
            <4>2. /\ q.line = u.line /\ q.current = l /\ q.submitted = s /\ q.dropped = u.dropped
                  /\ q.asks = u.asks /\ q.sensitive = u.sensitive /\ q.held = u.held
                  /\ q.kept = w /\ q.fatal = u.fatal
                BY <1>2, <4>1 DEF Recorder
            <4>. QED
                BY <2>5, <4>2
        <3>. QED
            BY <3>1, <3>2
    <2>7. Behind(q)
        BY <1>2, <1>3, <1>6, <2>2, <2>3, <2>6, BehindGrows
    <2>8. Counted(q)
        BY <1>4, <2>6 DEF Counted
    <2>9. Covered(u) \subseteq Covered(q) /\ (~q.fatal => n \in Covered(q))
        BY <1>2, <1>6, <2>6, EmptySeqs DEF Covered
    <2>10. ~q.fatal => ~r.fatal
        BY <1>2, <2>6 DEF SameLife
    <2>. QED
        BY <1>3, <2>7, <2>8, <2>9, <2>10 DEF Grows
<1>. QED
    BY <1>5, <1>6

(* A prompt that the output redactor held is known to the command recorder *)
(* from the next input on.                                                 *)
LEMMA PendingLedger ==
    ASSUME NEW r \in Recorder, Counted(r), NEW q, q = SSH!FlushPendingOutput(r)
    PROVE  SameLedger(q, r) /\ Counted(q) /\ q.held # "full" /\ q.fatal = r.fatal /\ q.seen = r.seen
<1>1. SameLedger(q, r) /\ q.held # "full" /\ q.fatal = r.fatal /\ q.seen = r.seen
    BY DEF SSH!FlushPendingOutput, Recorder, SameLedger
<1>2. q.sensitive => r.sensitive \/ r.held = "full"
    BY DEF SSH!FlushPendingOutput, Recorder
<1>. QED
    BY <1>1, <1>2, LedgerAlone

(* The calls of the session recorder.                                      *)
LEMMA TakenLedger ==
    ASSUME NEW r, Ledger(r), NEW b, Grows(b, r), NEW q, SameLedger(q, b), NEW f,
           q.sensitive = b.sensitive, q.held = b.held, b.fatal => q.fatal,
           q.seen \subseteq r.seen \cup {f}, q.fatal \/ f \notin q.seen \/ f.kind = "enter" \/ f.id \in Covered(b)
    PROVE  Ledger(q)
<1>1. Behind(q) /\ Counted(q) /\ Covered(q) = Covered(b)
    BY LedgerAlone DEF Grows
<1>2. ASSUME ~q.fatal, NEW g \in q.seen
      PROVE  g.kind = "enter" \/ g.id \in Covered(q)
    <2>1. ~b.fatal /\ ~r.fatal /\ Covered(r) \subseteq Covered(q)
        BY <1>1, <1>2 DEF Grows
    <2>2. CASE g = f
        BY <1>1, <1>2, <2>2
    <2>3. CASE g \in r.seen
        BY <2>1, <2>3 DEF Ledger, AllFound
    <2>. QED
        BY <1>2, <2>2, <2>3
<1>. QED
    BY <1>1, <1>2 DEF Ledger, AllFound

LEMMA InputLedger ==
    ASSUME NEW r \in Recorder, NEW f \in Frame, NEW res, Kept(r), f.id \notin Seen(r), Ledger(r),
           NEW q, q = SSH!RecordInput(r, f, res)
    PROVE  Ledger(q)
<1>1. CASE ~r.made \/ r.closed
    BY <1>1 DEF SSH!RecordInput
<1>2. CASE r.made /\ ~r.closed
    <2>1. PICK a : a = SSH!FlushPendingOutput(r)
        OBVIOUS
    <2>2. PICK b : b = IF cfg.commands THEN SSH!ObserveInput(a, f, res) ELSE a
        OBVIOUS
    <2>3. PICK c : c = IF ~cfg.input THEN b
                       ELSE IF res = "cast" THEN [b EXCEPT !.fatal = TRUE]
                       ELSE SSH!RedactInputFrame(b, f)
        OBVIOUS
    <2>4. q = [c EXCEPT !.seen = IF c.fatal \/ ~cfg.commands THEN c.seen ELSE c.seen \cup {f}]
        BY <1>2, <2>1, <2>2, <2>3 DEF SSH!RecordInput
    <2>5. f.id \in Nat
        BY DEF Frame
    <2>6. a \in Recorder /\ Kept(a) /\ Seen(a) = Seen(r) /\ SameLife(a, r)
        BY <2>1, PendingFacts
    <2>7. SameLedger(a, r) /\ Counted(a) /\ a.held # "full" /\ a.fatal = r.fatal /\ a.seen = r.seen
        BY <2>1, PendingLedger DEF Ledger
    <2>8. Behind(a) /\ Covered(a) = Covered(r)
        BY <2>7, LedgerAlone DEF Ledger
    <2>9. /\ b \in Recorder /\ b.seen = r.seen /\ Grows(b, r)
          /\ cfg.commands => b.fatal \/ f.kind = "enter" \/ f.id \in Covered(b)
        <3>1. CASE cfg.commands
            <4>1. ~a.closed /\ f.id \notin Seen(a) /\ b = SSH!ObserveInput(a, f, res)
                BY <1>2, <2>2, <2>6, <3>1 DEF SameLife
            <4>2. b \in Recorder /\ b.seen = a.seen
                BY <2>6, <4>1, ObserveFacts
            <4>3. Grows(b, a) /\ (~b.fatal => f.kind = "enter" \/ f.id \in Covered(b))
                BY <2>6, <2>7, <2>8, <4>1, ObserveLedger
            <4>. QED
                BY <2>7, <2>8, <4>2, <4>3 DEF Grows
        <3>2. CASE ~cfg.commands
            BY <2>2, <2>6, <2>7, <2>8, <3>2 DEF Grows
        <3>. QED
            BY <3>1, <3>2
    <2>10. /\ c \in Recorder /\ SameLedger(c, b) /\ c.seen = b.seen
           /\ c.sensitive = b.sensitive /\ c.held = b.held /\ (b.fatal => c.fatal)
        <3>1. CASE ~cfg.input
            BY <2>3, <2>9, <3>1 DEF SameLedger
        <3>2. CASE cfg.input /\ res = "cast"
            BY <2>3, <2>9, <3>2 DEF SameLedger, Recorder
        <3>3. CASE cfg.input /\ res # "cast" /\ cfg.redact /\ b.hide
            <4>1. c = [b EXCEPT !.hide = (f.kind = "part")]
                BY <2>3, <3>3 DEF SSH!RedactInputFrame
            <4>. QED
                BY <2>9, <4>1 DEF SameLedger, Recorder
        <3>4. CASE cfg.input /\ res # "cast" /\ ~(cfg.redact /\ b.hide)
            <4>1. PICK w \in SUBSET Nat : w = b.clear \cup {f.id}
                <5>1. b.clear \in SUBSET Nat
                    BY <2>9 DEF Recorder
                <5>. QED
                    BY <2>5, <5>1
            <4>2. c = [b EXCEPT !.clear = w]
                BY <2>3, <3>4, <4>1 DEF SSH!RedactInputFrame
            <4>. QED
                BY <2>9, <4>2 DEF SameLedger, Recorder
        <3>. QED
            BY <3>1, <3>2, <3>3, <3>4
    <2>11. PICK l \in SUBSET Frame : l = IF c.fatal \/ ~cfg.commands THEN c.seen ELSE c.seen \cup {f}
        <3>1. c.seen \in SUBSET Frame
            BY <2>10 DEF Recorder
        <3>. QED
            BY <3>1
    <2>12. q = [c EXCEPT !.seen = l]
        BY <2>4, <2>11
    <2>13. /\ SameLedger(q, c) /\ q.seen = l /\ q.sensitive = c.sensitive /\ q.held = c.held
           /\ q.fatal = c.fatal
        BY <2>10, <2>12 DEF SameLedger, Recorder
    <2>14. SameLedger(q, b) /\ q.sensitive = b.sensitive /\ q.held = b.held /\ (b.fatal => q.fatal)
        BY <2>10, <2>13 DEF SameLedger
    <2>15. CASE q.fatal \/ ~cfg.commands
        <3>1. q.seen = r.seen
            BY <2>9, <2>10, <2>11, <2>13, <2>15
        <3>2. Behind(q) /\ Counted(q) /\ Covered(q) = Covered(b)
            BY <2>9, <2>14, LedgerAlone DEF Grows
        <3>3. AllFound(q)
            BY <2>9, <2>14, <3>1, <3>2 DEF Grows, AllFound, Ledger
        <3>. QED
            BY <3>2, <3>3 DEF Ledger
    <2>16. CASE ~q.fatal /\ cfg.commands
        <3>1. q.seen = r.seen \cup {f} /\ (f.kind = "enter" \/ f.id \in Covered(b))
            BY <2>9, <2>10, <2>11, <2>13, <2>14, <2>16
        <3>. QED
            BY <2>9, <2>14, <3>1, TakenLedger
    <2>. QED
        BY <2>15, <2>16
<1>. QED
    BY <1>1, <1>2

LEMMA CommandLedger ==
    ASSUME NEW r \in Recorder, NEW f \in Frame, NEW res, Kept(r), f.id \notin Seen(r), Ledger(r),
           NEW q, q = SSH!RecordCommand(r, f, res)
    PROVE  Ledger(q)
<1>1. CASE ~r.made \/ r.closed \/ ~cfg.commands
    BY <1>1 DEF SSH!RecordCommand
<1>2. CASE r.made /\ ~r.closed /\ cfg.commands
    <2>1. PICK a : a = SSH!FlushPendingOutput(r)
        OBVIOUS
    <2>2. PICK c : c = SSH!RecordDirect(a, f.id, res)
        OBVIOUS
    <2>3. q = [c EXCEPT !.seen = IF c.fatal THEN c.seen ELSE c.seen \cup {f}]
        BY <1>2, <2>1, <2>2 DEF SSH!RecordCommand
    <2>4. f.id \in Nat
        BY DEF Frame
    <2>5. a \in Recorder /\ Kept(a) /\ Seen(a) = Seen(r) /\ SameLife(a, r)
        BY <2>1, PendingFacts
    <2>6. SameLedger(a, r) /\ Counted(a) /\ a.fatal = r.fatal /\ a.seen = r.seen
        BY <2>1, PendingLedger DEF Ledger
    <2>7. Behind(a) /\ Covered(a) = Covered(r)
        BY <2>6, LedgerAlone DEF Ledger
    <2>8. ~a.closed /\ f.id \notin Seen(a)
        BY <1>2, <2>5 DEF SameLife
    <2>9. c \in Recorder /\ c.seen = a.seen
        BY <2>2, <2>4, <2>5, <2>8, DirectFacts
    <2>10. Grows(c, a) /\ (~c.fatal => f.id \in Covered(c))
        BY <2>2, <2>4, <2>5, <2>6, <2>7, DirectLedger
    <2>11. Grows(c, r)
        BY <2>6, <2>7, <2>10 DEF Grows
    <2>12. PICK l \in SUBSET Frame : l = IF c.fatal THEN c.seen ELSE c.seen \cup {f}
        <3>1. c.seen \in SUBSET Frame
            BY <2>9 DEF Recorder
        <3>. QED
            BY <3>1
    <2>13. q = [c EXCEPT !.seen = l]
        BY <2>3, <2>12
    <2>14. /\ SameLedger(q, c) /\ q.seen = l /\ q.sensitive = c.sensitive /\ q.held = c.held
           /\ q.fatal = c.fatal
        BY <2>9, <2>13 DEF SameLedger, Recorder
    <2>15. q.seen \subseteq r.seen \cup {f}
        BY <2>6, <2>9, <2>12, <2>14
    <2>. QED
        BY <2>10, <2>11, <2>14, <2>15, TakenLedger
<1>. QED
    BY <1>1, <1>2

LEMMA FileEventLedger ==
    ASSUME NEW r \in Recorder, NEW f \in Frame, NEW res, Ledger(r),
           NEW q, q = SSH!RecordFileEvent(r, f, res)
    PROVE  Ledger(q)
<1>1. CASE ~r.made \/ r.closed
    BY <1>1 DEF SSH!RecordFileEvent
<1>2. CASE r.made /\ ~r.closed
    <2>1. PICK w \in SUBSET Nat : w = r.kept \cup {f.id}
        BY DEF Frame, Recorder
    <2>2. PICK l \in SUBSET Frame : l = r.seen \cup {f}
        BY DEF Recorder
    <2>3. /\ q.line = r.line /\ q.current = r.current /\ q.submitted = r.submitted
          /\ q.dropped = r.dropped /\ q.asks = r.asks /\ q.sensitive = r.sensitive /\ q.held = r.held
          /\ q.kept = w /\ (~q.fatal => ~r.fatal) /\ q.seen \subseteq l
        <3>1. CASE res \in {"db", "file"}
            <4>1. q = [r EXCEPT !.kept = w, !.fatal = TRUE]
                BY <1>2, <2>1, <3>1 DEF SSH!RecordFileEvent
            <4>. QED
                BY <2>2, <4>1 DEF Recorder
        <3>2. CASE res \notin {"db", "file"}
            <4>1. q = [r EXCEPT !.kept = w, !.seen = l]
                BY <1>2, <2>1, <2>2, <3>2 DEF SSH!RecordFileEvent
            <4>. QED
                BY <4>1 DEF Recorder
        <3>. QED
            BY <3>1, <3>2
    <2>4. Behind(q)
        BY <2>1, <2>3 DEF Ledger, Behind
    <2>5. Counted(q)
        BY <2>3 DEF Ledger, Counted
    <2>6. Covered(q) = Covered(r) \cup {f.id}
        BY <2>1, <2>3 DEF Covered
    <2>7. AllFound(q)
        BY <2>2, <2>3, <2>6 DEF Ledger, AllFound
    <2>. QED
        BY <2>4, <2>5, <2>7 DEF Ledger
<1>. QED
    BY <1>1, <1>2

LEMMA SameLedgerKept ==
    ASSUME NEW r, Ledger(r), NEW q, SameLedger(q, r), q.seen = r.seen, r.fatal => q.fatal, Counted(q)
    PROVE  Ledger(q)
<1>1. Behind(q) /\ Covered(q) = Covered(r)
    BY LedgerAlone DEF Ledger
<1>. QED
    BY <1>1 DEF Ledger, AllFound

LEMMA SubtypeLedger ==
    ASSUME NEW r \in Recorder, NEW res, Ledger(r), NEW q, q = SSH!SetProtocolSubtype(r, res)
    PROVE  Ledger(q)
<1>1. /\ SameLedger(q, r) /\ q.seen = r.seen /\ (r.fatal => q.fatal)
      /\ q.sensitive = r.sensitive /\ q.held = r.held
    BY DEF SSH!SetProtocolSubtype, Recorder, SameLedger
<1>2. Counted(q)
    BY <1>1, LedgerAlone DEF Ledger
<1>. QED
    BY <1>1, <1>2, SameLedgerKept

(* A prompt gives room for one line that is dropped.                       *)
LEMMA OutputLedger ==
    ASSUME NEW r \in Recorder, NEW kind \in {"text", "prompt", "half", "end"}, NEW res, Ledger(r),
           NEW q, q = SSH!RecordOutput(r, kind, res)
    PROVE  Ledger(q)
<1>1. CASE ~r.made \/ r.closed
    BY <1>1 DEF SSH!RecordOutput
<1>2. CASE r.made /\ ~r.closed
    <2>1. PICK a : a = SSH!ObserveSensitivePrompt(r, kind)
        OBVIOUS
    <2>2. /\ a \in Recorder /\ SameLedger(a, r) /\ a.fatal = r.fatal /\ a.seen = r.seen
          /\ kind \in {"text", "half"} => a.sensitive = r.sensitive
        <3>1. CASE cfg.redact
            <4>1. PICK seen \in BOOLEAN : seen = (kind = "prompt" \/ (kind = "end" /\ r.tail))
                OBVIOUS
            <4>2. PICK half \in BOOLEAN : half = (kind = "half")
                OBVIOUS
            <4>3. PICK hide \in BOOLEAN, sens \in BOOLEAN :
                      hide = (r.hide \/ seen) /\ sens = (r.sensitive \/ seen)
                OBVIOUS
            <4>4. a = [r EXCEPT !.tail = half, !.hide = hide, !.sensitive = sens]
                BY <2>1, <3>1, <4>1, <4>2, <4>3 DEF SSH!ObserveSensitivePrompt
            <4>5. a \in Recorder /\ SameLedger(a, r) /\ a.fatal = r.fatal /\ a.seen = r.seen /\ a.sensitive = sens
                BY <4>4 DEF Recorder, SameLedger
            <4>6. r.sensitive \in BOOLEAN
                BY DEF Recorder
            <4>. QED
                BY <4>1, <4>3, <4>5, <4>6
        <3>2. CASE ~cfg.redact
            BY <2>1, <3>2 DEF SSH!ObserveSensitivePrompt, SameLedger
        <3>. QED
            BY <3>1, <3>2
    <2>3. PICK h \in {"", "half", "full"} : h = SSH!Held(r, kind)
        BY DEF SSH!Held
    <2>4. q = [a EXCEPT !.held = SSH!Held(r, kind),
                        !.asks = IF kind \in {"prompt", "end"} THEN @ + 1 ELSE @,
                        !.sensitive = (@ \/ (cfg.commands /\ (\/ (~cfg.redact /\ kind = "prompt")
                                                             \/ (kind = "text" /\ r.held = "full")))),
                        !.fatal = (@ \/ res = "cast")]
        BY <1>2, <2>1 DEF SSH!RecordOutput
    <2>5. PICK sens \in BOOLEAN :
              sens = (a.sensitive \/ (cfg.commands /\ (\/ (~cfg.redact /\ kind = "prompt")
                                                      \/ (kind = "text" /\ r.held = "full"))))
        OBVIOUS
    <2>6. PICK fatal \in BOOLEAN : fatal = (a.fatal \/ res = "cast")
        OBVIOUS
    <2>7. PICK n \in Nat : n = IF kind \in {"prompt", "end"} THEN a.asks + 1 ELSE a.asks
        <3>1. a.asks \in Nat
            BY <2>2 DEF Recorder
        <3>2. (IF kind \in {"prompt", "end"} THEN a.asks + 1 ELSE a.asks) \in Nat
            <4>1. a.asks + 1 \in Nat
                BY <3>1, Successor, Zenon
            <4>. QED
                BY <3>1, <4>1, Zenon
        <3>. QED
            BY <3>2, Zenon
    <2>8. q = [a EXCEPT !.held = h, !.sensitive = sens, !.asks = n, !.fatal = fatal]
        BY <2>3, <2>4, <2>5, <2>6, <2>7
    <2>9. /\ q.line = a.line /\ q.current = a.current /\ q.submitted = a.submitted /\ q.dropped = a.dropped
          /\ q.kept = a.kept /\ q.seen = a.seen /\ q.asks = n /\ q.sensitive = sens /\ q.held = h
          /\ q.fatal = fatal
        BY <2>2, <2>3, <2>5, <2>6, <2>7, <2>8 DEF Recorder
    <2>10. /\ q.line = r.line /\ q.current = r.current /\ q.submitted = r.submitted /\ q.dropped = r.dropped
           /\ q.kept = r.kept /\ q.seen = r.seen /\ (r.fatal => q.fatal)
        BY <2>2, <2>6, <2>9 DEF SameLedger
    <2>11. Counted(q)
        <3>1. Len(r.dropped) \in Nat /\ r.asks \in Nat /\ Len(r.dropped) <= r.asks
            <4>1. r.dropped \in Seq(Seq(Nat)) /\ r.asks \in Nat
                BY DEF Recorder
            <4>2. Len(r.dropped) \in Nat
                BY <4>1, LinesCounted, Zenon
            <4>3. Len(r.dropped) <= r.asks
                BY DEF Ledger, Counted
            <4>. QED
                BY <4>1, <4>2, <4>3
        <3>2. CASE kind \in {"prompt", "end"}
            <4>1. q.asks = r.asks + 1
                BY <2>2, <2>7, <2>9, <3>2 DEF SameLedger
            <4>2. Len(r.dropped) < r.asks + 1 /\ Len(r.dropped) <= r.asks + 1
                BY <3>1, RoomAbove, Zenon
            <4>. QED
                BY <2>10, <4>1, <4>2 DEF Counted
        <3>3. CASE kind \in {"text", "half"}
            <4>1. q.asks = r.asks
                BY <2>2, <2>7, <2>9, <3>3 DEF SameLedger
            <4>2. q.sensitive => r.sensitive \/ r.held = "full"
                BY <2>2, <2>5, <2>9, <3>3
            <4>3. q.held = "full" => r.held = "full"
                BY <2>3, <2>9, <3>3 DEF SSH!Held
            <4>. QED
                BY <2>10, <4>1, <4>2, <4>3 DEF Ledger, Counted
        <3>. QED
            BY <3>2, <3>3
    <2>12. Behind(q)
        BY <2>10 DEF Ledger, Behind
    <2>13. AllFound(q)
        BY <2>10 DEF Ledger, AllFound, Covered
    <2>. QED
        BY <2>11, <2>12, <2>13 DEF Ledger
<1>. QED
    BY <1>1, <1>2

LEMMA CloseLedger ==
    ASSUME NEW r \in Recorder, NEW res, Kept(r), Ledger(r), NEW q, q = SSH!Close(r, res)
    PROVE  Ledger(q)
<1>1. CASE ~r.made \/ r.closed
    BY <1>1 DEF SSH!Close
<1>2. CASE r.made /\ ~r.closed
    <2>1. PICK a : a = SSH!FlushPendingOutput(r)
        OBVIOUS
    <2>2. PICK b : b = SSH!FlushCurrent(a, res)
        OBVIOUS
    <2>3. a \in Recorder /\ Kept(a)
        BY <2>1, PendingFacts
    <2>4. SameLedger(a, r) /\ Counted(a) /\ a.fatal = r.fatal /\ a.seen = r.seen
        BY <2>1, PendingLedger DEF Ledger
    <2>5. Behind(a) /\ Covered(a) = Covered(r)
        BY <2>4, LedgerAlone DEF Ledger
    <2>6. /\ b \in Recorder /\ SamePrompt(b, a) /\ SameLife(b, a) /\ b.seen = a.seen
          /\ b.line = a.line /\ b.submitted = a.submitted /\ b.dropped = a.dropped /\ b.asks = a.asks
          /\ Shift(b, a)
        BY <2>2, <2>3, FlushFacts
    <2>7. Covered(a) \subseteq Covered(b) /\ Behind(b)
        BY <2>5, <2>6, ShiftLedger
    <2>8. q = [b EXCEPT !.closed = TRUE, !.fatal = (@ \/ res \in {"file", "cast"}),
                        !.sensitive = FALSE, !.hide = FALSE, !.tail = FALSE]
        BY <1>2, <2>1, <2>2 DEF SSH!Close
    <2>9. /\ SameLedger(q, b) /\ q.seen = b.seen /\ (b.fatal => q.fatal) /\ ~q.sensitive /\ q.held = b.held
        BY <2>6, <2>8 DEF SameLedger, Recorder
    <2>10. Behind(q) /\ Covered(q) = Covered(b)
        BY <2>7, <2>9, LedgerAlone
    <2>11. Counted(q)
        <3>1. Counted(b)
            BY <2>4, <2>6 DEF Counted, SamePrompt
        <3>. QED
            BY <2>9, <3>1, LedgerAlone
    <2>12. AllFound(q)
        BY <2>4, <2>5, <2>6, <2>7, <2>9, <2>10 DEF Ledger, AllFound, SameLife
    <2>. QED
        BY <2>10, <2>11, <2>12 DEF Ledger
<1>. QED
    BY <1>1, <1>2

-----------------------------------------------------------------------------
(* The steps that touch neither the recorder nor a channel.                *)
LEMMA HandlerAlone ==
    ASSUME GatewayInv, UNCHANGED <<front, cfg, rec, chan, reached, answers, frames>>,
           clientUp' \in BOOLEAN, targetUp' \in BOOLEAN, Flow'
    PROVE  GatewayInv'
<1>1. GatewayTypes' /\ Kept(rec)'
    BY DEF GatewayInv, GatewayTypes
<1>2. FramesApart'
    <2>1. Touched' = Touched
        BY DEF Touched
    <2>. QED
        BY <2>1 DEF GatewayInv, FramesApart, Numbers, FramesNumbered, QueuesApart, TodosApart
<1>3. AnswersHidden'
    BY DEF GatewayInv, AnswersHidden, PromptKnown
<1>4. Effects' /\ InputSeen'
    BY DEF GatewayInv, Effects, Traced, InputSeen, SSH!SeenFirst, SSH!Unseen, SSH!Recording
<1>5. \A c \in Channels : Answering(chan[c])' /\ Fitting(chan[c])'
    BY DEF GatewayInv, Answering, Fitting
<1>. QED
    BY <1>1, <1>2, <1>3, <1>4, <1>5 DEF GatewayInv

LEMMA TeardownBegins ==
    SSH!Teardown[1] = IF front = "ssh" THEN "closeRecorder" ELSE "closeTarget"
BY DEF SSH!Teardown

LEMMA TeardownGoesOn ==
    ASSUME NEW s \in {"closeRecorder", "endAudit", "closeTarget"}
    PROVE  SSH!AfterStep(s) \in {"closeRecorder", "endAudit", "closeTarget", "closeClient"}
<1>1. ASSUME NEW T, \/ T = <<"closeRecorder", "endAudit", "closeTarget", "closeClient", "done">>
                    \/ T = <<"closeTarget", "closeRecorder", "endAudit", "closeClient", "done">>
      PROVE  T[1 + CHOOSE i \in 1 .. 4 : T[i] = s] \in {"closeRecorder", "endAudit", "closeTarget", "closeClient"}
    <2>1. \E i \in 1 .. 4 : T[i] = s
        <3>1. T[1] = s \/ T[2] = s \/ T[3] = s
            BY <1>1
        <3>. QED
            BY <3>1
    <2>2. PICK i \in 1 .. 4 : T[i] = s /\ i = CHOOSE j \in 1 .. 4 : T[j] = s
        BY <2>1
    <2>3. i \in 1 .. 3
        BY <1>1, <2>2
    <2>. QED
        BY <1>1, <2>2, <2>3
<1>. QED
    BY <1>1 DEF SSH!AfterStep, SSH!Teardown

(* A web terminal has closed the target before it does anything else.      *)
LEMMA TargetClosedFirst ==
    ASSUME NEW s \in {"closeRecorder", "endAudit"}, front # "ssh"
    PROVE  SSH!AfterStep(s) # "closeTarget"
<1>1. ASSUME NEW T, T = <<"closeTarget", "closeRecorder", "endAudit", "closeClient", "done">>
      PROVE  T[1 + CHOOSE i \in 1 .. 4 : T[i] = s] # "closeTarget"
    <2>1. \E i \in 1 .. 4 : T[i] = s
        <3>1. T[2] = s \/ T[3] = s
            BY <1>1
        <3>. QED
            BY <3>1
    <2>2. PICK i \in 1 .. 4 : T[i] = s /\ i = CHOOSE j \in 1 .. 4 : T[j] = s
        BY <2>1
    <2>3. i \in 2 .. 3
        BY <1>1, <2>2
    <2>. QED
        BY <1>1, <2>2, <2>3
<1>. QED
    BY <1>1 DEF SSH!AfterStep, SSH!Teardown

(* The handler goes on, or leaves.                                         *)
LEMMA FlowGoesOn ==
    ASSUME GatewayInv, UNCHANGED <<front, cfg, rec, chan>>,
           pc' \in Early \cup {"serve"} \cup Late,
           pc' \in Early => pc \in Early,
           pc' \in Early \ Ready => pc \in Early \ Ready,
           pc' \in Ready \cup {"serve"} => pc \in Ready \cup {"serve"},
           rec.fatal => ~targetUp',
           front # "ssh" /\ (pc' \in Late \ {"closeTarget"} \/ rec.closed) => ~targetUp'
    PROVE  Flow'
<1>1. \A c \in Channels : Started(chan[c])'
    <2>1. SUFFICES ASSUME NEW c \in Channels PROVE Started(chan[c])'
        OBVIOUS
    <2>2. Started(chan[c])
        BY DEF GatewayInv, Flow
    <2>. QED
        BY <2>2 DEF Started, Unused
<1>. QED
    BY <1>1 DEF GatewayInv, Flow

LEMMA LeaveSafe ==
    ASSUME GatewayInv, SSH!Leave, UNCHANGED <<front, cfg, rec, chan>>, targetUp' = targetUp
    PROVE  Flow'
<1>1. pc' = IF front = "ssh" THEN "closeRecorder" ELSE "closeTarget"
    BY TeardownBegins DEF SSH!Leave
<1>2. /\ pc' \in Late /\ pc' \notin Early /\ pc' # "serve"
      /\ rec.fatal => ~targetUp
      /\ front # "ssh" /\ (pc' \in Late \ {"closeTarget"} \/ rec.closed) => ~targetUp
    BY <1>1 DEF GatewayInv, Flow, Early, Late
<1>. QED
    BY <1>2, FlowGoesOn DEF Early, Ready

LEMMA QuietHandlerSafe ==
    ASSUME GatewayInv,
           \/ SSH!Handshake \/ SSH!ResolveTarget \/ SSH!AuthorizeTarget \/ SSH!DialTarget
           \/ SSH!CreateAuditSession \/ SSH!ServeReturns \/ SSH!EndAuditSession
           \/ SSH!CloseTarget \/ SSH!CloseClient
    PROVE  GatewayInv'
<1>. USE DEF Early, Ready, Late
<1>0. /\ clientUp \in BOOLEAN /\ targetUp \in BOOLEAN
      /\ pc \in Early \ Ready => ~rec.made
      /\ rec.fatal \/ rec.closed => rec.made
      /\ rec.fatal => ~targetUp
      /\ front # "ssh" /\ (pc \in Late \ {"closeTarget"} \/ rec.closed) => ~targetUp
    BY DEF GatewayInv, GatewayTypes, Flow
<1>1. ASSUME NEW here \in {"handshake", "resolve", "authorize", "dial", "audit"},
             NEW next \in Early \ Ready,
             pc = here, pc' = next \/ SSH!Leave,
             SSH!Leave => targetUp' = targetUp,
             UNCHANGED <<front, cfg, rec, chan, reached, answers, frames>>,
             clientUp' \in BOOLEAN, targetUp' \in BOOLEAN
      PROVE  GatewayInv'
    <2>1. CASE SSH!Leave
        BY <1>1, <2>1, LeaveSafe, HandlerAlone
    <2>2. CASE pc' = next
        <3>1. ~rec.made /\ ~rec.fatal /\ ~rec.closed
            BY <1>0, <1>1
        <3>2. pc' \in Early \ Ready /\ pc \in Early \ Ready
            BY <1>1, <2>2
        <3>3. Flow'
            BY <1>1, <3>1, <3>2, FlowGoesOn
        <3>. QED
            BY <1>1, <3>3, HandlerAlone
    <2>. QED
        BY <1>1, <2>1, <2>2
<1>2. CASE SSH!Handshake
    BY <1>0, <1>1, <1>2 DEF SSH!Handshake, SSH!Try, SSH!Leave, SSH!links, SSH!ghosts, SSH!bounds
<1>3. CASE SSH!ResolveTarget
    BY <1>0, <1>1, <1>3 DEF SSH!ResolveTarget, SSH!Try, SSH!Leave, SSH!links, SSH!ghosts, SSH!bounds
<1>4. CASE SSH!AuthorizeTarget
    BY <1>0, <1>1, <1>4 DEF SSH!AuthorizeTarget, SSH!Try, SSH!Leave, SSH!links, SSH!ghosts, SSH!bounds
<1>5. CASE SSH!DialTarget
    <2>1. SSH!Leave => pc' # "audit"
        BY TeardownBegins DEF SSH!Leave
    <2>. QED
        <3>1. /\ pc = "dial" /\ UNCHANGED <<front, cfg, rec, chan, reached, answers, frames>>
              /\ \/ pc' = "audit" /\ targetUp' = TRUE /\ UNCHANGED clientUp
                 \/ SSH!Leave /\ UNCHANGED <<clientUp, targetUp>>
            BY <1>5 DEF SSH!DialTarget, SSH!Try, SSH!links, SSH!ghosts, SSH!bounds
        <3>2. SSH!Leave => targetUp' = targetUp
            BY <2>1, <3>1
        <3>3. clientUp' \in BOOLEAN /\ targetUp' \in BOOLEAN /\ "audit" \in Early \ Ready
            BY <1>0, <3>1
        <3>4. pc' = "audit" \/ SSH!Leave
            BY <3>1
        <3>. QED
            BY <1>1, <3>1, <3>2, <3>3, <3>4
<1>6. CASE SSH!CreateAuditSession
    BY <1>0, <1>1, <1>6 DEF SSH!CreateAuditSession, SSH!Try, SSH!Leave, SSH!links, SSH!ghosts, SSH!bounds
<1>7. CASE SSH!ServeReturns
    <2>1. /\ UNCHANGED <<front, cfg, rec, chan, reached, answers, frames, clientUp, targetUp>>
          /\ SSH!Leave
        BY <1>7 DEF SSH!ServeReturns, SSH!links, SSH!ghosts, SSH!bounds
    <2>. QED
        BY <1>0, <2>1, LeaveSafe, HandlerAlone
<1>8. CASE SSH!EndAuditSession \/ SSH!CloseTarget \/ SSH!CloseClient
    <2>1. /\ UNCHANGED <<front, cfg, rec, chan, reached, answers, frames>>
          /\ targetUp' \in BOOLEAN /\ clientUp' \in BOOLEAN
          /\ pc \in {"endAudit", "closeTarget", "closeClient"} /\ (targetUp' => targetUp)
          /\ pc = "closeTarget" => ~targetUp'
          /\ pc' = IF pc = "closeClient" THEN "done" ELSE SSH!AfterStep(pc)
        <3>1. CASE SSH!EndAuditSession
            BY <1>0, <3>1 DEF SSH!EndAuditSession, SSH!links, SSH!ghosts, SSH!bounds
        <3>2. CASE SSH!CloseTarget
            BY <1>0, <3>2 DEF SSH!CloseTarget, SSH!ghosts, SSH!bounds
        <3>3. CASE SSH!CloseClient
            BY <1>0, <3>3 DEF SSH!CloseClient, SSH!ghosts, SSH!bounds
        <3>. QED
            BY <1>8, <3>1, <3>2, <3>3
    <2>2. pc' \in Late
        BY <2>1, TeardownGoesOn
    <2>3. front # "ssh" => ~targetUp'
        BY <1>0, <2>1
    <2>4. pc' \notin Early /\ pc' # "serve"
        BY <2>2
    <2>5. Flow'
        BY <1>0, <2>1, <2>2, <2>3, <2>4, FlowGoesOn
    <2>. QED
        BY <2>1, <2>5, HandlerAlone
<1>. QED
    BY <1>2, <1>3, <1>4, <1>5, <1>6, <1>7, <1>8

(* Connections that close, and a shutdown.                                 *)
LEMMA LinksSafe ==
    ASSUME GatewayInv,
           SSH!Watcher \/ SSH!Disconnect \/ SSH!ClientCloses \/ SSH!TargetCloses \/ SSH!Shutdown
    PROVE  GatewayInv'
<1>1. /\ UNCHANGED <<front, cfg, pc, rec, chan, reached, answers, frames>>
      /\ targetUp' \in BOOLEAN /\ clientUp' \in BOOLEAN /\ (targetUp' => targetUp)
    <2>0. clientUp \in BOOLEAN /\ targetUp \in BOOLEAN
        BY DEF GatewayInv, GatewayTypes
    <2>1. CASE SSH!Watcher
        BY <2>0, <2>1 DEF SSH!Watcher, SSH!ghosts, SSH!bounds, SSH!handler
    <2>2. CASE SSH!Disconnect
        BY <2>0, <2>2 DEF SSH!Disconnect, SSH!ghosts, SSH!bounds
    <2>3. CASE SSH!ClientCloses
        BY <2>0, <2>3 DEF SSH!ClientCloses, SSH!ghosts, SSH!bounds, SSH!handler
    <2>4. CASE SSH!TargetCloses
        BY <2>0, <2>4 DEF SSH!TargetCloses, SSH!ghosts, SSH!bounds, SSH!handler
    <2>5. CASE SSH!Shutdown
        BY <2>0, <2>5 DEF SSH!Shutdown, SSH!links, SSH!ghosts, SSH!bounds
    <2>. QED
        BY <2>1, <2>2, <2>3, <2>4, <2>5
<1>2. /\ pc \in Early \cup {"serve"} \cup Late /\ (rec.fatal => ~targetUp)
      /\ front # "ssh" /\ (pc \in Late \ {"closeTarget"} \/ rec.closed) => ~targetUp
    BY DEF GatewayInv, Flow
<1>3. Flow'
    BY <1>1, <1>2, FlowGoesOn
<1>. QED
    BY <1>1, <1>3, HandlerAlone

-----------------------------------------------------------------------------
(* The steps of the proxies.  A queue loses its first frame, all of them   *)
(* or none.                                                                *)
Rest(s, t) == \E k \in 0 .. 1 : \A i \in DOMAIN s : i + k \in DOMAIN t /\ s[i] = t[i + k]

LEMMA RestFacts ==
    ASSUME NEW t \in Seq(Frame)
    PROVE  /\ Rest(t, t) /\ Rest(<<>>, t)
           /\ t # <<>> => /\ Rest(Tail(t), t) /\ Tail(t) \in Seq(Frame) /\ 1 \in DOMAIN t
                          /\ Head(t) = t[1] /\ Head(t) \in Frame
                          /\ \A i \in DOMAIN Tail(t) : i + 1 \in DOMAIN t /\ Tail(t)[i] = t[i + 1] /\ i >= 1
<1>1. Rest(t, t)
    <2>1. \A i \in DOMAIN t : i + 0 \in DOMAIN t /\ t[i] = t[i + 0]
        OBVIOUS
    <2>. QED
        BY <2>1 DEF Rest
<1>2. Rest(<<>>, t)
    BY EmptySeqs DEF Rest
<1>3. ASSUME t # <<>>
      PROVE  /\ Tail(t) \in Seq(Frame) /\ 1 \in DOMAIN t /\ Head(t) = t[1] /\ Head(t) \in Frame
             /\ \A i \in DOMAIN Tail(t) : i + 1 \in DOMAIN t /\ Tail(t)[i] = t[i + 1] /\ i >= 1
    BY <1>3
<1>. QED
    BY <1>1, <1>2, <1>3 DEF Rest

LEMMA TouchedNat ==
    ASSUME GatewayInv
    PROVE  Touched \subseteq Nat
<1>1. rec \in Recorder /\ answers \subseteq Nat
    BY DEF GatewayInv, GatewayTypes
<1>2. rec.clear \subseteq Nat /\ rec.line \in Seq(Nat) /\ rec.current \in Seq(Nat) /\ rec.sink \in Seq(Seq(Nat))
    BY <1>1 DEF Recorder
<1>3. Ids(rec.line) \subseteq Nat /\ Open(rec.current) \subseteq Nat
    BY <1>2 DEF Ids, Open
<1>4. Heads(rec.sink) \subseteq Nat
    <2>1. SUFFICES ASSUME NEW i \in DOMAIN rec.sink PROVE rec.sink[i][1] \in Nat
        BY DEF Heads
    <2>2. rec.sink[i] # <<>> /\ rec.sink[i] \in Seq(Nat)
        BY <1>2, <2>1 DEF GatewayInv, Kept, Distinct
    <2>. QED
        BY <2>2
<1>. QED
    BY <1>1, <1>2, <1>3, <1>4 DEF Touched, Seen

(* Each frame is numbered once also after a step that adds none.           *)
LEMMA FramesFewer ==
    ASSUME GatewayInv, frames' \in Nat, frames <= frames', chan' \in [Channels -> Proxy],
           \A c \in Channels :
              /\ Rest(chan'[c].queue, chan[c].queue)
              /\ chan'[c].todo.id <= frames' /\ chan'[c].hold.id <= frames'
              /\ chan'[c].todo.kind = "exec" => chan'[c].todo = chan[c].todo,
           NEW N \in SUBSET Nat, Touched' \subseteq Touched \cup N,
           \A n \in N : n <= frames',
           \A c \in Channels :
              /\ \A i \in DOMAIN chan'[c].queue : chan'[c].queue[i].id \notin N
              /\ chan'[c].todo.kind = "exec" => chan'[c].todo.id \notin N
    PROVE  FramesApart'
<1>1. \A c \in Channels :
          /\ FramesNumbered(chan[c])
          /\ chan[c].queue \in Seq(Frame) /\ chan'[c].queue \in Seq(Frame)
          /\ \A i \in DOMAIN chan[c].queue : chan[c].queue[i].id \in Nat
    <2>1. SUFFICES ASSUME NEW c \in Channels
                   PROVE  /\ FramesNumbered(chan[c])
                          /\ chan[c].queue \in Seq(Frame) /\ chan'[c].queue \in Seq(Frame)
                          /\ \A i \in DOMAIN chan[c].queue : chan[c].queue[i].id \in Nat
        OBVIOUS
    <2>2. chan[c] \in Proxy /\ chan'[c] \in Proxy /\ FramesNumbered(chan[c])
        BY DEF GatewayInv, GatewayTypes, FramesApart, Numbers
    <2>3. chan[c].queue \in Seq(Frame) /\ chan'[c].queue \in Seq(Frame)
        BY <2>2 DEF Proxy
    <2>4. \A i \in DOMAIN chan[c].queue : chan[c].queue[i] \in Frame
        BY <2>3
    <2>. QED
        BY <2>2, <2>3, <2>4 DEF Frame
<1>2. Touched \subseteq Nat
    BY TouchedNat
<1>3. Numbers'
    <2>1. \A n \in Touched' : n <= frames'
        <3>1. \A n \in Touched : n <= frames /\ n \in Nat
            BY <1>2 DEF GatewayInv, FramesApart, Numbers
        <3>2. \A n \in Touched : n <= frames'
            BY <3>1 DEF GatewayInv, GatewayTypes
        <3>. QED
            BY <3>2
    <2>2. ASSUME NEW c \in Channels PROVE FramesNumbered(chan[c])'
        <3>1. ASSUME NEW i \in DOMAIN chan'[c].queue
              PROVE  chan'[c].queue[i].id <= frames' /\ chan'[c].queue[i].id \notin Touched'
            <4>1. PICK j \in DOMAIN chan[c].queue : chan'[c].queue[i] = chan[c].queue[j]
                BY <3>1 DEF Rest
            <4>2. /\ chan[c].queue[j].id <= frames /\ chan[c].queue[j].id \notin Touched
                  /\ chan[c].queue[j].id \in Nat /\ frames \in Nat
                BY <1>1 DEF FramesNumbered, GatewayInv, GatewayTypes
            <4>3. chan'[c].queue[i].id <= frames'
                BY <4>1, <4>2
            <4>. QED
                BY <3>1, <4>1, <4>2, <4>3
        <3>2. chan'[c].todo.kind = "exec" => chan'[c].todo.id \notin Touched'
            BY <1>1 DEF FramesNumbered
        <3>. QED
            BY <3>1, <3>2 DEF FramesNumbered
    <2>. QED
        BY <2>1, <2>2 DEF Numbers
<1>4. QueuesApart'
    <2>1. SUFFICES ASSUME NEW c \in Channels, NEW d \in Channels, NEW i \in DOMAIN chan'[c].queue
                   PROVE  /\ \A j \in DOMAIN chan'[d].queue :
                                chan'[c].queue[i].id = chan'[d].queue[j].id => c = d /\ i = j
                          /\ chan'[d].todo.kind = "exec" => chan'[d].todo.id # chan'[c].queue[i].id
        BY DEF QueuesApart
    <2>2. PICK k \in 0 .. 1 : \A x \in DOMAIN chan'[c].queue :
                                 x + k \in DOMAIN chan[c].queue /\ chan'[c].queue[x] = chan[c].queue[x + k]
        BY DEF Rest
    <2>3. PICK l \in 0 .. 1 : \A x \in DOMAIN chan'[d].queue :
                                 x + l \in DOMAIN chan[d].queue /\ chan'[d].queue[x] = chan[d].queue[x + l]
        BY DEF Rest
    <2>4. /\ \A x \in DOMAIN chan[c].queue : \A y \in DOMAIN chan[d].queue :
                chan[c].queue[x].id = chan[d].queue[y].id => c = d /\ x = y
          /\ \A x \in DOMAIN chan[c].queue :
                chan[d].todo.kind = "exec" => chan[d].todo.id # chan[c].queue[x].id
        BY DEF GatewayInv, FramesApart, QueuesApart
    <2>5. i \in Nat /\ i + k \in DOMAIN chan[c].queue /\ chan'[c].queue[i] = chan[c].queue[i + k]
        BY <1>1, <2>1, <2>2
    <2>6. ASSUME NEW j \in DOMAIN chan'[d].queue, chan'[c].queue[i].id = chan'[d].queue[j].id
          PROVE  c = d /\ i = j
        <3>1. j \in Nat /\ j + l \in DOMAIN chan[d].queue /\ chan'[d].queue[j] = chan[d].queue[j + l]
            BY <1>1, <2>3, <2>6
        <3>2. c = d /\ i + k = j + l
            BY <2>4, <2>5, <2>6, <3>1
        <3>3. CASE k = l
            BY <2>5, <3>1, <3>2, <3>3
        <3>4. CASE k # l
            (* Both describe the same queue: a frame that is where it was
               and one place further on would be numbered twice.           *)
            <4>1. i + l \in DOMAIN chan[c].queue /\ chan'[c].queue[i] = chan[c].queue[i + l]
                BY <2>1, <2>3, <3>2
            <4>2. i + k = i + l
                BY <2>4, <2>5, <3>2, <4>1
            <4>. QED
                BY <2>5, <3>4, <4>2
        <3>. QED
            BY <3>3, <3>4
    <2>7. chan'[d].todo.kind = "exec" => chan'[d].todo.id # chan'[c].queue[i].id
        BY <2>4, <2>5
    <2>. QED
        BY <2>6, <2>7
<1>5. TodosApart'
    BY DEF GatewayInv, FramesApart, TodosApart
<1>. QED
    BY <1>3, <1>4, <1>5 DEF FramesApart

(* What the target did keeps its trace, or its excuse.                     *)
Excused(f, r) == front = "ssh" /\ (r.closed \/ (r.fatal /\ f.kind \in {"exec", "op"}))

LEMMA FailClosedKept ==
    ASSUME GatewayInv, front' = front, cfg' = cfg, rec.seen \subseteq rec'.seen,
           rec.closed => rec'.closed, rec.fatal => rec'.fatal,
           SSH!Recording => \A f \in reached' :
              f \in reached \/ f \in rec'.seen \/ (\E c \in Channels : chan'[c].todo = f) \/ Excused(f, rec'),
           SSH!Recording => \A c \in Channels : chan[c].todo \in reached =>
              \/ chan'[c].todo = chan[c].todo \/ chan[c].todo \in rec'.seen
              \/ Excused(chan[c].todo, rec')
    PROVE  InputSeen'
<1>1. SUFFICES ASSUME SSH!Recording', NEW f \in SSH!Unseen'
               PROVE  Excused(f, rec')
    BY DEF InputSeen, SSH!SeenFirst, Excused
<1>2. SSH!Recording
    BY <1>1 DEF SSH!Recording
<1>3. f \in reached' /\ f \notin rec'.seen /\ \A c \in Channels : chan'[c].todo # f
    BY <1>1 DEF SSH!Unseen
<1>4. f \in reached \/ Excused(f, rec')
    BY <1>2, <1>3
<1>5. CASE f \in reached
    <2>1. CASE f \in SSH!Unseen
        <3>1. Excused(f, rec)
            BY <1>2, <2>1 DEF GatewayInv, InputSeen, SSH!SeenFirst, Excused
        <3>. QED
            BY <3>1 DEF Excused
    <2>2. CASE f \notin SSH!Unseen
        <3>1. PICK c \in Channels : chan[c].todo = f
            BY <1>3, <1>5, <2>2 DEF SSH!Unseen
        <3>. QED
            BY <1>2, <1>3, <1>5, <3>1
    <2>. QED
        BY <2>1, <2>2
<1>. QED
    BY <1>4, <1>5

(* The handler stands still.                                               *)
LEMMA FlowKept ==
    ASSUME GatewayInv, UNCHANGED <<front, cfg, pc>>, rec'.made = rec.made, rec'.closed = rec.closed,
           rec'.fatal => rec.fatal \/ rec.made, targetUp' => targetUp, rec'.fatal => ~targetUp',
           \A c \in Channels : /\ pc \in Early => chan'[c].state = "none"
                               /\ chan'[c].state # "open" => Unused(chan'[c])
                               /\ chan'[c].state # "none" => rec.made = cfg.enabled
    PROVE  Flow'
<1>1. \A c \in Channels : Started(chan[c])'
    BY DEF Started, Unused
<1>. QED
    BY <1>1 DEF GatewayInv, Flow

LEMMA RecordedFacts ==
    ASSUME GatewayTypes, NEW q, NEW res, SSH!Recorded(q, res)
    PROVE  /\ rec' = q /\ (targetUp' => targetUp) /\ (q.fatal => ~targetUp')
           /\ targetUp' \in BOOLEAN /\ clientUp' \in BOOLEAN
BY DEF SSH!Recorded, SSH!ReportFatal, GatewayTypes

(* What the invariant says of one channel.                                 *)
Sound(p) ==
    /\ p \in Proxy /\ FramesNumbered(p) /\ Answering(p) /\ Fitting(p) /\ Started(p) /\ Traced(p)
LEMMA ChannelSound ==
    ASSUME GatewayInv, NEW c \in Channels
    PROVE  Sound(chan[c])
BY DEF GatewayInv, GatewayTypes, Sound, FramesApart, Numbers, Flow, Effects

(* A step that changes one channel and leaves the recorder alone.          *)
LEMMA OneChannel ==
    ASSUME GatewayInv, UNCHANGED <<front, cfg, pc, rec, clientUp, targetUp, answers>>,
           NEW c \in Channels, NEW p \in Proxy, chan' = [chan EXCEPT ![c] = p],
           frames' \in Nat, frames <= frames', reached' \subseteq Frame,
           FramesApart', InputSeen', Answering(p), Fitting(p),
           PromptKnown(chan[c], rec) => PromptKnown(p, rec),
           pc \in Early => p.state = "none",
           p.state # "open" => Unused(p),
           p.state # "none" => rec.made = cfg.enabled,
           reached \subseteq reached',
           \A f \in reached' \ reached : /\ f.id <= frames' /\ f.kind # "none"
                                         /\ \A d \in Channels : chan'[d].todo # f \/ chan'[d].mode # "none",
           p.mode = "none" => p.todo \notin reached,
           p.hold # SSH!NoFrame => p.hold = chan[c].hold
    PROVE  GatewayInv'
<1>1. chan' \in [Channels -> Proxy] /\ chan'[c] = p /\ \A d \in Channels : d # c => chan'[d] = chan[d]
    BY DEF GatewayInv, GatewayTypes
<1>2. GatewayTypes' /\ Kept(rec)'
    BY <1>1 DEF GatewayInv, GatewayTypes
<1>3. AnswersHidden'
    <2>1. \A d \in Channels : PromptKnown(chan[d], rec) => PromptKnown(chan'[d], rec)
        BY <1>1
    <2>. QED
        BY <2>1 DEF GatewayInv, AnswersHidden, PromptKnown
<1>4. Flow'
    <2>1. \A d \in Channels : /\ pc \in Early => chan'[d].state = "none"
                              /\ chan'[d].state # "open" => Unused(chan'[d])
                              /\ chan'[d].state # "none" => rec.made = cfg.enabled
        <3>1. \A d \in Channels : Started(chan[d])
            BY ChannelSound DEF Sound
        <3>. QED
            BY <1>1, <3>1 DEF Started
    <2>2. rec.fatal => ~targetUp
        BY DEF GatewayInv, Flow
    <2>. QED
        BY <2>1, <2>2, FlowKept
<1>5. Effects'
    <2>1. \A f \in reached' : f.id <= frames' /\ f.kind # "none"
        <3>1. \A f \in reached : f.id <= frames /\ f.kind # "none" /\ f.id \in Nat /\ frames \in Nat
            BY DEF GatewayInv, GatewayTypes, Effects, Frame
        <3>. QED
            BY <3>1
    <2>2. ASSUME NEW d \in Channels PROVE Traced(chan[d])'
        <3>1. Traced(chan[d]) /\ Traced(chan[c])
            BY ChannelSound DEF Sound
        <3>2. chan'[d].mode = "none" => chan'[d].todo \notin reached'
            BY <1>1, <3>1 DEF Traced
        <3>3. SSH!Recording' /\ chan'[d].hold # SSH!NoFrame =>
                 chan'[d].hold \in rec'.seen \/ rec'.closed \/ rec'.fatal
            BY <1>1, <3>1 DEF Traced, SSH!Recording
        <3>. QED
            BY <3>2, <3>3 DEF Traced, SSH!NoFrame
    <2>. QED
        BY <2>1, <2>2 DEF Effects
<1>6. \A d \in Channels : Answering(chan[d])' /\ Fitting(chan[d])'
    <2>1. \A d \in Channels : Answering(chan'[d]) /\ Fitting(chan'[d])
        BY <1>1 DEF GatewayInv
    <2>. QED
        BY <2>1 DEF Answering, Fitting
<1>. QED
    BY <1>2, <1>3, <1>4, <1>5, <1>6 DEF GatewayInv

LEMMA NoFrameFacts ==
    SSH!NoFrame \in Frame /\ SSH!NoFrame.id = 0 /\ SSH!NoFrame.kind = "none" /\ ~SSH!NoFrame.secret
BY DEF SSH!NoFrame, Frame

LEMMA FramesOne ==
    ASSUME GatewayInv, UNCHANGED <<rec, answers>>, frames' \in Nat, frames <= frames',
           NEW c \in Channels, NEW p \in Proxy, chan' = [chan EXCEPT ![c] = p],
           Rest(p.queue, chan[c].queue), p.todo.id <= frames', p.hold.id <= frames',
           p.todo.kind = "exec" => p.todo = chan[c].todo
    PROVE  FramesApart'
<1>1. chan' \in [Channels -> Proxy] /\ chan'[c] = p /\ \A d \in Channels : d # c => chan'[d] = chan[d]
    BY DEF GatewayInv, GatewayTypes
<1>2. Touched' \subseteq Touched \cup {}
    BY DEF Touched
<1>3. ASSUME NEW d \in Channels
      PROVE  /\ Rest(chan'[d].queue, chan[d].queue)
             /\ chan'[d].todo.id <= frames' /\ chan'[d].hold.id <= frames'
             /\ chan'[d].todo.kind = "exec" => chan'[d].todo = chan[d].todo
    <2>1. CASE d = c
        BY <1>1, <2>1
    <2>2. CASE d # c
        <3>1. chan'[d] = chan[d] /\ Sound(chan[d])
            BY <1>1, <2>2, ChannelSound
        <3>2. /\ chan[d].todo.id \in Nat /\ chan[d].hold.id \in Nat /\ frames \in Nat /\ chan[d].queue \in Seq(Frame)
              /\ chan[d].todo.id <= frames /\ chan[d].hold.id <= frames
            BY <3>1 DEF Sound, Proxy, Frame, FramesNumbered, GatewayInv, GatewayTypes
        <3>3. chan[d].todo.id <= frames' /\ chan[d].hold.id <= frames'
            BY <3>2
        <3>. QED
            BY <3>1, <3>2, <3>3, RestFacts
    <2>. QED
        BY <2>1, <2>2
<1>4. {} \in SUBSET Nat
    OBVIOUS
<1>. QED
    BY <1>1, <1>2, <1>3, <1>4, FramesFewer

LEMMA FailClosedOne ==
    ASSUME GatewayInv, UNCHANGED <<front, cfg, rec, reached>>,
           NEW c \in Channels, NEW p, chan' = [chan EXCEPT ![c] = p],
           p.todo = chan[c].todo \/ chan[c].todo \notin reached
    PROVE  InputSeen'
<1>1. \A d \in Channels : chan'[d].todo = chan[d].todo \/ chan[d].todo \notin reached
    BY DEF GatewayInv, GatewayTypes
<1>. QED
    BY <1>1, FailClosedKept

(* A web terminal's one channel is open from the start.                    *)
LEMMA OpenServes ==
    ASSUME GatewayInv, NEW c \in Channels, chan[c].state = "open"
    PROVE  pc \notin Early /\ rec.made = cfg.enabled
BY ChannelSound DEF Sound, Started

LEMMA AcceptSafe ==
    ASSUME GatewayInv, NEW c \in Channels, SSH!AcceptChannel(c)
    PROVE  GatewayInv'
<1>1. /\ UNCHANGED <<front, cfg, pc, rec, clientUp, targetUp, answers, reached, frames>>
      /\ front = "ssh" /\ pc = "serve" /\ chan[c].state = "none"
      /\ chan' = [chan EXCEPT ![c].state = "open"]
    BY DEF SSH!AcceptChannel, SSH!handler, SSH!links, SSH!ghosts, SSH!bounds
<1>2. Sound(chan[c]) /\ chan \in [Channels -> Proxy] /\ frames \in Nat /\ reached \subseteq Frame
    BY ChannelSound DEF GatewayInv, GatewayTypes
<1>3. PICK p : p = [chan[c] EXCEPT !.state = "open"]
    OBVIOUS
<1>4. /\ p \in Proxy /\ p.state = "open" /\ p.mode = chan[c].mode /\ p.queue = chan[c].queue
      /\ p.hold = chan[c].hold /\ p.todo = chan[c].todo /\ p.prompt = chan[c].prompt /\ p.crossed = chan[c].crossed
    BY <1>2, <1>3 DEF Sound, Proxy
<1>5. chan' = [chan EXCEPT ![c] = p]
    BY <1>1, <1>2, <1>3
<1>6. /\ Rest(p.queue, chan[c].queue) /\ p.todo.id <= frames' /\ p.hold.id <= frames'
      /\ frames' \in Nat /\ frames <= frames' /\ reached' = reached
      /\ UNCHANGED <<front, cfg, pc, rec, clientUp, targetUp, answers>>
    BY <1>1, <1>2, <1>4, RestFacts DEF Sound, Proxy, FramesNumbered
<1>7. FramesApart'
    BY <1>4, <1>5, <1>6, FramesOne
<1>8. InputSeen'
    BY <1>1, <1>4, <1>5, FailClosedOne
<1>9. Answering(p) /\ Fitting(p) /\ (PromptKnown(chan[c], rec) => PromptKnown(p, rec))
    BY <1>1, <1>2, <1>4 DEF Sound, Answering, Fitting, PromptKnown
<1>10. pc \notin Early /\ rec.made = cfg.enabled
    BY <1>1 DEF GatewayInv, Flow, Early
<1>11. p.mode = "none" => p.todo \notin reached
    BY <1>2, <1>4 DEF Sound, Traced
<1>. QED
    BY <1>2, <1>4, <1>5, <1>6, <1>7, <1>8, <1>9, <1>10, <1>11, OneChannel

LEMMA CloseChannelSafe ==
    ASSUME GatewayInv, NEW c \in Channels, SSH!CloseChannel(c)
    PROVE  GatewayInv'
<1>1. /\ UNCHANGED <<front, cfg, pc, rec, clientUp, targetUp, answers, reached, frames>>
      /\ chan[c].state = "open" /\ chan[c].todo = SSH!NoFrame
      /\ chan' = [chan EXCEPT ![c] = [SSH!Idle EXCEPT !.state = "over"]]
    BY DEF SSH!CloseChannel, SSH!handler, SSH!links, SSH!ghosts, SSH!bounds
<1>2. Sound(chan[c]) /\ chan \in [Channels -> Proxy] /\ frames \in Nat /\ reached \subseteq Frame
    BY ChannelSound DEF GatewayInv, GatewayTypes
<1>3. PICK p : p = [SSH!Idle EXCEPT !.state = "over"]
    OBVIOUS
<1>4. /\ p \in Proxy /\ p.state = "over" /\ p.mode = "none" /\ p.queue = <<>>
      /\ p.hold = SSH!NoFrame /\ p.todo = SSH!NoFrame /\ p.prompt = "no" /\ ~p.crossed
    BY <1>3, NoFrameFacts, EmptySeqs DEF SSH!Idle, Proxy
<1>5. chan' = [chan EXCEPT ![c] = p]
    BY <1>1, <1>3
<1>6. /\ Rest(p.queue, chan[c].queue) /\ p.todo.id <= frames' /\ p.hold.id <= frames'
      /\ frames' \in Nat /\ frames <= frames' /\ p.todo.kind # "exec" /\ reached' = reached
      /\ UNCHANGED <<front, cfg, pc, rec, clientUp, targetUp, answers>>
    BY <1>1, <1>2, <1>4, RestFacts, NoFrameFacts DEF Sound, Proxy
<1>7. FramesApart'
    BY <1>4, <1>5, <1>6, FramesOne
<1>8. InputSeen'
    BY <1>1, <1>4, <1>5, FailClosedOne
<1>9. Answering(p) /\ Fitting(p) /\ PromptKnown(p, rec) /\ Unused(p)
    BY <1>4, EmptySeqs DEF Answering, Fitting, PromptKnown, Unused
<1>10. pc \notin Early /\ rec.made = cfg.enabled
    BY <1>1, OpenServes
<1>11. p.todo \notin reached
    BY <1>4, NoFrameFacts DEF GatewayInv, Effects
<1>. QED
    BY <1>2, <1>4, <1>5, <1>6, <1>7, <1>8, <1>9, <1>10, <1>11, OneChannel

(* A frame that client or target sends has the next number.                *)
LEMMA FramesNew ==
    ASSUME GatewayInv, UNCHANGED <<rec, answers>>, frames' = frames + 1,
           NEW c \in Channels, NEW p \in Proxy, chan' = [chan EXCEPT ![c] = p],
           NEW f \in Frame, f.id = frames + 1, p.hold = chan[c].hold,
           \/ p.queue = Append(chan[c].queue, f) /\ p.todo = chan[c].todo
           \/ p.queue = chan[c].queue /\ p.todo = f
    PROVE  FramesApart'
<1>1. chan' \in [Channels -> Proxy] /\ chan'[c] = p /\ \A d \in Channels : d # c => chan'[d] = chan[d]
    BY DEF GatewayInv, GatewayTypes
<1>2. frames \in Nat
    BY DEF GatewayInv, GatewayTypes
<1>3. Touched' = Touched /\ \A n \in Touched : n <= frames
    BY DEF Touched, GatewayInv, FramesApart, Numbers
<1>4. frames + 1 \notin Touched /\ \A n \in Touched : n <= frames'
    <2>1. ~(frames + 1 <= frames)
        BY <1>2
    <2>2. Touched \subseteq Nat
        BY TouchedNat
    <2>3. \A n \in Nat : n <= frames => n <= frames'
        BY <1>2
    <2>. QED
        BY <1>3, <2>1, <2>2, <2>3
<1>5. ASSUME NEW d \in Channels
      PROVE  /\ chan[d].queue \in Seq(Frame) /\ chan'[d].queue \in Seq(Frame)
             /\ chan[d].todo \in Frame /\ chan[d].todo.id \in 0 .. frames /\ chan[d].hold.id \in 0 .. frames
             /\ \A i \in DOMAIN chan[d].queue : /\ chan[d].queue[i].id \in 0 .. frames
                                                /\ chan[d].queue[i].id \notin Touched
             /\ chan[d].todo.kind = "exec" => chan[d].todo.id \notin Touched
    <2>1. Sound(chan[d]) /\ chan'[d] \in Proxy
        BY <1>1, ChannelSound
    <2>2. /\ chan[d].queue \in Seq(Frame) /\ chan'[d].queue \in Seq(Frame) /\ chan[d].todo \in Frame
          /\ chan[d].hold \in Frame
        BY <2>1 DEF Sound, Proxy
    <2>3. \A i \in DOMAIN chan[d].queue : chan[d].queue[i] \in Frame
        BY <2>2
    <2>4. /\ chan[d].todo.id <= frames /\ chan[d].hold.id <= frames
          /\ \A i \in DOMAIN chan[d].queue : /\ chan[d].queue[i].id <= frames
                                             /\ chan[d].queue[i].id \notin Touched
          /\ chan[d].todo.kind = "exec" => chan[d].todo.id \notin Touched
        BY <2>1 DEF Sound, FramesNumbered
    <2>5. /\ chan[d].todo.id \in Nat /\ chan[d].hold.id \in Nat
          /\ \A i \in DOMAIN chan[d].queue : chan[d].queue[i].id \in Nat
        BY <2>2, <2>3 DEF Frame
    <2>. QED
        BY <1>2, <2>2, <2>4, <2>5
<1>6. ASSUME NEW d \in Channels, NEW i \in DOMAIN chan'[d].queue
      PROVE  \/ i \in DOMAIN chan[d].queue /\ chan'[d].queue[i] = chan[d].queue[i]
             \/ /\ d = c /\ i = Len(chan[c].queue) + 1 /\ chan'[d].queue[i] = f /\ p.todo = chan[c].todo
    <2>1. CASE d # c
        BY <1>1, <1>6, <2>1
    <2>2. CASE d = c /\ p.queue = chan[c].queue
        BY <1>1, <1>6, <2>2
    <2>3. CASE d = c /\ p.queue = Append(chan[c].queue, f) /\ p.todo = chan[c].todo
        <3>1. chan'[d].queue = Append(chan[c].queue, f) /\ chan[c].queue \in Seq(Frame)
            BY <1>1, <1>5, <2>3
        <3>2. i \in DOMAIN chan[c].queue \/ i = Len(chan[c].queue) + 1
            BY <1>6, <3>1
        <3>3. CASE i \in DOMAIN chan[c].queue
            BY <2>3, <3>1, <3>3
        <3>4. CASE i = Len(chan[c].queue) + 1
            BY <2>3, <3>1, <3>4
        <3>. QED
            BY <3>2, <3>3, <3>4
    <2>. QED
        BY <2>1, <2>2, <2>3
<1>7. ASSUME NEW d \in Channels
      PROVE  \/ chan'[d].todo = chan[d].todo
             \/ d = c /\ chan'[d].todo = f /\ chan'[c].queue = chan[c].queue
    BY <1>1
<1>8. Numbers'
    <2>1. ASSUME NEW d \in Channels PROVE FramesNumbered(chan[d])'
        <3>1. chan'[d].todo.id <= frames' /\ chan'[d].hold.id <= frames'
            BY <1>1, <1>2, <1>5, <1>7
        <3>2. \A i \in DOMAIN chan'[d].queue : chan'[d].queue[i].id <= frames' /\ chan'[d].queue[i].id \notin Touched'
            BY <1>2, <1>3, <1>4, <1>5, <1>6
        <3>3. chan'[d].todo.kind = "exec" => chan'[d].todo.id \notin Touched'
            BY <1>3, <1>4, <1>5, <1>7
        <3>. QED
            BY <3>1, <3>2, <3>3 DEF FramesNumbered
    <2>. QED
        BY <1>3, <1>4, <2>1 DEF Numbers
<1>9. QueuesApart'
    <2>1. SUFFICES ASSUME NEW d \in Channels, NEW e \in Channels, NEW i \in DOMAIN chan'[d].queue
                   PROVE  /\ \A j \in DOMAIN chan'[e].queue :
                                chan'[d].queue[i].id = chan'[e].queue[j].id => d = e /\ i = j
                          /\ chan'[e].todo.kind = "exec" => chan'[e].todo.id # chan'[d].queue[i].id
        BY DEF QueuesApart
    <2>2. /\ \A x \in DOMAIN chan[d].queue : \A y \in DOMAIN chan[e].queue :
                chan[d].queue[x].id = chan[e].queue[y].id => d = e /\ x = y
          /\ \A x \in DOMAIN chan[d].queue :
                chan[e].todo.kind = "exec" => chan[e].todo.id # chan[d].queue[x].id
        BY DEF GatewayInv, FramesApart, QueuesApart
    <2>3. \A m \in 0 .. frames : m # frames + 1
        BY <1>2
    <2>4. ASSUME NEW j \in DOMAIN chan'[e].queue, chan'[d].queue[i].id = chan'[e].queue[j].id
          PROVE  d = e /\ i = j
        <3>1. /\ \/ i \in DOMAIN chan[d].queue /\ chan'[d].queue[i] = chan[d].queue[i]
                 \/ d = c /\ i = Len(chan[c].queue) + 1 /\ chan'[d].queue[i] = f
              /\ \/ j \in DOMAIN chan[e].queue /\ chan'[e].queue[j] = chan[e].queue[j]
                 \/ e = c /\ j = Len(chan[c].queue) + 1 /\ chan'[e].queue[j] = f
            BY <1>6, <2>1, <2>4
        <3>2. CASE i \in DOMAIN chan[d].queue /\ chan'[d].queue[i] = chan[d].queue[i]
            <4>1. chan[d].queue[i].id # frames + 1
                BY <1>5, <2>3, <3>2
            <4>. QED
                BY <2>2, <2>4, <3>1, <3>2, <4>1
        <3>3. CASE d = c /\ i = Len(chan[c].queue) + 1 /\ chan'[d].queue[i] = f
            <4>1. ~(j \in DOMAIN chan[e].queue /\ chan'[e].queue[j] = chan[e].queue[j])
                BY <1>5, <2>3, <2>4, <3>3
            <4>. QED
                BY <3>1, <3>3, <4>1
        <3>. QED
            BY <3>1, <3>2, <3>3
    <2>5. chan'[e].todo.kind = "exec" => chan'[e].todo.id # chan'[d].queue[i].id
        <3>1. CASE chan'[e].todo = chan[e].todo
            BY <1>5, <1>6, <2>2, <2>3, <3>1
        <3>2. CASE e = c /\ chan'[e].todo = f /\ chan'[c].queue = chan[c].queue
            <4>1. chan'[d].queue = chan[d].queue
                BY <1>1, <3>2
            <4>. QED
                BY <1>5, <2>3, <3>2, <4>1
        <3>. QED
            BY <1>7, <3>1, <3>2
    <2>. QED
        BY <2>4, <2>5
<1>10. TodosApart'
    <2>1. SUFFICES ASSUME NEW d \in Channels, NEW e \in Channels, chan'[d].todo.kind = "exec",
                          chan'[e].todo.kind = "exec", chan'[d].todo.id = chan'[e].todo.id
                   PROVE  d = e
        BY DEF TodosApart
    <2>2. \A m \in 0 .. frames : m # frames + 1
        BY <1>2
    <2>3. chan[d].todo.kind = "exec" /\ chan[e].todo.kind = "exec" /\ chan[d].todo.id = chan[e].todo.id => d = e
        BY DEF GatewayInv, FramesApart, TodosApart
    <2>. QED
        BY <1>5, <1>7, <2>1, <2>2, <2>3
<1>. QED
    BY <1>8, <1>9, <1>10 DEF FramesApart

LEMMA WriteTargetSafe ==
    ASSUME GatewayInv, NEW c \in Channels, SSH!WriteTarget(c)
    PROVE  GatewayInv'
<1>1. /\ UNCHANGED <<front, cfg, pc, rec, clientUp, targetUp, answers, frames>>
      /\ chan[c].hold # SSH!NoFrame
      /\ reached' = IF targetUp /\ chan[c].state = "open" THEN reached \cup {chan[c].hold} ELSE reached
    BY DEF SSH!WriteTarget, SSH!handler, SSH!links, SSH!ghosts, SSH!bounds
<1>2. Sound(chan[c]) /\ chan \in [Channels -> Proxy] /\ frames \in Nat /\ reached \subseteq Frame
    BY ChannelSound DEF GatewayInv, GatewayTypes
<1>3. PICK s \in Seq(Frame) : s = (IF targetUp THEN chan[c].queue ELSE <<>>) /\ Rest(s, chan[c].queue)
    BY <1>2, EmptySeqs, RestFacts DEF Sound, Proxy
<1>4. PICK p : p = [chan[c] EXCEPT !.hold = SSH!NoFrame, !.queue = s]
    OBVIOUS
<1>5. /\ p \in Proxy /\ p.state = chan[c].state /\ p.mode = chan[c].mode /\ p.queue = s
      /\ p.hold = SSH!NoFrame /\ p.todo = chan[c].todo /\ p.prompt = chan[c].prompt /\ p.crossed = chan[c].crossed
    BY <1>2, <1>4, NoFrameFacts DEF Sound, Proxy
<1>6. chan' = [chan EXCEPT ![c] = p]
    BY <1>2, <1>3, <1>4 DEF SSH!WriteTarget
<1>7. chan[c].state = "open" /\ chan[c].hold \in Frame /\ chan[c].hold.id <= frames
      /\ chan[c].hold.kind \in {"line", "part", "enter"}
    BY <1>1, <1>2 DEF Sound, Started, Unused, Proxy, FramesNumbered, Fitting
<1>8. /\ Rest(p.queue, chan[c].queue) /\ p.todo.id <= frames' /\ p.hold.id <= frames'
      /\ frames' \in Nat /\ frames <= frames' /\ reached \subseteq reached' /\ reached' \subseteq Frame
      /\ UNCHANGED <<front, cfg, pc, rec, clientUp, targetUp, answers>>
    BY <1>1, <1>2, <1>3, <1>5, <1>7, NoFrameFacts DEF Sound, Proxy, FramesNumbered
<1>9. FramesApart'
    BY <1>5, <1>6, <1>8, FramesOne
<1>10. InputSeen'
    <2>1. SSH!Recording => \A f \in reached' : f \in reached \/ f \in rec'.seen \/ Excused(f, rec')
        <3>1. SUFFICES ASSUME SSH!Recording, targetUp
                       PROVE  chan[c].hold \in rec.seen \/ Excused(chan[c].hold, rec)
            BY <1>1
        <3>2. chan[c].hold \in rec.seen \/ rec.closed \/ rec.fatal
            BY <1>1, <1>2, <3>1 DEF Sound, Traced
        <3>3. ~rec.fatal /\ (front # "ssh" => ~rec.closed)
            BY <3>1 DEF GatewayInv, Flow
        <3>. QED
            BY <3>2, <3>3 DEF Excused
    <2>2. \A d \in Channels : chan'[d].todo = chan[d].todo
        BY <1>2, <1>5, <1>6
    <2>. QED
        BY <1>8, <2>1, <2>2, FailClosedKept
<1>11. Answering(p) /\ Fitting(p) /\ (PromptKnown(chan[c], rec) => PromptKnown(p, rec))
    <2>1. s = chan[c].queue \/ DOMAIN s = {}
        BY <1>3, EmptySeqs
    <2>2. CASE s = chan[c].queue
        BY <1>2, <1>5, <2>2 DEF Sound, Answering, Fitting, PromptKnown
    <2>3. CASE s = <<>>
        BY <1>2, <1>5, <2>3, EmptySeqs DEF Sound, Answering, Fitting, PromptKnown
    <2>. QED
        BY <1>3, <2>2, <2>3
<1>12. pc \notin Early /\ rec.made = cfg.enabled
    BY <1>7, OpenServes
<1>13. p.mode = "none" => p.todo \notin reached
    BY <1>2, <1>5 DEF Sound, Traced
<1>14. \A f \in reached' \ reached : /\ f.id <= frames' /\ f.kind # "none"
                                     /\ \A d \in Channels : chan'[d].todo # f \/ chan'[d].mode # "none"
    <2>1. ASSUME NEW d \in Channels PROVE chan[d].todo # chan[c].hold
        <3>1. chan[d].todo = SSH!NoFrame \/ chan[d].todo.kind \in {"exec", "op"}
            BY ChannelSound DEF Sound, Fitting
        <3>. QED
            BY <1>7, <3>1, NoFrameFacts
    <2>2. \A d \in Channels : chan'[d].todo = chan[d].todo
        BY <1>2, <1>5, <1>6
    <2>. QED
        BY <1>1, <1>7, <2>1, <2>2
<1>. QED
    BY <1>5, <1>6, <1>7, <1>8, <1>9, <1>10, <1>11, <1>12, <1>13, <1>14, OneChannel

LEMMA FileOperationSafe ==
    ASSUME GatewayInv, NEW c \in Channels, SSH!FileOperation(c)
    PROVE  GatewayInv'
<1>1. /\ UNCHANGED <<front, cfg, pc, rec, clientUp, targetUp, answers, frames>>
      /\ chan[c].mode = "sftp" /\ chan[c].state = "open"
      /\ chan[c].queue # <<>> /\ chan[c].todo = SSH!NoFrame
    BY DEF SSH!FileOperation, SSH!handler, SSH!links, SSH!ghosts, SSH!bounds
<1>2. Sound(chan[c]) /\ chan \in [Channels -> Proxy] /\ frames \in Nat /\ reached \subseteq Frame
    BY ChannelSound DEF GatewayInv, GatewayTypes
<1>3. PICK f \in Frame : f = Head(chan[c].queue) /\ f = chan[c].queue[1] /\ 1 \in DOMAIN chan[c].queue
    BY <1>1, <1>2, RestFacts DEF Sound, Proxy
<1>4. PICK result :
          /\ reached' = IF result = "ok" THEN reached \cup {f} ELSE reached
          /\ chan' = [chan EXCEPT ![c].todo = IF result = "end" THEN @ ELSE f,
                         ![c].queue = IF result = "timeout" THEN <<>> ELSE Tail(@)]
    BY <1>3 DEF SSH!FileOperation
<1>5. PICK s \in Seq(Frame) : s = (IF result = "timeout" THEN <<>> ELSE Tail(chan[c].queue))
                              /\ Rest(s, chan[c].queue)
    BY <1>1, <1>2, EmptySeqs, RestFacts DEF Sound, Proxy
<1>6. PICK g \in Frame : g = IF result = "end" THEN chan[c].todo ELSE f
    BY <1>2 DEF Sound, Proxy
<1>7. PICK p : p = [chan[c] EXCEPT !.todo = g, !.queue = s]
    OBVIOUS
<1>8. /\ p \in Proxy /\ p.state = chan[c].state /\ p.mode = chan[c].mode /\ p.queue = s
      /\ p.hold = chan[c].hold /\ p.todo = g /\ p.prompt = chan[c].prompt /\ p.crossed = chan[c].crossed
    BY <1>2, <1>7 DEF Sound, Proxy
<1>9. chan' = [chan EXCEPT ![c] = p]
    BY <1>2, <1>4, <1>5, <1>6, <1>7
<1>10. f.kind = "op" /\ f.id <= frames /\ front = "ssh"
    BY <1>1, <1>2, <1>3 DEF Sound, Fitting, FramesNumbered
<1>11. (g = f \/ g = SSH!NoFrame) /\ g.id <= frames /\ g.kind # "exec"
    BY <1>1, <1>2, <1>6, <1>10, NoFrameFacts
<1>12. /\ Rest(p.queue, chan[c].queue) /\ p.todo.id <= frames' /\ p.hold.id <= frames'
       /\ frames' \in Nat /\ frames <= frames' /\ reached \subseteq reached' /\ reached' \subseteq Frame
       /\ UNCHANGED <<front, cfg, pc, rec, clientUp, targetUp, answers>>
    BY <1>1, <1>2, <1>4, <1>5, <1>8, <1>11 DEF Sound, Proxy, FramesNumbered
<1>13. FramesApart'
    BY <1>8, <1>9, <1>11, <1>12, FramesOne
<1>14. SSH!NoFrame \notin reached
    BY NoFrameFacts DEF GatewayInv, Effects
<1>15. InputSeen'
    <2>1. chan'[c].todo = g /\ \A d \in Channels : d # c => chan'[d].todo = chan[d].todo
        BY <1>2, <1>8, <1>9
    <2>2. \A h \in reached' : h \in reached \/ (\E d \in Channels : chan'[d].todo = h)
        BY <1>4, <1>6, <2>1
    <2>3. \A d \in Channels : chan[d].todo \in reached => chan'[d].todo = chan[d].todo
        BY <1>1, <1>14, <2>1
    <2>. QED
        BY <1>12, <2>2, <2>3, FailClosedKept
<1>16. Answering(p) /\ Fitting(p) /\ (PromptKnown(chan[c], rec) => PromptKnown(p, rec))
    <2>1. PromptKnown(chan[c], rec) => PromptKnown(p, rec)
        BY <1>8 DEF PromptKnown
    <2>2. PICK k \in 0 .. 1 : \A i \in DOMAIN s : i + k \in DOMAIN chan[c].queue /\ s[i] = chan[c].queue[i + k]
        BY <1>5 DEF Rest
    <2>3. Answering(chan[c]) /\ Fitting(chan[c])
        BY <1>2 DEF Sound
    <2>4. Answering(p)
        <3>1. \A i, j \in DOMAIN s : j > i => j + k > i + k
            BY <1>5
        <3>. QED
            BY <1>8, <2>2, <2>3, <3>1 DEF Answering
    <2>5. Fitting(p)
        BY <1>1, <1>8, <1>10, <1>11, <2>2, <2>3, NoFrameFacts DEF Fitting
    <2>. QED
        BY <2>1, <2>4, <2>5
<1>17. pc \notin Early /\ rec.made = cfg.enabled
    BY <1>1, OpenServes
<1>18. \A h \in reached' \ reached : /\ h.id <= frames' /\ h.kind # "none"
                                     /\ \A d \in Channels : chan'[d].todo # h \/ chan'[d].mode # "none"
    <2>1. ASSUME NEW d \in Channels, chan[d].mode = "none" PROVE chan[d].todo # f
        <3>1. Fitting(chan[d])
            BY ChannelSound DEF Sound
        <3>. QED
            BY <1>10, <2>1, <3>1, NoFrameFacts DEF Fitting
    <2>2. chan'[c].mode = "sftp" /\ \A d \in Channels : d # c => chan'[d] = chan[d]
        BY <1>1, <1>2, <1>8, <1>9
    <2>. QED
        BY <1>1, <1>4, <1>10, <2>1, <2>2
<1>. QED
    BY <1>1, <1>8, <1>9, <1>12, <1>13, <1>15, <1>16, <1>17, <1>18, OneChannel

LEMMA ClientSendsSafe ==
    ASSUME GatewayInv, NEW c \in Channels, NEW kind \in {"line", "part", "enter", "op"}, SSH!ClientSends(c, kind)
    PROVE  GatewayInv'
<1>1. /\ UNCHANGED <<front, cfg, pc, rec, clientUp, targetUp, answers, reached>>
      /\ chan[c].state = "open" /\ frames' = frames + 1
      /\ IF kind = "op" THEN chan[c].mode = "sftp" ELSE chan[c].mode \in {"shell", "exec"}
    BY DEF SSH!ClientSends, SSH!Copied, SSH!handler, SSH!links, SSH!ghosts
<1>2. Sound(chan[c]) /\ chan \in [Channels -> Proxy] /\ frames \in Nat /\ reached \subseteq Frame
    BY ChannelSound DEF GatewayInv, GatewayTypes
<1>3. PICK hidden \in BOOLEAN :
          /\ hidden = (/\ chan[c].prompt = "asked"
                       /\ ~\E i \in DOMAIN chan[c].queue : chan[c].queue[i].secret /\ chan[c].queue[i].kind # "part")
    OBVIOUS
<1>4. PICK f : f = [id |-> frames + 1, kind |-> kind, secret |-> hidden]
    OBVIOUS
<1>5. f \in Frame /\ f.id = frames + 1 /\ f.kind = kind /\ f.secret = hidden
    <2>1. frames + 1 \in Nat
        BY <1>2
    <2>. QED
        BY <1>4, <2>1 DEF Frame
<1>6. chan[c].queue \in Seq(Frame)
    BY <1>2 DEF Sound, Proxy
<1>7. PICK s \in Seq(Frame) : s = Append(chan[c].queue, f)
    <2>1. Append(chan[c].queue, f) \in Seq(Frame)
        BY <1>5, <1>6
    <2>. QED
        BY <2>1, Zenon
<1>8. /\ DOMAIN s = DOMAIN chan[c].queue \cup {Len(chan[c].queue) + 1}
      /\ \A i \in DOMAIN chan[c].queue : s[i] = chan[c].queue[i] /\ i < Len(chan[c].queue) + 1
      /\ s[Len(chan[c].queue) + 1] = f
    BY <1>5, <1>6, <1>7
<1>9. PICK p : p = [chan[c] EXCEPT !.queue = s]
    OBVIOUS
<1>10. /\ p \in Proxy /\ p.state = chan[c].state /\ p.mode = chan[c].mode /\ p.queue = s
       /\ p.hold = chan[c].hold /\ p.todo = chan[c].todo /\ p.prompt = chan[c].prompt /\ p.crossed = chan[c].crossed
    BY <1>2, <1>9 DEF Sound, Proxy
<1>11. chan' = [chan EXCEPT ![c] = p]
    <2>1. chan' = [chan EXCEPT ![c].queue = Append(@, f)]
        BY <1>3, <1>4 DEF SSH!ClientSends
    <2>. QED
        BY <1>2, <1>7, <1>9, <2>1
<1>12. FramesApart'
    BY <1>1, <1>5, <1>7, <1>10, <1>11, FramesNew
<1>13. InputSeen'
    BY <1>1, <1>10, <1>11, FailClosedOne
<1>14. Answering(p)
    <2>0. Answering(chan[c])
        BY <1>2 DEF Sound
    <2>1. PICK m : m = Len(chan[c].queue) + 1
        OBVIOUS
    <2>2. SUFFICES ASSUME NEW i \in DOMAIN s, s[i].secret
                   PROVE  /\ chan[c].prompt = "asked"
                          /\ s[i].kind # "part" => \A j \in DOMAIN s : j > i => ~s[j].secret
        BY <1>10 DEF Answering
    <2>3. CASE i \in DOMAIN chan[c].queue
        <3>1. ASSUME s[i].kind # "part", NEW j \in DOMAIN s, j > i PROVE ~s[j].secret
            <4>1. CASE j \in DOMAIN chan[c].queue
                BY <1>8, <2>0, <2>2, <2>3, <3>1, <4>1 DEF Answering
            <4>2. CASE j = m
                <5>1. ~hidden
                    BY <1>3, <1>8, <2>2, <2>3, <3>1
                <5>. QED
                    BY <1>5, <1>8, <2>1, <4>2, <5>1
            <4>. QED
                BY <1>8, <2>1, <3>1, <4>1, <4>2
        <3>. QED
            BY <1>8, <2>0, <2>2, <2>3, <3>1 DEF Answering
    <2>4. CASE i = m
        <3>1. s[i] = f /\ chan[c].prompt = "asked"
            BY <1>3, <1>5, <1>8, <2>1, <2>2, <2>4
        <3>2. \A j \in DOMAIN s : ~(j > i)
            BY <1>6, <1>8, <2>1, <2>4
        <3>. QED
            BY <3>1, <3>2
    <2>. QED
        BY <1>8, <2>1, <2>2, <2>3, <2>4
<1>15. Fitting(p) /\ (PromptKnown(chan[c], rec) => PromptKnown(p, rec))
    <2>1. Fitting(chan[c])
        BY <1>2 DEF Sound
    <2>2. \A i \in DOMAIN s : IF p.mode = "sftp" THEN s[i].kind = "op" ELSE s[i].kind \in {"line", "part", "enter"}
        BY <1>1, <1>5, <1>8, <1>10, <2>1 DEF Fitting
    <2>. QED
        BY <1>1, <1>10, <2>1, <2>2 DEF Fitting, PromptKnown
<1>16. pc \notin Early /\ rec.made = cfg.enabled
    BY <1>1, OpenServes
<1>17. p.mode # "none" /\ p.state = "open" /\ frames' \in Nat /\ frames <= frames' /\ reached' = reached
    BY <1>1, <1>2, <1>10
<1>. QED
    BY <1>1, <1>2, <1>10, <1>11, <1>12, <1>13, <1>14, <1>15, <1>16, <1>17, OneChannel

LEMMA ExecSafe ==
    ASSUME GatewayInv, NEW c \in Channels, SSH!Exec(c)
    PROVE  GatewayInv'
<1>1. /\ UNCHANGED <<front, cfg, pc, rec, clientUp, targetUp, answers>>
      /\ chan[c].mode = "none" /\ chan[c].state = "open"
      /\ frames' = frames + 1
    BY DEF SSH!Exec, SSH!ForwardRequest, SSH!handler, SSH!links
<1>2. Sound(chan[c]) /\ chan \in [Channels -> Proxy] /\ frames \in Nat /\ reached \subseteq Frame
    BY ChannelSound DEF GatewayInv, GatewayTypes
<1>3. PICK f : f = [id |-> frames + 1, kind |-> "exec", secret |-> FALSE]
    OBVIOUS
<1>4. f \in Frame /\ f.id = frames + 1 /\ f.kind = "exec"
    <2>1. frames + 1 \in Nat
        BY <1>2
    <2>. QED
        BY <1>3, <2>1 DEF Frame
<1>5. PICK runs \in BOOLEAN :
          /\ reached' = IF runs THEN reached \cup {f} ELSE reached
          /\ chan' = [chan EXCEPT ![c].mode = IF runs THEN "exec" ELSE "none", ![c].todo = f]
    BY <1>3 DEF SSH!Exec
<1>6. PICK m \in {"exec", "none"} : m = IF runs THEN "exec" ELSE "none"
    OBVIOUS
<1>7. PICK p : p = [chan[c] EXCEPT !.mode = m, !.todo = f]
    OBVIOUS
<1>8. /\ p \in Proxy /\ p.state = chan[c].state /\ p.mode = m /\ p.queue = chan[c].queue
      /\ p.hold = chan[c].hold /\ p.todo = f /\ p.prompt = chan[c].prompt /\ p.crossed = chan[c].crossed
    BY <1>2, <1>4, <1>7 DEF Sound, Proxy
<1>9. chan' = [chan EXCEPT ![c] = p]
    BY <1>2, <1>5, <1>6, <1>7
<1>10. FramesApart'
    BY <1>1, <1>4, <1>8, <1>9, FramesNew
<1>11. f \notin reached /\ \A d \in Channels : chan[d].todo # f
    <2>1. \A n \in Nat : n <= frames => n # frames + 1
        BY <1>2
    <2>2. \A g \in reached : g.id <= frames /\ g.id \in Nat
        BY <1>2 DEF GatewayInv, Effects, Frame
    <2>3. \A d \in Channels : chan[d].todo.id <= frames /\ chan[d].todo.id \in Nat
        <3>1. \A d \in Channels : chan[d].todo \in Frame /\ chan[d].todo.id <= frames
            BY ChannelSound DEF Sound, Proxy, FramesNumbered
        <3>. QED
            BY <3>1 DEF Frame
    <2>. QED
        BY <1>4, <2>1, <2>2, <2>3
<1>12. chan'[c].todo = f /\ chan'[c].mode = m /\ \A d \in Channels : d # c => chan'[d] = chan[d]
    BY <1>2, <1>8, <1>9
<1>13. InputSeen'
    <2>1. \A h \in reached' : h \in reached \/ (\E d \in Channels : chan'[d].todo = h)
        BY <1>5, <1>12
    <2>2. chan[c].todo \notin reached
        BY <1>1, <1>2 DEF Sound, Traced
    <2>3. \A d \in Channels : chan[d].todo \in reached => chan'[d].todo = chan[d].todo
        BY <1>12, <2>2
    <2>. QED
        BY <1>1, <2>1, <2>3, FailClosedKept
<1>14. chan[c].queue = <<>>
    BY <1>1, <1>2 DEF Sound, Fitting
<1>15. front = "ssh"
    BY <1>1, <1>2 DEF Sound, Fitting
<1>16. Answering(p) /\ Fitting(p) /\ (PromptKnown(chan[c], rec) => PromptKnown(p, rec))
    <2>1. Fitting(chan[c])
        BY <1>2 DEF Sound
    <2>. QED
        BY <1>4, <1>8, <1>14, <1>15, <2>1, EmptySeqs DEF Answering, Fitting, PromptKnown
<1>17. pc \notin Early /\ rec.made = cfg.enabled
    BY <1>1, OpenServes
<1>18. /\ p.state = "open" /\ frames' \in Nat /\ frames <= frames'
       /\ reached \subseteq reached' /\ reached' \subseteq Frame
    BY <1>1, <1>2, <1>4, <1>5, <1>8
<1>19. \A h \in reached' \ reached : /\ h.id <= frames' /\ h.kind # "none"
                                     /\ \A d \in Channels : chan'[d].todo # h \/ chan'[d].mode # "none"
    <2>1. \A h \in reached' \ reached : h = f /\ m = "exec"
        BY <1>5, <1>6
    <2>2. f.id <= frames'
        BY <1>1, <1>2, <1>4
    <2>. QED
        BY <1>4, <1>11, <1>12, <2>1, <2>2
<1>. QED
    BY <1>1, <1>8, <1>9, <1>10, <1>11, <1>13, <1>16, <1>17, <1>18, <1>19, OneChannel

(* A step that changes one channel and leaves everything else alone but    *)
(* for a failure of the recorder.                                          *)
LEMMA StartModeSafe ==
    ASSUME GatewayInv, NEW c \in Channels, NEW mode \in {"shell", "sftp"}, SSH!StartMode(c, mode)
    PROVE  GatewayInv'
<1>1. /\ UNCHANGED <<front, cfg, pc, answers, reached, frames>>
      /\ chan[c].mode = "none" /\ chan[c].state = "open"
      /\ chan' = [chan EXCEPT ![c].mode = mode]
    BY DEF SSH!StartMode, SSH!ForwardRequest, SSH!handler, SSH!ghosts
<1>2. /\ Sound(chan[c]) /\ chan \in [Channels -> Proxy] /\ frames \in Nat /\ reached \subseteq Frame
      /\ rec \in Recorder /\ Kept(rec)
    BY ChannelSound DEF GatewayInv, GatewayTypes
<1>3. PICK p : p = [chan[c] EXCEPT !.mode = mode]
    OBVIOUS
<1>4. /\ p \in Proxy /\ p.state = chan[c].state /\ p.mode = mode /\ p.queue = chan[c].queue
      /\ p.hold = chan[c].hold /\ p.todo = chan[c].todo /\ p.prompt = chan[c].prompt /\ p.crossed = chan[c].crossed
    BY <1>2, <1>3 DEF Sound, Proxy
<1>5. /\ chan' \in [Channels -> Proxy] /\ chan'[c] = p
      /\ \A d \in Channels : d # c => chan'[d] = chan[d]
    BY <1>1, <1>2, <1>3, <1>4
<1>6. chan[c].queue = <<>>
    BY <1>1, <1>2 DEF Sound, Fitting
<1>7. front = "ssh"
    BY <1>1, <1>2 DEF Sound, Fitting
<1>8. Answering(p) /\ Fitting(p) /\ p.hold = chan[c].hold
    <2>1. Fitting(chan[c])
        BY <1>2 DEF Sound
    <2>. QED
        BY <1>1, <1>4, <1>6, <1>7, <2>1, EmptySeqs DEF Answering, Fitting
<1>9. /\ Beside(rec', rec) /\ rec'.tail = rec.tail /\ rec'.seen = rec.seen
      /\ (rec'.fatal => rec.fatal \/ rec.made)
      /\ (targetUp' => targetUp) /\ (rec'.fatal => ~targetUp')
      /\ targetUp' \in BOOLEAN /\ clientUp' \in BOOLEAN
    <2>1. CASE mode = "sftp"
        <3>1. PICK res : SSH!Recorded(SSH!SetProtocolSubtype(rec, res), res)
            BY <2>1 DEF SSH!StartMode
        <3>2. PICK q : q = SSH!SetProtocolSubtype(rec, res)
            OBVIOUS
        <3>3. Beside(q, rec) /\ q.tail = rec.tail /\ q.seen = rec.seen /\ (q.fatal => rec.fatal \/ rec.made)
            BY <1>2, <3>2, SubtypeFacts
        <3>4. /\ rec' = q /\ (targetUp' => targetUp) /\ (q.fatal => ~targetUp')
              /\ targetUp' \in BOOLEAN /\ clientUp' \in BOOLEAN
            BY <3>1, <3>2, RecordedFacts DEF GatewayInv
        <3>. QED
            BY <3>3, <3>4
    <2>2. CASE mode # "sftp"
        <3>1. UNCHANGED <<rec, clientUp, targetUp>>
            BY <2>2 DEF SSH!StartMode, SSH!links
        <3>2. clientUp \in BOOLEAN /\ targetUp \in BOOLEAN /\ (rec.fatal => ~targetUp)
            BY DEF GatewayInv, GatewayTypes, Flow
        <3>3. Beside(rec, rec)
            BY <1>2 DEF Beside, Advances, SameLife
        <3>. QED
            BY <3>1, <3>2, <3>3
    <2>. QED
        BY <2>1, <2>2
<1>10. /\ rec' \in Recorder /\ Kept(rec') /\ rec'.made = rec.made /\ rec'.closed = rec.closed
       /\ (rec.fatal => rec'.fatal) /\ Seen(rec') = Seen(rec) /\ rec'.clear = rec.clear /\ rec'.line = rec.line
       /\ (rec.hide => rec'.hide) /\ (rec.sensitive => rec'.sensitive)
    BY <1>9 DEF Beside, Advances, SameLife
<1>11. GatewayTypes' /\ Kept(rec)'
    BY <1>1, <1>2, <1>5, <1>9, <1>10 DEF GatewayInv, GatewayTypes
<1>12. Touched' \subseteq Touched \cup {}
    BY <1>1, <1>10 DEF Touched
<1>13. FramesApart'
    <2>1. ASSUME NEW d \in Channels
          PROVE  /\ Rest(chan'[d].queue, chan[d].queue)
                 /\ chan'[d].todo = chan[d].todo /\ chan'[d].todo.id <= frames' /\ chan'[d].hold.id <= frames'
        <3>1. chan'[d].queue = chan[d].queue /\ chan'[d].todo = chan[d].todo /\ chan'[d].hold = chan[d].hold
            BY <1>4, <1>5
        <3>2. chan[d].queue \in Seq(Frame) /\ chan[d].todo.id <= frames /\ chan[d].hold.id <= frames
            BY ChannelSound DEF Sound, Proxy, FramesNumbered
        <3>. QED
            BY <1>1, <3>1, <3>2, RestFacts
    <2>2. frames' \in Nat /\ frames <= frames' /\ {} \in SUBSET Nat
        BY <1>1, <1>2
    <2>. QED
        BY <1>5, <1>12, <2>1, <2>2, FramesFewer
<1>14. AnswersHidden'
    <2>1. \A d \in Channels : chan'[d].prompt = chan[d].prompt /\ chan'[d].crossed = chan[d].crossed
        BY <1>4, <1>5
    <2>2. ASSUME NEW d \in Channels, PromptKnown(chan[d], rec) PROVE PromptKnown(chan[d], rec)'
        BY <1>9, <1>10, <2>1, <2>2 DEF PromptKnown
    <2>. QED
        BY <1>1, <1>10, <2>2 DEF GatewayInv, AnswersHidden
<1>15. Flow'
    <2>1. \A d \in Channels : Started(chan[d])
        BY ChannelSound DEF Sound
    <2>2. pc \notin Early /\ rec.made = cfg.enabled
        BY <1>1, OpenServes
    <2>3. \A d \in Channels : /\ pc \in Early => chan'[d].state = "none"
                              /\ chan'[d].state # "open" => Unused(chan'[d])
                              /\ chan'[d].state # "none" => rec.made = cfg.enabled
        BY <1>1, <1>4, <1>5, <2>1, <2>2 DEF Started
    <2>. QED
        BY <1>1, <1>9, <1>10, <2>3, FlowKept
<1>16. InputSeen'
    <2>1. \A d \in Channels : chan'[d].todo = chan[d].todo
        BY <1>4, <1>5
    <2>. QED
        BY <1>1, <1>9, <1>10, <2>1, FailClosedKept
<1>17. Effects'
    <2>1. ASSUME NEW d \in Channels PROVE Traced(chan[d])'
        <3>1. Traced(chan[d])
            BY ChannelSound DEF Sound
        <3>2. /\ chan'[d].todo = chan[d].todo /\ chan'[d].hold = chan[d].hold
              /\ chan'[d].mode = "none" => chan[d].mode = "none"
            BY <1>4, <1>5
        <3>. QED
            BY <1>1, <1>9, <1>10, <3>1, <3>2 DEF Traced, SSH!Recording, SSH!NoFrame
    <2>. QED
        BY <1>1, <2>1 DEF GatewayInv, Effects
<1>18. \A d \in Channels : Answering(chan[d])' /\ Fitting(chan[d])'
    <2>1. \A d \in Channels : Answering(chan'[d]) /\ Fitting(chan'[d])
        BY <1>5, <1>8 DEF GatewayInv
    <2>. QED
        BY <1>1, <2>1 DEF Answering, Fitting
<1>. QED
    BY <1>11, <1>13, <1>14, <1>15, <1>16, <1>17, <1>18 DEF GatewayInv

-----------------------------------------------------------------------------
(* The handler's steps that touch the recorder or open a channel.          *)
LEMMA NewRecorderSafe ==
    ASSUME GatewayInv, SSH!NewSessionRecorder
    PROVE  GatewayInv'
<1>1. /\ UNCHANGED <<front, cfg, chan, reached, answers, frames, clientUp, targetUp>> /\ pc = "record"
      /\ \/ SSH!Leave /\ UNCHANGED rec
         \/ pc' = "register" /\ rec' = [rec EXCEPT !.made = cfg.enabled]
    BY DEF SSH!NewSessionRecorder, SSH!Try, SSH!Leave, SSH!links, SSH!ghosts, SSH!bounds
<1>2. /\ rec \in Recorder /\ Kept(rec) /\ cfg \in Options /\ frames \in Nat
      /\ clientUp \in BOOLEAN /\ targetUp \in BOOLEAN
    BY DEF GatewayInv, GatewayTypes
<1>3. CASE SSH!Leave /\ UNCHANGED rec
    BY <1>1, <1>2, <1>3, LeaveSafe, HandlerAlone
<1>4. CASE pc' = "register" /\ rec' = [rec EXCEPT !.made = cfg.enabled]
    <2>1. /\ rec' \in Recorder /\ SameCommands(rec', rec) /\ rec'.made = cfg.enabled /\ rec'.closed = rec.closed
          /\ rec'.fatal = rec.fatal /\ rec'.seen = rec.seen /\ rec'.clear = rec.clear
          /\ rec'.sensitive = rec.sensitive
        BY <1>2, <1>4 DEF Recorder, Options, SameCommands
    <2>2. ~rec.fatal /\ ~rec.closed
        BY <1>1 DEF GatewayInv, Flow, Early, Ready
    <2>3. Kept(rec') /\ Seen(rec') = Seen(rec)
        BY <1>2, <2>1, CommandsAlone
    <2>4. \A c \in Channels : chan[c].state = "none" /\ Unused(chan[c])
        <3>1. \A c \in Channels : Started(chan[c])
            BY ChannelSound DEF Sound
        <3>. QED
            BY <1>1, <3>1 DEF Started, Early
    <2>5. GatewayTypes' /\ Kept(rec)'
        BY <1>1, <2>1, <2>3 DEF GatewayInv, GatewayTypes
    <2>6. FramesApart'
        <3>1. Touched' = Touched
            BY <1>1, <2>1, <2>3 DEF Touched
        <3>. QED
            BY <1>1, <3>1 DEF GatewayInv, FramesApart, Numbers, FramesNumbered, QueuesApart, TodosApart
    <2>7. AnswersHidden'
        <3>1. \A c \in Channels : PromptKnown(chan[c], rec)'
            BY <1>1, <2>4 DEF PromptKnown, Unused
        <3>. QED
            BY <1>1, <2>1, <3>1 DEF GatewayInv, AnswersHidden, SameCommands
    <2>8. Flow'
        <3>1. \A c \in Channels : Started(chan[c])'
            BY <1>1, <2>4 DEF Started, Unused
        <3>. QED
            BY <1>1, <1>4, <2>1, <2>2, <3>1 DEF Flow, Early, Ready, Late
    <2>9. InputSeen'
        BY <1>1, <2>1, FailClosedKept
    <2>10. Effects'
        <3>1. \A c \in Channels : Traced(chan[c])'
            <4>1. \A c \in Channels : Traced(chan[c])
                BY ChannelSound DEF Sound
            <4>. QED
                BY <1>1, <2>1, <4>1 DEF Traced, SSH!Recording, SSH!NoFrame
        <3>. QED
            BY <1>1, <3>1 DEF GatewayInv, Effects
    <2>11. \A c \in Channels : Answering(chan[c])' /\ Fitting(chan[c])'
        BY <1>1 DEF GatewayInv, Answering, Fitting
    <2>. QED
        BY <2>5, <2>6, <2>7, <2>8, <2>9, <2>10, <2>11 DEF GatewayInv
<1>. QED
    BY <1>1, <1>3, <1>4

LEMMA CloseRecorderSafe ==
    ASSUME GatewayInv, SSH!CloseRecorder
    PROVE  GatewayInv'
<1>1. /\ UNCHANGED <<front, cfg, chan, reached, answers, frames>> /\ pc = "closeRecorder"
      /\ pc' = SSH!AfterStep(pc)
    BY DEF SSH!CloseRecorder, SSH!ghosts
<1>2. rec \in Recorder /\ Kept(rec) /\ frames \in Nat
    BY DEF GatewayInv, GatewayTypes
<1>3. PICK res : SSH!Recorded(SSH!Close(rec, res), res)
    BY DEF SSH!CloseRecorder
<1>4. PICK q : q = SSH!Close(rec, res)
    OBVIOUS
<1>5. /\ rec' = q /\ (targetUp' => targetUp) /\ (q.fatal => ~targetUp')
      /\ targetUp' \in BOOLEAN /\ clientUp' \in BOOLEAN
    BY <1>3, <1>4, RecordedFacts DEF GatewayInv
<1>6. /\ q \in Recorder /\ Kept(q) /\ q.made = rec.made /\ (rec.fatal => q.fatal)
      /\ (q.fatal => rec.fatal \/ rec.made)
      /\ (q.closed <=> rec.closed \/ rec.made) /\ q.seen = rec.seen /\ q.clear = rec.clear
      /\ Seen(q) \subseteq Seen(rec) /\ q.line = rec.line
      /\ ~q.closed => q.sensitive = rec.sensitive
    BY <1>2, <1>4, CloseFacts
<1>7. GatewayTypes' /\ Kept(rec)'
    BY <1>1, <1>5, <1>6 DEF GatewayInv, GatewayTypes
<1>8. FramesApart'
    <2>1. Touched' \subseteq Touched \cup {} /\ {} \in SUBSET Nat
        BY <1>1, <1>5, <1>6 DEF Touched
    <2>2. frames' \in Nat /\ frames <= frames' /\ chan' \in [Channels -> Proxy]
        BY <1>1, <1>2 DEF GatewayInv, GatewayTypes
    <2>3. \A c \in Channels : /\ Rest(chan'[c].queue, chan[c].queue) /\ chan'[c].todo = chan[c].todo
                              /\ chan'[c].todo.id <= frames' /\ chan'[c].hold.id <= frames'
        BY <1>1, ChannelSound, RestFacts DEF Sound, Proxy, FramesNumbered
    <2>. QED
        BY <2>1, <2>2, <2>3, FramesFewer
<1>9. AnswersHidden'
    <2>1. ~(rec'.made /\ ~rec'.closed)
        BY <1>5, <1>6
    <2>2. cfg.redact => /\ ~rec.closed /\ Ids(rec.line) \cap answers # {} => rec.sensitive
                        /\ answers \cap rec.clear = {}
        BY DEF GatewayInv, AnswersHidden
    <2>3. cfg.redact => /\ ~rec'.closed /\ Ids(rec'.line) \cap answers' # {} => rec'.sensitive
                        /\ answers' \cap rec'.clear = {}
        BY <1>1, <1>5, <1>6, <2>2, EmptySeqs
    <2>. QED
        BY <1>1, <2>1, <2>3 DEF AnswersHidden
<1>10. Flow'
    <2>1. pc' \in Late /\ pc' \notin Early /\ pc' # "serve"
        BY <1>1, TeardownGoesOn DEF Late, Early
    <2>2. \A c \in Channels : Started(chan[c])'
        <3>1. \A c \in Channels : Started(chan[c])
            BY ChannelSound DEF Sound
        <3>. QED
            BY <1>1, <1>5, <1>6, <2>1, <3>1 DEF Started, Unused
    <2>3. front # "ssh" => ~targetUp'
        BY <1>1, <1>5 DEF GatewayInv, Flow, Late
    <2>. QED
        BY <1>1, <1>5, <1>6, <2>1, <2>2, <2>3 DEF GatewayInv, Flow, Early, Ready
<1>11. InputSeen'
    BY <1>1, <1>5, <1>6, FailClosedKept
<1>12. Effects'
    <2>1. \A c \in Channels : Traced(chan[c])'
        <3>1. \A c \in Channels : Traced(chan[c])
            BY ChannelSound DEF Sound
        <3>. QED
            BY <1>1, <1>5, <1>6, <3>1 DEF Traced, SSH!Recording, SSH!NoFrame
    <2>. QED
        BY <1>1, <2>1 DEF GatewayInv, Effects
<1>13. \A c \in Channels : Answering(chan[c])' /\ Fitting(chan[c])'
    BY <1>1 DEF GatewayInv, Answering, Fitting
<1>. QED
    BY <1>7, <1>8, <1>9, <1>10, <1>11, <1>12, <1>13 DEF GatewayInv

LEMMA RegisterSafe ==
    ASSUME GatewayInv, SSH!Register
    PROVE  GatewayInv'
<1>1. /\ UNCHANGED <<front, cfg, rec, chan, reached, answers, frames, clientUp, targetUp>>
      /\ pc = "register" /\ pc' \in {"shell", "serve"}
    BY DEF SSH!Register, SSH!links, SSH!ghosts, SSH!bounds
<1>2. /\ clientUp \in BOOLEAN /\ targetUp \in BOOLEAN
      /\ rec.fatal => ~targetUp
      /\ front # "ssh" /\ rec.closed => ~targetUp
    BY DEF GatewayInv, GatewayTypes, Flow
<1>3. Flow'
    <2>1. pc' \notin Early \ Ready /\ pc' \notin Late /\ pc' \in Early \cup {"serve"} \cup Late
          /\ pc \in Early /\ pc \in Ready
        BY <1>1 DEF Early, Ready, Late
    <2>. QED
        BY <1>1, <1>2, <2>1, FlowGoesOn
<1>. QED
    BY <1>1, <1>2, <1>3, HandlerAlone

LEMMA WebTerminalSafe ==
    ASSUME GatewayInv, SSH!ServeWebTerminal
    PROVE  GatewayInv'
<1>1. /\ UNCHANGED <<front, cfg, rec, reached, answers, frames, clientUp, targetUp>> /\ pc = "shell"
    BY DEF SSH!ServeWebTerminal, SSH!links, SSH!ghosts, SSH!bounds
<1>2. /\ clientUp \in BOOLEAN /\ targetUp \in BOOLEAN /\ chan \in [Channels -> Proxy] /\ frames \in Nat
      /\ rec.fatal => ~targetUp
      /\ front # "ssh" /\ rec.closed => ~targetUp
      /\ rec.made = cfg.enabled
    BY <1>1 DEF GatewayInv, GatewayTypes, Flow, Ready
<1>3. CASE SSH!Leave /\ UNCHANGED chan
    BY <1>1, <1>2, <1>3, LeaveSafe, HandlerAlone
<1>5. ASSUME pc' = "serve", targetUp, NEW c \in Channels,
             chan' = [chan EXCEPT ![c].state = "open", ![c].mode = "shell"]
      PROVE  GatewayInv'
    <2>1. \A d \in Channels : Sound(chan[d]) /\ chan[d].state = "none" /\ Unused(chan[d])
        <3>1. \A d \in Channels : Sound(chan[d])
            BY ChannelSound
        <3>. QED
            BY <1>1, <3>1 DEF Sound, Started, Early
    <2>2. PICK p : p = [chan[c] EXCEPT !.state = "open", !.mode = "shell"]
        OBVIOUS
    <2>3. /\ p \in Proxy /\ p.state = "open" /\ p.mode = "shell" /\ p.queue = chan[c].queue
          /\ p.hold = chan[c].hold /\ p.todo = chan[c].todo /\ p.prompt = chan[c].prompt
          /\ p.crossed = chan[c].crossed
        BY <2>1, <2>2 DEF Sound, Proxy
    <2>4. chan' = [chan EXCEPT ![c] = p]
        BY <1>2, <1>5, <2>2
    <2>5. /\ chan' \in [Channels -> Proxy] /\ chan'[c] = p /\ \A d \in Channels : d # c => chan'[d] = chan[d]
        BY <1>2, <2>3, <2>4
    <2>6. GatewayTypes' /\ Kept(rec)'
        BY <1>1, <2>5 DEF GatewayInv, GatewayTypes
    <2>7. FramesApart'
        <3>1. /\ UNCHANGED <<rec, answers>> /\ frames' \in Nat /\ frames <= frames'
              /\ Rest(p.queue, chan[c].queue) /\ p.todo.id <= frames' /\ p.hold.id <= frames'
            BY <1>1, <1>2, <2>1, <2>3, RestFacts DEF Sound, Proxy, FramesNumbered
        <3>. QED
            BY <2>3, <2>4, <3>1, FramesOne
    <2>8. AnswersHidden'
        <3>1. \A d \in Channels : PromptKnown(chan[d], rec)'
            BY <2>1, <2>3, <2>5 DEF PromptKnown, Unused
        <3>. QED
            BY <1>1, <3>1 DEF GatewayInv, AnswersHidden
    <2>9. Flow'
        <3>1. ~rec.fatal /\ (front # "ssh" => ~rec.closed) /\ pc' \notin Early /\ pc' \notin Late
            BY <1>2, <1>5 DEF Early, Late
        <3>2. \A d \in Channels : Started(chan[d])'
            BY <1>1, <1>2, <2>1, <2>3, <2>5, <3>1 DEF Started, Unused
        <3>. QED
            BY <1>1, <1>2, <1>5, <3>1, <3>2 DEF GatewayInv, Flow, Early, Ready
    <2>10. InputSeen'
        BY <1>1, <2>3, <2>4, FailClosedOne
    <2>11. Effects'
        <3>1. ASSUME NEW d \in Channels PROVE Traced(chan[d])'
            <4>1. Traced(chan[d]) /\ Unused(chan[d])
                BY <2>1 DEF Sound
            <4>2. /\ chan'[d].hold = chan[d].hold /\ chan'[d].todo = chan[d].todo
                  /\ chan'[d].mode = "none" => chan[d].mode = "none"
                BY <2>3, <2>5
            <4>. QED
                BY <1>1, <4>1, <4>2 DEF Traced, SSH!Recording, SSH!NoFrame
        <3>. QED
            BY <1>1, <3>1 DEF GatewayInv, Effects
    <2>12. \A d \in Channels : Answering(chan[d])' /\ Fitting(chan[d])'
        <3>1. Answering(p) /\ Fitting(p)
            BY <2>1, <2>3, EmptySeqs DEF Answering, Fitting, Unused
        <3>2. \A d \in Channels : Answering(chan'[d]) /\ Fitting(chan'[d])
            BY <2>5, <3>1 DEF GatewayInv
        <3>. QED
            BY <1>1, <3>2 DEF Answering, Fitting
    <2>. QED
        BY <2>6, <2>7, <2>8, <2>9, <2>10, <2>11, <2>12 DEF GatewayInv
<1>6. \/ SSH!Leave /\ UNCHANGED chan
      \/ /\ pc' = "serve" /\ targetUp
         /\ \E c \in Channels : chan' = [chan EXCEPT ![c].state = "open", ![c].mode = "shell"]
    BY DEF SSH!ServeWebTerminal
<1>. QED
    BY <1>3, <1>5, <1>6

-----------------------------------------------------------------------------
(* The steps of a proxy that record something.                             *)
LEMMA RecordingStep ==
    ASSUME GatewayInv, UNCHANGED <<front, cfg, pc, reached>>, frames' \in Nat, frames <= frames',
           answers' \subseteq Nat, chan' \in [Channels -> Proxy],
           Advances(rec', rec), ~(rec.made /\ ~rec.closed) => rec' = rec,
           targetUp' => targetUp, rec'.fatal => ~targetUp', targetUp' \in BOOLEAN, clientUp' \in BOOLEAN,
           FramesApart', AnswersHidden', InputSeen',
           \A c \in Channels :
              /\ Answering(chan'[c]) /\ Fitting(chan'[c])
              /\ chan'[c].state = chan[c].state /\ chan'[c].mode = chan[c].mode
              /\ chan'[c].state # "open" => Unused(chan'[c])
              /\ chan'[c].todo = chan[c].todo \/ chan'[c].todo = SSH!NoFrame
              /\ \/ chan'[c].hold = chan[c].hold
                 \/ SSH!Recording => chan'[c].hold \in rec'.seen \/ rec'.closed \/ rec'.fatal
    PROVE  GatewayInv'
<1>1. /\ rec' \in Recorder /\ Kept(rec') /\ rec'.made = rec.made /\ rec'.closed = rec.closed
      /\ (rec.fatal => rec'.fatal) /\ rec.seen \subseteq rec'.seen
    BY DEF Advances, SameLife
<1>2. GatewayTypes' /\ Kept(rec)'
    BY <1>1 DEF GatewayInv, GatewayTypes
<1>3. Flow'
    <2>1. \A c \in Channels : Started(chan[c])
        BY ChannelSound DEF Sound
    <2>2. \A c \in Channels : /\ pc \in Early => chan'[c].state = "none"
                              /\ chan'[c].state # "open" => Unused(chan'[c])
                              /\ chan'[c].state # "none" => rec.made = cfg.enabled
        BY <2>1 DEF Started
    <2>. QED
        BY <1>1, <2>2, FlowKept
<1>4. Effects'
    <2>1. ASSUME NEW c \in Channels PROVE Traced(chan[c])'
        <3>1. Traced(chan[c])
            BY ChannelSound DEF Sound
        <3>2. SSH!NoFrame \notin reached
            BY NoFrameFacts DEF GatewayInv, Effects
        <3>3. chan'[c].mode = "none" => chan'[c].todo \notin reached'
            BY <3>1, <3>2 DEF Traced
        <3>4. SSH!Recording' /\ chan'[c].hold # SSH!NoFrame =>
                 chan'[c].hold \in rec'.seen \/ rec'.closed \/ rec'.fatal
            BY <1>1, <3>1 DEF Traced, SSH!Recording
        <3>. QED
            BY <3>3, <3>4 DEF Traced, SSH!NoFrame
    <2>2. \A f \in reached : f.id <= frames /\ f.kind # "none" /\ f.id \in Nat /\ frames \in Nat
        BY DEF GatewayInv, GatewayTypes, Effects, Frame
    <2>3. \A f \in reached' : f.id <= frames' /\ f.kind # "none"
        BY <2>2
    <2>. QED
        BY <2>1, <2>3 DEF Effects
<1>5. \A c \in Channels : Answering(chan[c])' /\ Fitting(chan[c])'
    BY DEF Answering, Fitting
<1>. QED
    BY <1>2, <1>3, <1>4, <1>5 DEF GatewayInv

LEMMA RecordTodoSafe ==
    ASSUME GatewayInv, NEW c \in Channels, SSH!RecordTodo(c)
    PROVE  GatewayInv'
<1>1. /\ UNCHANGED <<front, cfg, pc, answers, reached, frames>> /\ chan[c].todo # SSH!NoFrame
      /\ chan' = [chan EXCEPT ![c].todo = SSH!NoFrame]
    BY DEF SSH!RecordTodo, SSH!handler, SSH!ghosts
<1>2. /\ \A d \in Channels : Sound(chan[d])
      /\ chan \in [Channels -> Proxy] /\ frames \in Nat /\ rec \in Recorder /\ Kept(rec) /\ answers \subseteq Nat
    BY ChannelSound DEF GatewayInv, GatewayTypes
<1>3. PICK f \in Frame : f = chan[c].todo
    BY <1>2 DEF Sound, Proxy
<1>4. /\ f.id \in Nat /\ f.id <= frames /\ f.kind \in {"exec", "op"} /\ front = "ssh"
      /\ chan[c].state = "open"
      /\ f.kind = "exec" => f.id \notin Seen(rec)
    BY <1>1, <1>2, <1>3 DEF Sound, Frame, FramesNumbered, Fitting, Started, Unused, Touched
<1>5. PICK res : SSH!Recorded(IF f.kind = "exec" THEN SSH!RecordCommand(rec, f, res)
                              ELSE SSH!RecordFileEvent(rec, f, res), res)
    BY <1>3 DEF SSH!RecordTodo
<1>6. PICK q : q = IF f.kind = "exec" THEN SSH!RecordCommand(rec, f, res)
                   ELSE SSH!RecordFileEvent(rec, f, res)
    OBVIOUS
<1>7. /\ rec' = q /\ (targetUp' => targetUp) /\ (q.fatal => ~targetUp')
      /\ targetUp' \in BOOLEAN /\ clientUp' \in BOOLEAN
    BY <1>5, <1>6, RecordedFacts DEF GatewayInv
<1>8. /\ Advances(q, rec) /\ q.tail = rec.tail /\ (rec.hide => q.hide) /\ (rec.sensitive => q.sensitive)
      /\ q.line = rec.line /\ q.clear = rec.clear
      /\ Seen(q) \subseteq Seen(rec) \cup (IF f.kind = "exec" THEN {f.id} ELSE {})
      /\ rec.made /\ ~rec.closed /\ cfg.commands => f \in q.seen \/ q.fatal
      /\ ~(rec.made /\ ~rec.closed) => q = rec
    <2>1. CASE f.kind = "exec"
        BY <1>2, <1>4, <1>6, <2>1, CommandFacts
    <2>2. CASE f.kind # "exec"
        <3>1. /\ Beside(q, rec) /\ q.tail = rec.tail
              /\ rec.made /\ ~rec.closed => f \in q.seen \/ q.fatal
              /\ ~(rec.made /\ ~rec.closed) => q = rec
            BY <1>2, <1>6, <2>2, FileEventFacts
        <3>. QED
            BY <2>2, <3>1 DEF Beside
    <2>. QED
        BY <2>1, <2>2
<1>9. PICK p : p = [chan[c] EXCEPT !.todo = SSH!NoFrame]
    OBVIOUS
<1>10. /\ p \in Proxy /\ p.state = chan[c].state /\ p.mode = chan[c].mode /\ p.queue = chan[c].queue
       /\ p.hold = chan[c].hold /\ p.todo = SSH!NoFrame /\ p.prompt = chan[c].prompt /\ p.crossed = chan[c].crossed
    BY <1>2, <1>9, NoFrameFacts DEF Sound, Proxy
<1>11. /\ chan' \in [Channels -> Proxy] /\ chan'[c] = p
       /\ \A d \in Channels : d # c => chan'[d] = chan[d]
    BY <1>1, <1>2, <1>9, <1>10
<1>12. PICK N \in SUBSET Nat : N = IF f.kind = "exec" THEN {f.id} ELSE {}
    BY <1>4
<1>13. FramesApart'
    <2>1. Touched' \subseteq Touched \cup N /\ \A n \in N : n <= frames'
        BY <1>1, <1>4, <1>7, <1>8, <1>12 DEF Touched
    <2>2. frames' \in Nat /\ frames <= frames'
        BY <1>1, <1>2
    <2>3. ASSUME NEW d \in Channels
          PROVE  /\ Rest(chan'[d].queue, chan[d].queue)
                 /\ chan'[d].todo.id <= frames' /\ chan'[d].hold.id <= frames'
                 /\ chan'[d].todo.kind = "exec" => chan'[d].todo = chan[d].todo /\ d # c
        <3>1. /\ chan[d].queue \in Seq(Frame) /\ chan[d].todo.id <= frames /\ chan[d].hold.id <= frames
            BY <1>2 DEF Sound, Proxy, FramesNumbered
        <3>2. chan'[d].queue = chan[d].queue /\ chan'[d].hold = chan[d].hold
              /\ IF d = c THEN chan'[d].todo = SSH!NoFrame ELSE chan'[d].todo = chan[d].todo
            BY <1>10, <1>11
        <3>. QED
            BY <1>1, <1>2, <3>1, <3>2, RestFacts, NoFrameFacts
    <2>4. ASSUME NEW d \in Channels
          PROVE  /\ \A i \in DOMAIN chan'[d].queue : chan'[d].queue[i].id \notin N
                 /\ chan'[d].todo.kind = "exec" => chan'[d].todo.id \notin N
        <3>1. chan'[d].queue = chan[d].queue
            BY <1>10, <1>11
        <3>2. \A i \in DOMAIN chan[d].queue : f.kind = "exec" => f.id # chan[d].queue[i].id
            BY <1>3 DEF GatewayInv, FramesApart, QueuesApart
        <3>3. d # c /\ chan[d].todo.kind = "exec" /\ f.kind = "exec" => chan[d].todo.id # f.id
            BY <1>3 DEF GatewayInv, FramesApart, TodosApart
        <3>. QED
            BY <1>12, <2>3, <3>1, <3>2, <3>3
    <2>. QED
        BY <1>11, <2>1, <2>2, <2>3, <2>4, FramesFewer
<1>14. AnswersHidden'
    <2>1. \A d \in Channels : chan'[d].prompt = chan[d].prompt /\ chan'[d].crossed = chan[d].crossed
        BY <1>10, <1>11
    <2>2. ASSUME NEW d \in Channels, PromptKnown(chan[d], rec) PROVE PromptKnown(chan[d], rec)'
        BY <1>7, <1>8, <2>1, <2>2 DEF PromptKnown
    <2>3. rec'.made = rec.made /\ rec'.closed = rec.closed
        BY <1>7, <1>8 DEF Advances, SameLife
    <2>. QED
        BY <1>1, <1>7, <1>8, <2>2, <2>3 DEF GatewayInv, AnswersHidden
<1>15. InputSeen'
    <2>1. /\ rec.seen \subseteq rec'.seen /\ rec'.closed = rec.closed /\ (rec.fatal => rec'.fatal)
        BY <1>7, <1>8 DEF Advances, SameLife
    <2>2. SSH!Recording => f \in rec'.seen \/ Excused(f, rec')
        <3>1. SSH!Recording => rec.made /\ cfg.commands
            BY <1>4, OpenServes DEF SSH!Recording
        <3>. QED
            BY <1>4, <1>7, <1>8, <2>1, <3>1 DEF Excused
    <2>3. \A d \in Channels : chan'[d].todo = chan[d].todo \/ chan[d].todo = f
        BY <1>3, <1>11
    <2>. QED
        BY <1>1, <2>1, <2>2, <2>3, FailClosedKept
<1>16. ASSUME NEW d \in Channels
       PROVE  /\ Answering(chan'[d]) /\ Fitting(chan'[d])
              /\ chan'[d].state = chan[d].state /\ chan'[d].mode = chan[d].mode
              /\ chan'[d].state # "open" => Unused(chan'[d])
              /\ chan'[d].todo = chan[d].todo \/ chan'[d].todo = SSH!NoFrame
              /\ chan'[d].hold = chan[d].hold
    <2>1. Answering(chan[d]) /\ Fitting(chan[d]) /\ (chan[d].state # "open" => Unused(chan[d]))
        BY <1>2 DEF Sound, Started
    <2>2. CASE d # c
        BY <1>11, <2>1, <2>2
    <2>3. CASE d = c
        BY <1>4, <1>10, <1>11, <2>1, <2>3 DEF Answering, Fitting
    <2>. QED
        BY <2>2, <2>3
<1>17. frames' \in Nat /\ frames <= frames' /\ answers' \subseteq Nat
    BY <1>1, <1>2
<1>. QED
    BY <1>1, <1>7, <1>8, <1>11, <1>13, <1>14, <1>15, <1>16, <1>17, RecordingStep

LEMMA TakeInputSafe ==
    ASSUME GatewayInv, NEW c \in Channels, SSH!TakeInput(c)
    PROVE  GatewayInv'
<1>1. /\ UNCHANGED <<front, cfg, pc, reached, frames>>
      /\ chan[c].mode \in {"shell", "exec"} /\ chan[c].state = "open"
      /\ chan[c].queue # <<>> /\ chan[c].hold = SSH!NoFrame
    BY DEF SSH!TakeInput, SSH!Copied, SSH!handler
<1>2. /\ \A d \in Channels : Sound(chan[d])
      /\ chan \in [Channels -> Proxy] /\ frames \in Nat /\ rec \in Recorder /\ Kept(rec) /\ answers \subseteq Nat
    BY ChannelSound DEF GatewayInv, GatewayTypes
<1>3. chan[c].queue \in Seq(Frame)
    BY <1>2 DEF Sound, Proxy
<1>4. PICK f \in Frame : f = Head(chan[c].queue) /\ f = chan[c].queue[1] /\ 1 \in DOMAIN chan[c].queue
    BY <1>1, <1>3, RestFacts
<1>5. PICK s \in Seq(Frame) :
          /\ s = Tail(chan[c].queue) /\ Rest(s, chan[c].queue)
          /\ \A i \in DOMAIN s : i + 1 \in DOMAIN chan[c].queue /\ s[i] = chan[c].queue[i + 1] /\ i >= 1
    BY <1>1, <1>3, RestFacts
<1>6. /\ f.id \in Nat /\ f.id <= frames /\ f.id \notin Touched /\ f.id \notin Seen(rec)
      /\ f.kind \in {"line", "part", "enter"}
    BY <1>1, <1>2, <1>4 DEF Sound, Frame, FramesNumbered, Fitting, Touched
<1>7. PICK res : SSH!Recorded(SSH!RecordInput(rec, f, res), res)
    BY <1>4 DEF SSH!TakeInput
<1>8. PICK q : q = SSH!RecordInput(rec, f, res)
    OBVIOUS
<1>9. /\ rec' = q /\ (targetUp' => targetUp) /\ (q.fatal => ~targetUp')
      /\ targetUp' \in BOOLEAN /\ clientUp' \in BOOLEAN
    BY <1>7, <1>8, RecordedFacts DEF GatewayInv
<1>10. /\ Advances(q, rec) /\ q.tail = rec.tail
       /\ Seen(q) \subseteq Seen(rec) \cup {f.id}
       /\ Ids(q.line) \subseteq Ids(rec.line) \cup {f.id}
       /\ q.line = <<>> \/ (rec.sensitive => q.sensitive)
       /\ f.kind = "part" /\ rec.sensitive => q.sensitive
       /\ f.kind = "part" /\ cfg.redact /\ rec.hide => q.hide
       /\ rec.sensitive => q.clear \subseteq rec.clear \cup {f.id}
       /\ q.clear \subseteq rec.clear \cup Ids(rec.line) \cup {f.id}
       /\ cfg.redact /\ rec.hide /\ rec.sensitive => q.clear = rec.clear
       /\ rec.made /\ ~rec.closed /\ cfg.commands => f \in q.seen \/ q.fatal
       /\ ~(rec.made /\ ~rec.closed) => q = rec
    BY <1>2, <1>6, <1>8, InputFacts
<1>11. rec'.made = rec.made /\ rec'.closed = rec.closed /\ (rec.fatal => rec'.fatal) /\ rec.seen \subseteq rec'.seen
    BY <1>9, <1>10 DEF Advances, SameLife
<1>12. answers' = IF f.secret /\ ~chan[c].crossed THEN answers \cup {f.id} ELSE answers
    BY <1>4 DEF SSH!TakeInput
<1>13. /\ chan' \in [Channels -> Proxy]
       /\ \A d \in Channels :
             /\ chan'[d].state = chan[d].state /\ chan'[d].mode = chan[d].mode /\ chan'[d].todo = chan[d].todo
             /\ d # c => chan'[d].queue = chan[d].queue /\ chan'[d].hold = chan[d].hold
                         /\ chan'[d].prompt = chan[d].prompt
             /\ chan'[d].crossed = (chan[d].crossed \/ (chan[d].prompt = "asked" /\ ~(d = c /\ f.secret)))
       /\ chan'[c].queue = s /\ chan'[c].hold = f
       /\ chan'[c].prompt = IF f.secret /\ f.kind # "part" THEN "no" ELSE chan[c].prompt
    <2>1. DEFINE u(d) == chan[d].prompt = "asked" /\ ~(d = c /\ f.secret)
    <2>2. chan' = [d \in Channels |->
                      IF d # c THEN [chan[d] EXCEPT !.crossed = chan[d].crossed \/ u(d)]
                      ELSE [[chan[d] EXCEPT !.crossed = chan[d].crossed \/ u(d)] EXCEPT
                               !.queue = s, !.hold = f,
                               !.prompt = IF f.secret /\ f.kind # "part" THEN "no" ELSE chan[d].prompt]]
        <3>1. chan' = [d \in Channels |->
                 LET p == [chan[d] EXCEPT !.crossed = @ \/ (chan[d].prompt = "asked" /\ ~(d = c /\ f.secret))]
                 IN  IF d # c THEN p
                     ELSE [p EXCEPT !.queue = Tail(@), !.hold = f,
                                    !.prompt = IF f.secret /\ f.kind # "part" THEN "no" ELSE @]]
            BY <1>4 DEF SSH!TakeInput
        <3>. QED
            BY <1>2, <1>5, <3>1 DEF Sound, Proxy
    <2>3. ASSUME NEW d \in Channels, d # c
          PROVE  /\ chan'[d] \in Proxy
                 /\ chan'[d].state = chan[d].state /\ chan'[d].mode = chan[d].mode /\ chan'[d].todo = chan[d].todo
                 /\ chan'[d].queue = chan[d].queue /\ chan'[d].hold = chan[d].hold
                 /\ chan'[d].prompt = chan[d].prompt /\ chan'[d].crossed = (chan[d].crossed \/ u(d))
        <3>1. chan'[d] = [chan[d] EXCEPT !.crossed = chan[d].crossed \/ u(d)] /\ chan[d] \in Proxy
            BY <1>2, <2>2, <2>3
        <3>. QED
            BY <3>1 DEF Proxy
    <2>4. /\ chan'[c] \in Proxy
          /\ chan'[c].state = chan[c].state /\ chan'[c].mode = chan[c].mode /\ chan'[c].todo = chan[c].todo
          /\ chan'[c].queue = s /\ chan'[c].hold = f /\ chan'[c].crossed = (chan[c].crossed \/ u(c))
          /\ chan'[c].prompt = IF f.secret /\ f.kind # "part" THEN "no" ELSE chan[c].prompt
        <3>1. /\ chan'[c] = [[chan[c] EXCEPT !.crossed = chan[c].crossed \/ u(c)] EXCEPT
                                !.queue = s, !.hold = f,
                                !.prompt = IF f.secret /\ f.kind # "part" THEN "no" ELSE chan[c].prompt]
              /\ chan[c] \in Proxy
            BY <1>2, <2>2
        <3>. QED
            BY <3>1 DEF Proxy
    <2>5. chan' = [d \in Channels |-> chan'[d]]
        BY <2>2
    <2>. QED
        BY <2>3, <2>4, <2>5
<1>14. FramesApart'
    <2>1. Touched' \subseteq Touched \cup {f.id} /\ {f.id} \in SUBSET Nat /\ \A n \in {f.id} : n <= frames'
        <3>1. rec'.clear \subseteq rec.clear \cup Seen(rec) \cup {f.id}
            BY <1>9, <1>10 DEF Seen
        <3>. QED
            BY <1>1, <1>6, <1>9, <1>10, <1>12, <3>1 DEF Touched
    <2>2. frames' \in Nat /\ frames <= frames'
        BY <1>1, <1>2
    <2>3. ASSUME NEW d \in Channels
          PROVE  /\ Rest(chan'[d].queue, chan[d].queue)
                 /\ chan'[d].todo.id <= frames' /\ chan'[d].hold.id <= frames'
                 /\ chan'[d].todo.kind = "exec" => chan'[d].todo = chan[d].todo
        <3>1. chan[d].queue \in Seq(Frame) /\ chan[d].todo.id <= frames /\ chan[d].hold.id <= frames
            BY <1>2 DEF Sound, Proxy, FramesNumbered
        <3>2. CASE d = c
            BY <1>1, <1>5, <1>6, <1>13, <3>1, <3>2
        <3>3. CASE d # c
            BY <1>1, <1>13, <3>1, <3>3, RestFacts
        <3>. QED
            BY <3>2, <3>3
    <2>4. ASSUME NEW d \in Channels
          PROVE  /\ \A i \in DOMAIN chan'[d].queue : chan'[d].queue[i].id \notin {f.id}
                 /\ chan'[d].todo.kind = "exec" => chan'[d].todo.id \notin {f.id}
        <3>1. /\ \A j \in DOMAIN chan[d].queue : f.id = chan[d].queue[j].id => c = d /\ j = 1
              /\ chan[d].todo.kind = "exec" => chan[d].todo.id # f.id
            BY <1>4 DEF GatewayInv, FramesApart, QueuesApart
        <3>2. CASE d = c
            <4>1. \A i \in DOMAIN s : i + 1 # 1
                BY <1>5
            <4>2. \A i \in DOMAIN s : s[i].id # f.id
                BY <1>5, <3>1, <3>2, <4>1
            <4>. QED
                BY <1>13, <3>1, <3>2, <4>2
        <3>3. CASE d # c
            BY <1>13, <3>1, <3>3
        <3>. QED
            BY <3>2, <3>3
    <2>. QED
        BY <1>13, <2>1, <2>2, <2>3, <2>4, FramesFewer
<1>15. f.secret => chan[c].prompt = "asked"
    BY <1>2, <1>4 DEF Sound, Answering
<1>16. AnswersHidden'
    <2>1. SUFFICES ASSUME cfg.redact
                   PROVE  /\ rec'.made /\ ~rec'.closed => \A d \in Channels : PromptKnown(chan[d], rec)'
                          /\ ~rec'.closed /\ Ids(rec'.line) \cap answers' # {} => rec'.sensitive
                          /\ answers' \cap rec'.clear = {}
        BY <1>1 DEF AnswersHidden
    <2>2. /\ rec.made /\ ~rec.closed => \A d \in Channels : PromptKnown(chan[d], rec)
          /\ ~rec.closed /\ Ids(rec.line) \cap answers # {} => rec.sensitive
          /\ answers \cap rec.clear = {}
        BY <2>1 DEF GatewayInv, AnswersHidden
    <2>3. f.id \notin answers /\ f.id \notin rec.clear /\ f.id \notin Ids(rec.line)
        BY <1>6 DEF Touched, Seen
    <2>4. rec.made /\ ~rec.closed /\ f.secret /\ ~chan[c].crossed => rec.hide /\ rec.sensitive
        BY <1>15, <2>2 DEF PromptKnown
    <2>5. ASSUME rec.made, ~rec.closed, NEW d \in Channels PROVE PromptKnown(chan[d], rec)'
        <3>1. PromptKnown(chan[d], rec)
            BY <2>2, <2>5
        <3>2. chan'[d].prompt = "asked" /\ ~chan'[d].crossed => rec'.hide /\ rec'.sensitive
            <4>1. SUFFICES ASSUME chan'[d].prompt = "asked", ~chan'[d].crossed
                           PROVE  rec'.hide /\ rec'.sensitive
                OBVIOUS
            <4>2. d = c /\ f.secret /\ f.kind = "part" /\ chan[d].prompt = "asked" /\ ~chan[d].crossed
                BY <1>13, <1>15, <4>1
            <4>. QED
                BY <1>9, <1>10, <2>1, <3>1, <4>2 DEF PromptKnown
        <3>3. chan'[d].prompt \in {"out", "err"} /\ ~chan'[d].crossed => rec'.tail
            BY <1>9, <1>10, <1>13, <3>1 DEF PromptKnown
        <3>. QED
            BY <3>2, <3>3 DEF PromptKnown
    <2>6. ~rec'.closed /\ Ids(rec'.line) \cap answers' # {} => rec'.sensitive
        <3>1. CASE ~(rec.made /\ ~rec.closed)
            BY <1>9, <1>10, <1>11, <1>12, <2>2, <2>3, <3>1
        <3>2. CASE rec.made /\ ~rec.closed
            <4>1. ASSUME Ids(rec'.line) \cap answers' # {} PROVE rec.sensitive /\ rec'.line # <<>>
                <5>1. PICK n \in Ids(rec'.line) : n \in answers'
                    BY <4>1
                <5>2. CASE n \in Ids(rec.line) /\ n \in answers
                    BY <2>2, <3>2, <5>1, <5>2, EmptySeqs
                <5>3. CASE n = f.id
                    BY <1>12, <2>3, <2>4, <3>2, <5>1, <5>3, EmptySeqs
                <5>. QED
                    BY <1>9, <1>10, <1>12, <2>3, <5>1, <5>2, <5>3
            <4>. QED
                BY <1>9, <1>10, <4>1
        <3>. QED
            BY <3>1, <3>2
    <2>7. answers' \cap rec'.clear = {}
        <3>1. CASE ~(rec.made /\ ~rec.closed)
            BY <1>9, <1>10, <1>12, <2>2, <2>3, <3>1
        <3>2. CASE rec.made /\ ~rec.closed
            <4>1. answers \cap rec'.clear = {}
                <5>1. CASE rec.sensitive
                    BY <1>9, <1>10, <2>2, <2>3, <5>1
                <5>2. CASE ~rec.sensitive
                    BY <1>9, <1>10, <2>2, <2>3, <5>2
                <5>. QED
                    BY <5>1, <5>2
            <4>2. f.id \in answers' => f.id \notin rec'.clear
                BY <1>9, <1>10, <1>12, <2>1, <2>3, <2>4, <3>2
            <4>. QED
                BY <1>12, <4>1, <4>2
        <3>. QED
            BY <3>1, <3>2
    <2>. QED
        BY <1>11, <2>5, <2>6, <2>7
<1>17. InputSeen'
    BY <1>1, <1>11, <1>13, FailClosedKept
<1>18. ASSUME NEW d \in Channels
       PROVE  /\ Answering(chan'[d]) /\ Fitting(chan'[d])
              /\ chan'[d].state # "open" => Unused(chan'[d])
              /\ \/ chan'[d].hold = chan[d].hold
                 \/ SSH!Recording => chan'[d].hold \in rec'.seen \/ rec'.closed \/ rec'.fatal
    <2>1. Answering(chan[d]) /\ Fitting(chan[d]) /\ (chan[d].state # "open" => Unused(chan[d]))
        BY <1>2 DEF Sound, Started
    <2>2. CASE d # c
        BY <1>13, <2>1, <2>2 DEF Answering, Fitting, Unused
    <2>3. CASE d = c
        <3>1. Answering(chan'[c])
            <4>1. SUFFICES ASSUME NEW i \in DOMAIN s, s[i].secret
                           PROVE  /\ chan'[c].prompt = "asked"
                                  /\ s[i].kind # "part" => \A j \in DOMAIN s : j > i => ~s[j].secret
                BY <1>13 DEF Answering
            <4>2. /\ i + 1 \in DOMAIN chan[c].queue /\ chan[c].queue[i + 1].secret /\ chan[c].prompt = "asked"
                  /\ i + 1 > 1
                BY <1>5, <2>1, <2>3, <4>1 DEF Answering
            <4>3. ~(f.secret /\ f.kind # "part")
                BY <1>4, <2>1, <2>3, <4>2 DEF Answering
            <4>4. ASSUME s[i].kind # "part", NEW j \in DOMAIN s, j > i PROVE ~s[j].secret
                <5>1. j + 1 \in DOMAIN chan[c].queue /\ s[j] = chan[c].queue[j + 1] /\ j + 1 > i + 1
                    BY <1>5, <4>4
                <5>. QED
                    BY <1>5, <2>1, <2>3, <4>2, <4>4, <5>1 DEF Answering
            <4>. QED
                BY <1>13, <4>2, <4>3, <4>4
        <3>2. Fitting(chan'[c])
            BY <1>1, <1>5, <1>6, <1>13, <2>1, <2>3 DEF Fitting
        <3>3. SSH!Recording => rec.made /\ cfg.commands
            BY <1>1, OpenServes DEF SSH!Recording
        <3>. QED
            BY <1>1, <1>9, <1>10, <1>11, <1>13, <2>3, <3>1, <3>2, <3>3
    <2>. QED
        BY <2>2, <2>3
<1>19. frames' \in Nat /\ frames <= frames' /\ answers' \subseteq Nat
    <2>1. answers' \subseteq Nat
        BY <1>2, <1>6, <1>12
    <2>. QED
        BY <1>1, <1>2, <2>1
<1>. QED
    BY <1>1, <1>9, <1>10, <1>13, <1>14, <1>16, <1>17, <1>18, <1>19, RecordingStep

LEMMA CopyOutputSafe ==
    ASSUME GatewayInv, NEW c \in Channels, NEW stream \in {"out", "err"},
           NEW kind \in {"text", "prompt", "half", "end"}, SSH!CopyOutput(c, stream, kind)
    PROVE  GatewayInv'
<1>1. /\ UNCHANGED <<front, cfg, pc, reached, answers>> /\ frames' = frames + 1
      /\ chan[c].mode \in {"shell", "exec"} /\ chan[c].state = "open"
    BY DEF SSH!CopyOutput, SSH!Copied, SSH!handler, SSH!ghosts
<1>2. /\ \A d \in Channels : Sound(chan[d])
      /\ chan \in [Channels -> Proxy] /\ frames \in Nat /\ rec \in Recorder /\ Kept(rec) /\ answers \subseteq Nat
    BY ChannelSound DEF GatewayInv, GatewayTypes
<1>3. PICK res : SSH!Recorded(SSH!RecordOutput(rec, kind, res), res)
    BY DEF SSH!CopyOutput
<1>4. PICK q : q = SSH!RecordOutput(rec, kind, res)
    OBVIOUS
<1>5. /\ rec' = q /\ (targetUp' => targetUp) /\ (q.fatal => ~targetUp')
      /\ targetUp' \in BOOLEAN /\ clientUp' \in BOOLEAN
    BY <1>3, <1>4, RecordedFacts DEF GatewayInv
<1>6. /\ Beside(q, rec) /\ q.seen = rec.seen
      /\ cfg.redact /\ rec.made /\ ~rec.closed =>
            /\ q.tail = (kind = "half")
            /\ kind = "prompt" \/ (kind = "end" /\ rec.tail) => q.hide /\ q.sensitive
      /\ ~(rec.made /\ ~rec.closed) => q = rec
    BY <1>2, <1>4, OutputFacts
<1>7. /\ Advances(rec', rec) /\ rec'.made = rec.made /\ rec'.closed = rec.closed /\ (rec.fatal => rec'.fatal)
      /\ Seen(rec') = Seen(rec) /\ rec'.clear = rec.clear /\ rec'.line = rec.line
      /\ (rec.hide => rec'.hide) /\ (rec.sensitive => rec'.sensitive)
    BY <1>5, <1>6 DEF Beside, Advances, SameLife
<1>8. DEFINE before == chan[c].prompt
             asked == kind = "prompt" \/ (kind = "end" /\ before = stream)
             after == IF asked THEN "asked"
                      ELSE IF before = "asked" THEN before
                      ELSE IF kind = "half" THEN stream
                      ELSE IF before = stream THEN "no" ELSE before
             cuts(d) == chan[d].prompt \in {"out", "err"} /\ ~(d = c /\ chan[d].prompt = stream)
             afresh == kind = "prompt" \/ (kind = "half" /\ before # "asked")
<1>9. /\ chan' \in [Channels -> Proxy]
      /\ \A d \in Channels :
            /\ chan'[d].state = chan[d].state /\ chan'[d].mode = chan[d].mode /\ chan'[d].todo = chan[d].todo
            /\ chan'[d].queue = chan[d].queue /\ chan'[d].hold = chan[d].hold
            /\ d # c => /\ chan'[d].prompt = chan[d].prompt
                        /\ chan'[d].crossed = (chan[d].crossed \/ cuts(d))
      /\ chan'[c].prompt = after
      /\ ~chan'[c].crossed <=> afresh \/ ~(chan[c].crossed \/ cuts(c))
    <2>1. chan' = [d \in Channels |->
                      IF d # c THEN [chan[d] EXCEPT !.crossed = chan[d].crossed \/ cuts(d)]
                      ELSE [[chan[d] EXCEPT !.crossed = chan[d].crossed \/ cuts(d)] EXCEPT
                               !.prompt = after,
                               !.crossed = IF afresh THEN FALSE ELSE chan[d].crossed \/ cuts(d)]]
        BY <1>2 DEF SSH!CopyOutput, SSH!Streams, Sound, Proxy
    <2>2. ASSUME NEW d \in Channels, d # c
          PROVE  /\ chan'[d] \in Proxy
                 /\ chan'[d].state = chan[d].state /\ chan'[d].mode = chan[d].mode /\ chan'[d].todo = chan[d].todo
                 /\ chan'[d].queue = chan[d].queue /\ chan'[d].hold = chan[d].hold
                 /\ chan'[d].prompt = chan[d].prompt /\ chan'[d].crossed = (chan[d].crossed \/ cuts(d))
        <3>1. chan'[d] = [chan[d] EXCEPT !.crossed = chan[d].crossed \/ cuts(d)] /\ chan[d] \in Proxy
            BY <1>2, <2>1, <2>2
        <3>. QED
            BY <3>1 DEF Proxy
    <2>3. /\ chan'[c] \in Proxy
          /\ chan'[c].state = chan[c].state /\ chan'[c].mode = chan[c].mode /\ chan'[c].todo = chan[c].todo
          /\ chan'[c].queue = chan[c].queue /\ chan'[c].hold = chan[c].hold
          /\ chan'[c].prompt = after
          /\ ~chan'[c].crossed <=> afresh \/ ~(chan[c].crossed \/ cuts(c))
        <3>1. chan[c] \in Proxy
            BY <1>2
        <3>2. after \in {"no", "asked", "out", "err"}
            BY <3>1 DEF Proxy
        <3>3. chan'[c] = [[chan[c] EXCEPT !.crossed = chan[c].crossed \/ cuts(c)] EXCEPT
                             !.prompt = after,
                             !.crossed = IF afresh THEN FALSE ELSE chan[c].crossed \/ cuts(c)]
            BY <1>2, <2>1
        <3>. HIDE DEF after, afresh, cuts
        <3>. QED
            BY <3>1, <3>2, <3>3 DEF Proxy
    <2>4. chan' = [d \in Channels |-> chan'[d]]
        BY <2>1
    <2>. HIDE DEF after, afresh, cuts
    <2>. QED
        BY <2>2, <2>3, <2>4
<1>10. frames' \in Nat /\ frames <= frames' /\ answers' \subseteq Nat
    BY <1>1, <1>2
<1>11. FramesApart'
    <2>1. Touched' \subseteq Touched \cup {} /\ {} \in SUBSET Nat
        BY <1>1, <1>7 DEF Touched
    <2>2. ASSUME NEW d \in Channels
          PROVE  /\ Rest(chan'[d].queue, chan[d].queue)
                 /\ chan'[d].todo.id <= frames' /\ chan'[d].hold.id <= frames'
                 /\ chan'[d].todo = chan[d].todo
        <3>1. chan[d].queue \in Seq(Frame) /\ chan[d].todo \in Frame /\ chan[d].hold \in Frame
              /\ chan[d].todo.id <= frames /\ chan[d].hold.id <= frames
            BY <1>2 DEF Sound, Proxy, FramesNumbered
        <3>2. chan[d].todo.id \in Nat /\ chan[d].hold.id \in Nat
            BY <3>1 DEF Frame
        <3>3. chan[d].todo.id <= frames' /\ chan[d].hold.id <= frames'
            BY <1>1, <1>2, <3>1, <3>2
        <3>4. chan'[d].queue = chan[d].queue /\ chan'[d].todo = chan[d].todo /\ chan'[d].hold = chan[d].hold
            BY <1>9
        <3>. QED
            BY <3>1, <3>3, <3>4, RestFacts
    <2>3. chan' \in [Channels -> Proxy]
        BY <1>9
    <2>. QED
        BY <1>10, <2>1, <2>2, <2>3, FramesFewer
<1>12. AnswersHidden'
    <2>1. SUFFICES ASSUME cfg.redact, rec.made, ~rec.closed, NEW d \in Channels
                   PROVE  PromptKnown(chan[d], rec)'
        BY <1>1, <1>7 DEF GatewayInv, AnswersHidden
    <2>2. PromptKnown(chan[d], rec)
        BY <2>1 DEF GatewayInv, AnswersHidden
    <2>3. /\ rec'.tail = (kind = "half")
          /\ kind = "prompt" \/ (kind = "end" /\ rec.tail) => rec'.hide /\ rec'.sensitive
        BY <1>5, <1>6, <2>1
    <2>4. CASE d # c
        (* A first half on another channel or stream is cut by this output. *)
        <3>1. chan'[d].prompt = chan[d].prompt /\ chan'[d].crossed = (chan[d].crossed \/ cuts(d))
            BY <1>9, <2>4
        <3>2. chan[d].prompt \in {"out", "err"} => chan'[d].crossed
            BY <2>4, <3>1
        <3>. QED
            BY <1>7, <2>2, <3>1, <3>2 DEF PromptKnown
    <2>5. CASE d = c
        <3>1. chan'[c].prompt = after /\ (~chan'[c].crossed <=> afresh \/ ~(chan[c].crossed \/ cuts(c)))
            BY <1>9
        <3>2. chan'[c].prompt = "asked" /\ ~chan'[c].crossed => rec'.hide /\ rec'.sensitive
            BY <1>7, <2>2, <2>3, <2>5, <3>1 DEF PromptKnown
        <3>3. chan'[c].prompt \in {"out", "err"} /\ ~chan'[c].crossed => rec'.tail
            BY <1>7, <2>2, <2>3, <2>5, <3>1 DEF PromptKnown
        <3>. QED
            BY <2>5, <3>2, <3>3 DEF PromptKnown
    <2>. QED
        BY <2>4, <2>5
<1>13. InputSeen'
    <2>1. \A d \in Channels : chan'[d].todo = chan[d].todo
        BY <1>9
    <2>. QED
        BY <1>1, <1>5, <1>6, <1>7, <2>1, FailClosedKept
<1>14. ASSUME NEW d \in Channels
       PROVE  /\ Answering(chan'[d]) /\ Fitting(chan'[d])
              /\ chan'[d].state # "open" => Unused(chan'[d])
              /\ chan'[d].state = chan[d].state /\ chan'[d].mode = chan[d].mode
              /\ chan'[d].todo = chan[d].todo /\ chan'[d].hold = chan[d].hold
    <2>1. Answering(chan[d]) /\ Fitting(chan[d]) /\ (chan[d].state # "open" => Unused(chan[d]))
        BY <1>2 DEF Sound, Started
    <2>2. /\ chan'[d].state = chan[d].state /\ chan'[d].mode = chan[d].mode /\ chan'[d].todo = chan[d].todo
          /\ chan'[d].queue = chan[d].queue /\ chan'[d].hold = chan[d].hold
          /\ d # c => chan'[d].prompt = chan[d].prompt
          /\ chan[d].prompt = "asked" => chan'[d].prompt = "asked"
        BY <1>9
    <2>3. Answering(chan'[d])
        BY <2>1, <2>2 DEF Answering
    <2>4. Fitting(chan'[d])
        BY <2>1, <2>2 DEF Fitting
    <2>5. chan'[d].state # "open" => Unused(chan'[d])
        BY <1>1, <2>1, <2>2 DEF Unused
    <2>. QED
        BY <2>2, <2>3, <2>4, <2>5
<1>15. chan' \in [Channels -> Proxy] /\ (~(rec.made /\ ~rec.closed) => rec' = rec) /\ (rec'.fatal => ~targetUp')
    BY <1>5, <1>6, <1>9
<1>. QED
    BY <1>1, <1>5, <1>7, <1>10, <1>11, <1>12, <1>13, <1>14, <1>15, RecordingStep

-----------------------------------------------------------------------------
LEMMA GatewayInvInit == SSH!Init => GatewayInv
<1>. SUFFICES ASSUME SSH!Init PROVE GatewayInv
    OBVIOUS
<1>1. /\ cfg \in Options /\ (pc = "handshake" \/ pc = "dial") /\ clientUp = TRUE /\ targetUp = FALSE
      /\ rec = SSH!NoRecorder /\ chan = [c \in Channels |-> SSH!Idle]
      /\ reached = {} /\ answers = {} /\ frames = 0
    BY GatewayAssumption DEF SSH!Init, Options
<1>2. /\ rec \in Recorder /\ ~rec.made /\ ~rec.closed /\ ~rec.fatal /\ rec.line = <<>> /\ rec.current = <<>>
      /\ rec.submitted = <<>> /\ rec.sink = <<>> /\ rec.clear = {}
    BY <1>1, EmptySeqs DEF SSH!NoRecorder, Recorder
<1>3. SSH!Idle \in Proxy /\ SSH!Idle.state = "none" /\ Unused(SSH!Idle)
    BY EmptySeqs, NoFrameFacts DEF SSH!Idle, Proxy, Unused
<1>4. chan \in [Channels -> Proxy] /\ \A c \in Channels : chan[c].state = "none" /\ Unused(chan[c])
    BY <1>1, <1>3
<1>5. GatewayTypes
    BY <1>1, <1>2, <1>4 DEF GatewayTypes
<1>6. Kept(rec)
    <2>1. <<>> \o <<>> = <<>>
        OBVIOUS
    <2>2. Distinct(<<>>)
        BY EmptySeqs DEF Distinct
    <2>. QED
        BY <1>2, <2>1, <2>2, EmptySeqs DEF Kept, Pending
<1>7. FramesApart
    <2>1. Touched = {}
        BY <1>1, <1>2, EmptySeqs DEF Touched, Seen
    <2>2. \A c \in Channels : chan[c].queue = <<>> /\ chan[c].todo = SSH!NoFrame /\ chan[c].hold = SSH!NoFrame
        BY <1>4 DEF Unused
    <2>3. \A c \in Channels : /\ DOMAIN chan[c].queue = {} /\ chan[c].todo.kind # "exec"
                              /\ chan[c].todo.id <= frames /\ chan[c].hold.id <= frames
        BY <1>1, <2>2, EmptySeqs, NoFrameFacts
    <2>. QED
        BY <2>1, <2>3 DEF FramesApart, Numbers, FramesNumbered, QueuesApart, TodosApart
<1>8. AnswersHidden
    BY <1>1, <1>2, EmptySeqs DEF AnswersHidden
<1>9. Flow
    BY <1>1, <1>2, <1>4 DEF Flow, Started, Early, Ready, Late
<1>10. Effects /\ InputSeen
    BY <1>1, <1>4 DEF Effects, Traced, Unused, InputSeen, SSH!SeenFirst, SSH!Unseen
<1>11. \A c \in Channels : Answering(chan[c]) /\ Fitting(chan[c])
    BY <1>4, EmptySeqs DEF Answering, Fitting, Unused
<1>. QED
    BY <1>5, <1>6, <1>7, <1>8, <1>9, <1>10, <1>11 DEF GatewayInv

LEMMA GatewayInvNext == GatewayInv /\ [SSH!Next]_SSH!vars => GatewayInv'
<1>. SUFFICES ASSUME GatewayInv, [SSH!Next]_SSH!vars PROVE GatewayInv'
    OBVIOUS
<1>1. CASE SSH!HandlerStep
    BY <1>1, QuietHandlerSafe, NewRecorderSafe, RegisterSafe, WebTerminalSafe, CloseRecorderSafe DEF SSH!HandlerStep
<1>2. ASSUME NEW c \in Channels, SSH!ProxyStep(c) PROVE GatewayInv'
    BY <1>2, TakeInputSafe, WriteTargetSafe, FileOperationSafe, RecordTodoSafe DEF SSH!ProxyStep
<1>3. ASSUME NEW c \in Channels, SSH!ClientStep(c) PROVE GatewayInv'
    BY <1>3, StartModeSafe, ExecSafe, ClientSendsSafe, CopyOutputSafe DEF SSH!ClientStep
<1>4. CASE UNCHANGED SSH!vars
    <2>1. UNCHANGED <<front, cfg, pc, rec, chan, reached, answers, frames, clientUp, targetUp>>
        BY <1>4 DEF SSH!vars, SSH!handler, SSH!links, SSH!ghosts, SSH!bounds
    <2>2. /\ clientUp \in BOOLEAN /\ targetUp \in BOOLEAN
          /\ pc \in Early \cup {"serve"} \cup Late /\ (rec.fatal => ~targetUp)
          /\ front # "ssh" /\ (pc \in Late \ {"closeTarget"} \/ rec.closed) => ~targetUp
        BY DEF GatewayInv, GatewayTypes, Flow
    <2>3. Flow'
        BY <2>1, <2>2, FlowGoesOn
    <2>. QED
        BY <2>1, <2>2, <2>3, HandlerAlone
<1>. QED
    BY <1>1, <1>2, <1>3, <1>4, LinksSafe, AcceptSafe, CloseChannelSafe DEF SSH!Next

LEMMA GatewayInvAlways == MCSpec => [](part = "gateway" => GatewayInv)
<1>. DEFINE Inv == part = "gateway" => GatewayInv
<1>1. MCInit => Inv
    BY GatewayInvInit DEF MCInit
<1>2. Inv /\ [HostsNext \/ CredNext \/ SSHNext]_all => Inv'
    <2>. SUFFICES ASSUME Inv, [HostsNext \/ CredNext \/ SSHNext]_all PROVE Inv'
        OBVIOUS
    <2>1. UNCHANGED part
        BY DEF HostsNext, CredNext, SSHNext, all
    <2>2. part = "gateway" => [SSH!Next]_SSH!vars
        BY DEF HostsNext, CredNext, SSHNext, all, sshVars, SSH!vars, SSH!handler, SSH!links, SSH!ghosts, SSH!bounds
    <2>. QED
        BY <2>1, <2>2, GatewayInvNext
<1>. QED
    BY <1>1, <1>2, PTL DEF MCSpec

-----------------------------------------------------------------------------
(* The ledger is kept by every step.                                       *)
LEMMA LedgerInit == SSH!Init => Ledger(rec)
<1>. SUFFICES ASSUME SSH!Init PROVE Ledger(rec)
    OBVIOUS
<1>1. rec = SSH!NoRecorder
    BY DEF SSH!Init
<1>2. /\ rec.submitted = <<>> /\ rec.dropped = <<>> /\ rec.asks = 0 /\ rec.seen = {}
      /\ ~rec.sensitive /\ rec.held # "full"
    BY <1>1 DEF SSH!NoRecorder
<1>3. Behind(rec) /\ AllFound(rec)
    BY <1>2, EmptySeqs DEF Behind, AllFound
<1>4. Len(rec.dropped) <= rec.asks
    <2>1. Len(<<>>) <= 0
        OBVIOUS
    <2>. QED
        BY <1>2, <2>1, Zenon
<1>. QED
    BY <1>2, <1>3, <1>4 DEF Ledger, Counted

LEMMA RecorderChanges ==
    ASSUME NEW q, NEW res, SSH!Recorded(q, res)
    PROVE  rec' = q
BY DEF SSH!Recorded

LEMMA MadeLedger ==
    ASSUME GatewayInv, Ledger(rec), SSH!NewSessionRecorder
    PROVE  Ledger(rec')
<1>1. rec' = rec \/ rec' = [rec EXCEPT !.made = cfg.enabled]
    BY DEF SSH!NewSessionRecorder, SSH!Try
<1>2. rec \in Recorder
    BY DEF GatewayInv, GatewayTypes
<1>3. CASE rec' = [rec EXCEPT !.made = cfg.enabled]
    <2>1. /\ SameLedger(rec', rec) /\ rec'.seen = rec.seen /\ rec'.fatal = rec.fatal
          /\ rec'.sensitive = rec.sensitive /\ rec'.held = rec.held
        BY <1>2, <1>3 DEF Recorder, SameLedger
    <2>2. Counted(rec')
        BY <2>1, LedgerAlone DEF Ledger
    <2>. QED
        BY <2>1, <2>2, SameLedgerKept
<1>. QED
    BY <1>1, <1>3

LEMMA TakeInputLedger ==
    ASSUME GatewayInv, Ledger(rec), NEW c \in Channels, SSH!TakeInput(c)
    PROVE  Ledger(rec')
<1>1. chan[c].queue # <<>> /\ chan[c].state = "open"
    BY DEF SSH!TakeInput
<1>2. Sound(chan[c]) /\ rec \in Recorder /\ Kept(rec)
    BY ChannelSound DEF GatewayInv, GatewayTypes
<1>3. chan[c].queue \in Seq(Frame)
    BY <1>2 DEF Sound, Proxy
<1>4. PICK f \in Frame : f = Head(chan[c].queue) /\ f = chan[c].queue[1] /\ 1 \in DOMAIN chan[c].queue
    BY <1>1, <1>3, RestFacts
<1>5. f.id \notin Seen(rec)
    BY <1>2, <1>4 DEF Sound, FramesNumbered, Touched
<1>6. PICK res : SSH!Recorded(SSH!RecordInput(rec, f, res), res)
    BY <1>4 DEF SSH!TakeInput
<1>7. rec' = SSH!RecordInput(rec, f, res)
    BY <1>6, RecorderChanges
<1>. QED
    BY <1>2, <1>5, <1>7, InputLedger

LEMMA RecordTodoLedger ==
    ASSUME GatewayInv, Ledger(rec), NEW c \in Channels, SSH!RecordTodo(c)
    PROVE  Ledger(rec')
<1>1. chan[c].todo # SSH!NoFrame
    BY DEF SSH!RecordTodo
<1>2. Sound(chan[c]) /\ rec \in Recorder /\ Kept(rec)
    BY ChannelSound DEF GatewayInv, GatewayTypes
<1>3. PICK f \in Frame : f = chan[c].todo
    BY <1>2 DEF Sound, Proxy
<1>4. f.kind = "exec" => f.id \notin Seen(rec)
    BY <1>2, <1>3 DEF Sound, FramesNumbered, Touched
<1>5. PICK res : SSH!Recorded(IF f.kind = "exec" THEN SSH!RecordCommand(rec, f, res)
                              ELSE SSH!RecordFileEvent(rec, f, res), res)
    BY <1>3 DEF SSH!RecordTodo
<1>6. rec' = IF f.kind = "exec" THEN SSH!RecordCommand(rec, f, res)
             ELSE SSH!RecordFileEvent(rec, f, res)
    BY <1>5, RecorderChanges
<1>7. CASE f.kind = "exec"
    BY <1>2, <1>4, <1>6, <1>7, CommandLedger
<1>8. CASE f.kind # "exec"
    BY <1>2, <1>6, <1>8, FileEventLedger
<1>. QED
    BY <1>7, <1>8

LEMMA OtherLedger ==
    ASSUME GatewayInv, Ledger(rec)
    PROVE  /\ SSH!CloseRecorder => Ledger(rec')
           /\ \A c \in Channels, mode \in {"shell", "sftp"} : SSH!StartMode(c, mode) => Ledger(rec')
           /\ \A c \in Channels, stream \in {"out", "err"}, kind \in {"text", "prompt", "half", "end"} :
                 SSH!CopyOutput(c, stream, kind) => Ledger(rec')
<1>1. rec \in Recorder /\ Kept(rec)
    BY DEF GatewayInv, GatewayTypes
<1>2. ASSUME SSH!CloseRecorder PROVE Ledger(rec')
    <2>1. PICK res : SSH!Recorded(SSH!Close(rec, res), res)
        BY <1>2 DEF SSH!CloseRecorder
    <2>2. rec' = SSH!Close(rec, res)
        BY <2>1, RecorderChanges
    <2>. QED
        BY <1>1, <2>2, CloseLedger
<1>3. ASSUME NEW c \in Channels, NEW mode \in {"shell", "sftp"}, SSH!StartMode(c, mode)
      PROVE  Ledger(rec')
    <2>1. CASE mode = "sftp"
        <3>1. PICK res : SSH!Recorded(SSH!SetProtocolSubtype(rec, res), res)
            BY <1>3, <2>1 DEF SSH!StartMode
        <3>2. rec' = SSH!SetProtocolSubtype(rec, res)
            BY <3>1, RecorderChanges
        <3>. QED
            BY <1>1, <3>2, SubtypeLedger
    <2>2. CASE mode # "sftp"
        BY <1>3, <2>2 DEF SSH!StartMode
    <2>. QED
        BY <2>1, <2>2
<1>4. ASSUME NEW c \in Channels, NEW stream \in {"out", "err"},
             NEW kind \in {"text", "prompt", "half", "end"}, SSH!CopyOutput(c, stream, kind)
      PROVE  Ledger(rec')
    <2>1. PICK res : SSH!Recorded(SSH!RecordOutput(rec, kind, res), res)
        BY <1>4 DEF SSH!CopyOutput
    <2>2. rec' = SSH!RecordOutput(rec, kind, res)
        BY <2>1, RecorderChanges
    <2>. QED
        BY <1>1, <2>2, OutputLedger
<1>. QED
    BY <1>2, <1>3, <1>4

LEMMA LedgerNext == GatewayInv /\ Ledger(rec) /\ [SSH!Next]_SSH!vars => Ledger(rec')
<1>. SUFFICES ASSUME GatewayInv, Ledger(rec), [SSH!Next]_SSH!vars PROVE Ledger(rec')
    OBVIOUS
<1>1. CASE SSH!HandlerStep
    <2>1. CASE SSH!NewSessionRecorder
        BY <2>1, MadeLedger
    <2>2. CASE SSH!CloseRecorder
        BY <2>2, OtherLedger
    <2>3. CASE \/ SSH!Handshake \/ SSH!ResolveTarget \/ SSH!AuthorizeTarget \/ SSH!DialTarget
               \/ SSH!CreateAuditSession
        <3>1. UNCHANGED rec
            BY <2>3 DEF SSH!Handshake, SSH!ResolveTarget, SSH!AuthorizeTarget, SSH!DialTarget,
                        SSH!CreateAuditSession, SSH!Try
        <3>. QED
            BY <3>1
    <2>4. CASE \/ SSH!Register \/ SSH!ServeWebTerminal \/ SSH!ServeReturns \/ SSH!EndAuditSession
               \/ SSH!CloseTarget \/ SSH!CloseClient
        <3>1. UNCHANGED rec
            BY <2>4 DEF SSH!Register, SSH!ServeWebTerminal, SSH!ServeReturns, SSH!EndAuditSession,
                        SSH!CloseTarget, SSH!CloseClient
        <3>. QED
            BY <3>1
    <2>. QED
        BY <1>1, <2>1, <2>2, <2>3, <2>4 DEF SSH!HandlerStep
<1>2. ASSUME NEW c \in Channels, SSH!ProxyStep(c) PROVE Ledger(rec')
    <2>1. CASE SSH!WriteTarget(c) \/ SSH!FileOperation(c)
        <3>1. UNCHANGED rec
            BY <2>1 DEF SSH!WriteTarget, SSH!FileOperation
        <3>. QED
            BY <3>1
    <2>. QED
        BY <1>2, <2>1, TakeInputLedger, RecordTodoLedger DEF SSH!ProxyStep
<1>3. ASSUME NEW c \in Channels, SSH!ClientStep(c) PROVE Ledger(rec')
    <2>1. SSH!Exec(c) => UNCHANGED rec
        BY DEF SSH!Exec
    <2>2. \A kind \in {"line", "part", "enter", "op"} : SSH!ClientSends(c, kind) => UNCHANGED rec
        BY DEF SSH!ClientSends
    <2>. QED
        BY <1>3, <2>1, <2>2, OtherLedger DEF SSH!ClientStep
<1>4. CASE UNCHANGED SSH!vars \/ SSH!Watcher \/ SSH!Disconnect \/ SSH!ClientCloses \/ SSH!TargetCloses \/ SSH!Shutdown
    <2>1. UNCHANGED rec
        BY <1>4 DEF SSH!vars, SSH!Watcher, SSH!Disconnect, SSH!ClientCloses, SSH!TargetCloses, SSH!Shutdown
    <2>. QED
        BY <2>1
<1>5. ASSUME NEW c \in Channels, SSH!AcceptChannel(c) \/ SSH!CloseChannel(c) PROVE Ledger(rec')
    <2>1. UNCHANGED rec
        BY <1>5 DEF SSH!AcceptChannel, SSH!CloseChannel
    <2>. QED
        BY <2>1
<1>. QED
    BY <1>1, <1>2, <1>3, <1>4, <1>5 DEF SSH!Next

LEMMA LedgerAlways == MCSpec => [](part = "gateway" => Ledger(rec))
<1>. DEFINE Inv == part = "gateway" => Ledger(rec)
            Safe == part = "gateway" => GatewayInv
<1>1. MCInit => Inv
    BY LedgerInit DEF MCInit
<1>2. Safe /\ Inv /\ [HostsNext \/ CredNext \/ SSHNext]_all => Inv'
    <2>. SUFFICES ASSUME Safe, Inv, [HostsNext \/ CredNext \/ SSHNext]_all PROVE Inv'
        OBVIOUS
    <2>1. UNCHANGED part
        BY DEF HostsNext, CredNext, SSHNext, all
    <2>2. part = "gateway" => [SSH!Next]_SSH!vars
        BY DEF HostsNext, CredNext, SSHNext, all, sshVars, SSH!vars, SSH!handler, SSH!links, SSH!ghosts, SSH!bounds
    <2>. QED
        BY <2>1, <2>2, LedgerNext
<1>. QED
    BY <1>1, <1>2, GatewayInvAlways, PTL DEF MCSpec

(* For any number of channels, frames and failures: each command the       *)
(* recorder took is written to the audit store at most once and in order,  *)
(* and a recorder that closes without a failure has written them all;      *)
(* until a failure each frame it took is in the log, in memory, or in a    *)
(* line dropped at a prompt, no more such lines than prompts.  With        *)
(* redaction on, an answer typed straight after its prompt, nothing on any *)
(* channel in between, is in clear neither as input nor as a command.      *)
THEOREM SSHRecordCorrect == MCSpec => []SSHRecordKept
<1>1. ASSUME GatewayInv, Ledger(rec) PROVE SSH!CommandsKept
    <2>1. Kept(rec) /\ rec \in Recorder
        BY <1>1 DEF GatewayInv, GatewayTypes
    <2>2. \A i, j \in DOMAIN rec.sink : rec.sink[i] = rec.sink[j] => i = j
        BY <2>1 DEF Kept, Distinct
    <2>3. ASSUME ~rec.fatal, NEW f \in rec.seen PROVE SSH!Accounted(f)
        <3>1. f.kind = "enter" \/ f.id \in Covered(rec)
            BY <1>1, <2>3 DEF Ledger, AllFound
        <3>2. \A l \in Seq(Nat) : SSH!ToSet(l) = Ids(l)
            BY LineGrows
        <3>3. SSH!ToSet(rec.line) = Ids(rec.line) /\ SSH!ToSet(rec.current) = Ids(rec.current)
            BY <2>1, <3>2 DEF Recorder
        <3>4. \A i \in DOMAIN rec.dropped : SSH!ToSet(rec.dropped[i]) = Ids(rec.dropped[i])
            <4>1. rec.dropped \in Seq(Seq(Nat))
                BY <2>1 DEF Recorder
            <4>2. \A i \in DOMAIN rec.dropped : rec.dropped[i] \in Seq(Nat)
                BY <4>1
            <4>. QED
                BY <3>2, <4>2
        <3>5. f.id \in DroppedIds(rec.dropped) => \E i \in DOMAIN rec.dropped : f.id \in SSH!ToSet(rec.dropped[i])
            BY <3>4 DEF DroppedIds
        <3>. QED
            BY <3>1, <3>3, <3>5 DEF Covered, SSH!Accounted
    <2>4. Len(rec.dropped) <= rec.asks
        BY <1>1 DEF Ledger, Counted
    <2>. QED
        BY <2>1, <2>2, <2>3, <2>4 DEF Kept, Pending, SSH!CommandsKept
<1>2. GatewayInv => SSH!SecretHidden
    BY DEF GatewayInv, AnswersHidden, SSH!SecretHidden
<1>3. (part = "gateway" => GatewayInv) /\ (part = "gateway" => Ledger(rec)) => SSHRecordKept
    BY <1>1, <1>2 DEF SSHRecordKept, SSH!SSHRecordKept
<1>. QED
    BY <1>3, GatewayInvAlways, LedgerAlways, PTL

(* For any number of channels, frames and failures, on a connection that   *)
(* records commands: input is handed to the recorder before the target     *)
(* gets it and none passes once the recorder failed, except what a proxy   *)
(* held when the handler of an SSH connection closed the recorder, and the *)
(* command of an exec request or file operation, recorded after the fact,  *)
(* whose record failed; and of the typed commands, which are kept in       *)
(* memory until the next, all but the last are in the command log.         *)
THEOREM SSHFailClosedCorrect == MCSpec => [](part = "gateway" => SSH!FailClosed)
<1>1. ASSUME GatewayInv, Ledger(rec) PROVE SSH!FailClosed
    <2>1. rec.submitted \in Seq(Seq(Nat))
        BY <1>1 DEF GatewayInv, GatewayTypes, Recorder
    <2>2. ASSUME NEW i \in DOMAIN rec.submitted, NEW j \in DOMAIN rec.submitted, i < j
          PROVE  SSH!ToSet(rec.submitted[i]) \subseteq rec.kept
        <3>1. i # Len(rec.submitted)
            BY <2>1, <2>2
        <3>2. Ids(rec.submitted[i]) \subseteq rec.kept
            BY <1>1, <3>1 DEF Ledger, Behind
        <3>3. rec.submitted[i] \in Seq(Nat)
            BY <2>1
        <3>. QED
            BY <3>2, <3>3, LineGrows
    <2>. QED
        BY <1>1, <2>2 DEF GatewayInv, InputSeen, SSH!FailClosed, SSH!OneBehind
<1>2. (part = "gateway" => GatewayInv) /\ (part = "gateway" => Ledger(rec)) => (part = "gateway" => SSH!FailClosed)
    BY <1>1
<1>. QED
    BY <1>2, GatewayInvAlways, LedgerAlways, PTL

=============================================================================
