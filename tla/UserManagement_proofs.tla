------------------------- MODULE UserManagement_proofs -------------------------
(***************************************************************************)
(* Proofs about UserManagement and AccessControl, for any number of users, *)
(* names, roles, groups, grants, resources and concurrent requests.        *)
(*                                                                         *)
(* UserManagement: types, unique names among active users, that the super  *)
(* administrator stays, and that only a save that overlapped a deletion    *)
(* revives the deleted user.                                               *)
(*                                                                         *)
(* UniqueLiveName is kept by the index alone.  SuperAdminStays needs to    *)
(* know what the requests in progress hold: no write changes whether a row *)
(* is a super administrator's (SameRank), a row that will be saved for one *)
(* keeps it active (RanksKept), and no deletion of one is under way.  What *)
(* revives a user follows from where the held rows come from (HeldRows).   *)
(*                                                                         *)
(* AccessControl: the batch decision is the single one, the console shows  *)
(* what is allowed, only a group written from a stale row strands a        *)
(* resource, and what a rename leaves as it was.  The decisions agree in   *)
(* every state in which live groups have names and permissions allow or    *)
(* deny; that these states are the reachable ones, and that no resource is *)
(* stranded, needs to know what the requests in progress will write        *)
(* (AccessInv).  The rename needs that live groups of a type have          *)
(* different names besides (UniqueGroups).                                 *)
(***************************************************************************)
EXTENDS MCIdentity, TLAPS

Protected(row) == row.super => row.live /\ row.status = "active"

SameRank ==
    \A e \in Editors : \A s \in edit[e].save :
        s.row.super = users[s.user].super /\ Protected(s.row)

RanksKept ==
    /\ \A u \in UserIds : Protected(users[u])
    /\ \E u \in UserIds : users[u].super

NoSuperDeleted ==
    \A e \in Editors : edit[e].pc = "delete" => \A u \in edit[e].user : ~users[u].super

IInv == TypeOK /\ UniqueLiveName /\ SameRank /\ RanksKept /\ NoSuperDeleted

Request == [pc : {"idle", "create", "save", "delete", "bind", "unbind"},
            save : SUBSET Saves, user : SUBSET UserIds, overlap : BOOLEAN]

-----------------------------------------------------------------------------
(* An instant a user may expire at: the default lies in the range.         *)
LEMMA DefaultExpiry ==
    ASSUME now \in 0 .. MaxTime
    PROVE  now + Year \in Times
BY UserManagementAssumption DEF Times

(* A requested instant is one of the range.                                *)
LEMMA RequestedExpiry ==
    ASSUME NEW t \in 0 .. MaxTime
    PROVE  t \in Times
BY UserManagementAssumption DEF Times

(* userExpiry returns instants of the range.                               *)
LEMMA UserExpiryType ==
    ASSUME NEW p, NEW t
    PROVE  UserExpiry(p, t) \subseteq {Never} \cup Times
BY DEF UserExpiry

(* What UserService.Update saves is a row of the same rank and name, and a *)
(* super administrator's stays as active as it was.                        *)
LEMMA UpdatedRowType ==
    ASSUME now \in 0 .. MaxTime,
           NEW row \in Row,
           NEW p \in {"yes", "no", "unset"},
           NEW t \in {Unset} \cup (0 .. MaxTime),
           NEW s \in {"active", "disabled", "other", "unset"},
           NEW new \in UpdatedRow(row, p, t, s)
    PROVE  /\ new \in Row /\ new.super = row.super /\ new.live = row.live
           /\ Protected(row) => Protected(new)
<1>. DEFINE Extend(i) == IF s = "active" /\ ~row.super /\ (i = Never \/ i <= now)
                         THEN now + Year ELSE i
            Refused(i) == \/ s \notin {"unset", "active", "disabled"}
                          \/ s = "disabled" /\ row.super
                          \/ i # Never /\ i <= now /\ s # "disabled"
            Status == IF s = "unset" THEN row.status ELSE s
<1>1. PICK i \in UpdatedExpiry(row, p, t) :
          ~Refused(Extend(i)) /\ new = [row EXCEPT !.expires = Extend(i), !.status = Status]
    BY DEF UpdatedRow
<1>2. i \in {Never} \cup Times
    <2>1. CASE p = "unset" /\ t # Unset
        <3>1. i = t /\ t \in 0 .. MaxTime
            BY <2>1, <1>1 DEF UpdatedExpiry
        <3>. QED
            BY <3>1, RequestedExpiry
    <2>2. CASE p = "unset" /\ t = Unset
        BY <2>2, <1>1 DEF UpdatedExpiry, Row
    <2>3. CASE p = "yes"
        BY <2>3, <1>1 DEF UpdatedExpiry
    <2>4. CASE p = "no"
        BY <2>4, <1>1, UserExpiryType DEF UpdatedExpiry
    <2>. QED
        BY <2>1, <2>2, <2>3, <2>4
<1>3. Extend(i) \in {Never} \cup Times
    BY <1>2, DefaultExpiry
<1>4. s \in {"unset", "active", "disabled"} /\ (s = "disabled" => ~row.super)
    BY <1>1
<1>5. Status \in {"active", "disabled"} /\ (row.super => Status \in {row.status, "active"})
    BY <1>4 DEF Row
<1>. HIDE DEF Extend, Status, Refused
<1>6. new = [row EXCEPT !.expires = Extend(i), !.status = Status]
    BY <1>1
<1>7. /\ new \in Row /\ new.super = row.super /\ new.live = row.live /\ new.status = Status
    BY <1>3, <1>5, <1>6 DEF Row
<1>. QED
    BY <1>5, <1>7 DEF Protected

-----------------------------------------------------------------------------
(* A request that starts holding rows of the right rank, and deletes no    *)
(* super administrator, keeps the invariant.                               *)
LEMMA BeginStep ==
    ASSUME IInv, NEW e \in Editors, NEW new \in Request, Begin(e, new),
           \A s \in new.save : s.row.super = users[s.user].super /\ Protected(s.row),
           new.pc = "delete" => \A u \in new.user : ~users[u].super
    PROVE  IInv'
<1>1. /\ edit' = [edit EXCEPT ![e] = new]
      /\ now' = now /\ users' = users /\ bound' = bound
    BY DEF Begin
<1>2. started' \in 0 .. MaxRequests
    BY UserManagementAssumption DEF Begin, IInv, TypeOK
<1>3. TypeOK'
    BY <1>1, <1>2 DEF IInv, TypeOK, Request
<1>4. \A f \in Editors : edit'[f] = IF f = e THEN new ELSE edit[f]
    BY <1>1 DEF IInv, TypeOK
<1>5. SameRank'
    BY <1>1, <1>4 DEF IInv, SameRank
<1>6. NoSuperDeleted'
    BY <1>1, <1>4 DEF IInv, NoSuperDeleted
<1>7. UniqueLiveName' /\ RanksKept'
    BY <1>1 DEF IInv, UniqueLiveName, RanksKept, Live, Exists
<1>. QED
    BY <1>3, <1>5, <1>6, <1>7 DEF IInv

(* UserService.Create holds a new row that is no super administrator's.    *)
LEMMA BeginCreateStep ==
    ASSUME IInv, NEW e \in Editors, NEW n \in Names, NEW p \in BOOLEAN,
           NEW t \in {Unset} \cup (1 .. MaxTime), BeginCreate(e, n, p, t)
    PROVE  IInv'
<1>1. PICK u \in UserIds, x \in UserExpiry(p, t) :
          /\ Fresh(u)
          /\ Begin(e, Pending("create",
                     {[user |-> u, row |-> [name |-> n, status |-> "active", expires |-> x,
                                            super |-> FALSE, live |-> TRUE]]}, {u}))
    BY DEF BeginCreate
<1>. DEFINE row == [name |-> n, status |-> "active", expires |-> x,
                    super |-> FALSE, live |-> TRUE]
            new == Pending("create", {[user |-> u, row |-> row]}, {u})
<1>2. row \in Row
    BY UserExpiryType DEF Row
<1>3. row.super = FALSE /\ users[u].super = FALSE
    <2>1. users[u] = NoRow /\ NoRow.super = FALSE
        BY <1>1 DEF Fresh, Exists, NoRow
    <2>. QED
        BY <2>1, Zenon
<1>. HIDE DEF row
<1>4. new \in Request
    BY <1>2 DEF Request, Saves, Pending
<1>5. new.pc = "create" /\ new.save = {[user |-> u, row |-> row]}
    BY DEF Pending
<1>6. Begin(e, new)
    BY <1>1 DEF row
<1>. HIDE DEF new
<1>7. \A s \in new.save : s.row.super = users[s.user].super /\ Protected(s.row)
    <2>. TAKE s \in new.save
    <2>1. s.user = u /\ s.row = row
        BY <1>5
    <2>2. s.row.super = FALSE /\ users[s.user].super = FALSE
        BY <1>3, <2>1, Zenon
    <2>. QED
        BY <2>2, Zenon DEF Protected
<1>. QED
    BY <1>4, <1>5, <1>6, <1>7, BeginStep

(* UserService.Update holds a row of the same rank.                        *)
LEMMA BeginUpdateStep ==
    ASSUME IInv, NEW e \in Editors, NEW u \in UserIds, NEW p \in {"yes", "no", "unset"},
           NEW t \in {Unset} \cup (0 .. MaxTime),
           NEW s \in {"active", "disabled", "other", "unset"},
           BeginUpdate(e, u, p, t, s)
    PROVE  IInv'
<1>1. PICK row \in UpdatedRow(users[u], p, t, s) :
          Begin(e, Pending("save", {[user |-> u, row |-> row]}, {u}))
    BY DEF BeginUpdate
<1>2. users[u] \in Row /\ now \in 0 .. MaxTime /\ Protected(users[u])
    BY DEF IInv, TypeOK, BeginUpdate, Live, Exists, RanksKept
<1>3. row \in Row /\ row.super = users[u].super /\ Protected(row)
    BY <1>2, UpdatedRowType
<1>. DEFINE new == Pending("save", {[user |-> u, row |-> row]}, {u})
<1>4. new \in Request
    BY <1>3 DEF Request, Saves, Pending
<1>5. new.pc = "save" /\ new.save = {[user |-> u, row |-> row]}
    BY DEF Pending
<1>6. Begin(e, new)
    BY <1>1
<1>. HIDE DEF new
<1>7. \A z \in new.save : z.row.super = users[z.user].super /\ Protected(z.row)
    BY <1>3, <1>5
<1>. QED
    BY <1>4, <1>5, <1>6, <1>7, BeginStep

(* List and Get hold rows of expired users that are no super               *)
(* administrators.                                                         *)
LEMMA BeginReadStep ==
    ASSUME IInv, NEW e \in Editors, NEW read \in SUBSET UserIds, BeginRead(e, read)
    PROVE  IInv'
<1>. DEFINE Disabled(u) == [users[u] EXCEPT !.status = "disabled"]
            rows == {[user |-> u, row |-> Disabled(u)] : u \in ReadExpired(read)}
            new == Pending("save", rows, ReadExpired(read))
<1>1. Begin(e, new)
    BY DEF BeginRead
<1>2. \A u \in ReadExpired(read) : u \in UserIds /\ users[u] \in Row /\ ~users[u].super
    BY DEF ReadExpired, BeginRead, Live, Exists, IInv, TypeOK
<1>3. \A u \in ReadExpired(read) : /\ Disabled(u) \in Row
                                   /\ Disabled(u).super = users[u].super
    BY <1>2 DEF Row
<1>. HIDE DEF Disabled
<1>4. rows \in SUBSET Saves
    BY <1>2, <1>3 DEF Saves
<1>5. \A s \in rows : s.row.super = users[s.user].super /\ ~s.row.super
    BY <1>2, <1>3
<1>. HIDE DEF rows
<1>6. new \in Request
    BY <1>2, <1>4 DEF Request, Pending
<1>7. new.pc = "save" /\ new.save = rows
    BY DEF Pending
<1>. HIDE DEF new
<1>8. \A s \in new.save : s.row.super = users[s.user].super /\ Protected(s.row)
    BY <1>5, <1>7 DEF Protected
<1>. QED
    BY <1>1, <1>6, <1>7, <1>8, BeginStep

(* Delete, CreateUserRole and DeleteUserRole hold no row.                  *)
LEMMA BeginOtherStep ==
    ASSUME IInv, NEW e \in Editors, NEW u \in UserIds,
           BeginDelete(e, u) \/ BeginBind(e, u) \/ BeginUnbind(e, u)
    PROVE  IInv'
<1>1. PICK pc \in {"delete", "bind", "unbind"} :
          Begin(e, Pending(pc, {}, {u})) /\ (pc = "delete" => ~users[u].super)
    BY DEF BeginDelete, BeginBind, BeginUnbind
<1>. DEFINE new == Pending(pc, {}, {u})
<1>2. new \in Request
    BY DEF Request, Pending
<1>3. new.pc = pc /\ new.save = {} /\ new.user = {u}
    BY DEF Pending
<1>4. Begin(e, new)
    BY <1>1
<1>. HIDE DEF new
<1>. QED
    BY <1>1, <1>2, <1>3, <1>4, BeginStep
-----------------------------------------------------------------------------
(* A write that leaves every row's rank and keeps super administrators     *)
(* active, while requests only drop what they hold.                        *)
LEMMA WriteStep ==
    ASSUME IInv, TypeOK', UniqueLiveName',
           \A u \in UserIds : users'[u].super = users[u].super /\ Protected(users'[u]),
           \A f \in Editors : /\ edit'[f].save \subseteq edit[f].save
                              /\ edit'[f].pc = "delete" =>
                                    edit[f].pc = "delete" /\ edit'[f].user = edit[f].user
    PROVE  IInv'
<1>1. SameRank'
    <2>. SUFFICES ASSUME NEW f \in Editors, NEW s \in edit'[f].save
                  PROVE  s.row.super = users'[s.user].super /\ Protected(s.row)
        BY DEF SameRank, Protected
    <2>1. s \in edit[f].save /\ s.user \in UserIds
        BY DEF IInv, TypeOK, Saves
    <2>. QED
        BY <2>1 DEF IInv, SameRank
<1>2. RanksKept'
    BY DEF IInv, RanksKept, Protected
<1>3. NoSuperDeleted'
    <2>. SUFFICES ASSUME NEW f \in Editors, edit'[f].pc = "delete", NEW u \in edit'[f].user
                  PROVE  ~users'[u].super
        BY DEF NoSuperDeleted
    <2>1. edit[f].pc = "delete" /\ u \in edit[f].user /\ u \in UserIds
        BY DEF IInv, TypeOK
    <2>. QED
        BY <2>1 DEF IInv, NoSuperDeleted
<1>. QED
    BY <1>1, <1>2, <1>3 DEF IInv

(* Writing a held row, when its name is free, keeps names unique and       *)
(* ranks as they are.                                                      *)
LEMMA SaveRow ==
    ASSUME IInv, NEW e \in Editors, NEW s \in edit[e].save,
           users' = IF NameFree(s.row.name, s.user) THEN [users EXCEPT ![s.user] = s.row]
                                                    ELSE users
    PROVE  /\ users' \in [UserIds -> Row \cup {NoRow}]
           /\ UniqueLiveName'
           /\ \A u \in UserIds : users'[u].super = users[u].super /\ Protected(users'[u])
<1>1. s.user \in UserIds /\ s.row \in Row /\ users \in [UserIds -> Row \cup {NoRow}]
    BY DEF IInv, TypeOK, Saves
<1>2. s.row.super = users[s.user].super /\ Protected(s.row)
    BY DEF IInv, SameRank
<1>3. \A u \in UserIds : Protected(users[u])
    BY DEF IInv, RanksKept
<1>4. CASE users' = users
    BY <1>4, <1>1, <1>3 DEF IInv, UniqueLiveName, Live, Exists
<1>5. CASE NameFree(s.row.name, s.user)
    <2>1. users' = [users EXCEPT ![s.user] = s.row]
        BY <1>5
    <2>2. \A u \in UserIds : users'[u] = IF u = s.user THEN s.row ELSE users[u]
        BY <2>1, <1>1
    <2>3. UniqueLiveName'
        BY <1>5, <2>2 DEF IInv, UniqueLiveName, NameFree, Live, Exists
    <2>. QED
        BY <1>1, <1>2, <1>3, <2>1, <2>2, <2>3
<1>. QED
    BY <1>4, <1>5

(* The INSERT of CreateUser and the save of UpdateUser.                    *)
LEMMA SaveStep ==
    ASSUME IInv, NEW e \in Editors, CreateUser(e) \/ UpdateUser(e)
    PROVE  IInv'
<1>1. PICK s \in edit[e].save :
          /\ users' = IF NameFree(s.row.name, s.user) THEN [users EXCEPT ![s.user] = s.row]
                                                      ELSE users
          /\ edit' \in {[edit EXCEPT ![e] = Idle],
                        [edit EXCEPT ![e] = [edit[e] EXCEPT !.save = @ \ {s}]]}
          /\ edit[e].pc # "delete"
          /\ now' = now /\ bound' = bound /\ started' = started
    BY DEF CreateUser, UpdateUser
<1>2. edit \in [Editors -> Request]
    BY DEF IInv, TypeOK, Request
<1>3. Idle \in Request /\ Idle.save = {} /\ Idle.pc = "idle"
    BY DEF Request, Idle
<1>4. PICK new \in Request : /\ edit' = [edit EXCEPT ![e] = new]
                             /\ new.save \subseteq edit[e].save /\ new.pc # "delete"
    <2>1. CASE edit' = [edit EXCEPT ![e] = Idle]
        BY <2>1, <1>3
    <2>2. CASE edit' = [edit EXCEPT ![e] = [edit[e] EXCEPT !.save = @ \ {s}]]
        <3>1. /\ [edit[e] EXCEPT !.save = @ \ {s}] \in Request
              /\ [edit[e] EXCEPT !.save = @ \ {s}].save \subseteq edit[e].save
              /\ [edit[e] EXCEPT !.save = @ \ {s}].pc = edit[e].pc
            BY <1>2 DEF Request
        <3>. QED
            BY <1>1, <2>2, <3>1
    <2>. QED
        BY <1>1, <2>1, <2>2
<1>5. edit' \in [Editors -> Request]
    BY <1>2, <1>4
<1>6. \A f \in Editors : edit'[f] = IF f = e THEN new ELSE edit[f]
    BY <1>2, <1>4
<1>7. users' \in [UserIds -> Row \cup {NoRow}] /\ UniqueLiveName'
      /\ \A u \in UserIds : users'[u].super = users[u].super /\ Protected(users'[u])
    BY <1>1, SaveRow
<1>8. TypeOK'
    BY <1>1, <1>5, <1>7 DEF IInv, TypeOK, Request
<1>. QED
    BY <1>4, <1>6, <1>7, <1>8, WriteStep
(* DeleteUser soft-deletes a row that is no super administrator's.         *)
LEMMA DeleteStep ==
    ASSUME IInv, NEW e \in Editors, DeleteUser(e)
    PROVE  IInv'
<1>. DEFINE Deleted(u) == IF users[u].live
                          THEN [users[u] EXCEPT !.live = FALSE, !.status = "disabled"]
                          ELSE users[u]
<1>1. PICK u \in edit[e].user :
          /\ bound' = bound \ {u}
          /\ users' = [users EXCEPT ![u] = Deleted(u)]
          /\ edit' = [f \in Editors |->
                         IF f = e THEN Idle
                         ELSE IF u \in edit[f].user THEN [edit[f] EXCEPT !.overlap = TRUE]
                         ELSE edit[f]]
          /\ now' = now /\ started' = started
    BY DEF DeleteUser
<1>2. /\ edit \in [Editors -> Request]
      /\ users \in [UserIds -> Row \cup {NoRow}]
      /\ u \in UserIds
    BY DEF IInv, TypeOK, Request
<1>3. ~users[u].super
    BY DEF IInv, NoSuperDeleted, DeleteUser
<1>4. /\ Deleted(u) \in Row \cup {NoRow}
      /\ Deleted(u).super = users[u].super
      /\ Deleted(u).name = users[u].name
      /\ ~Deleted(u).live
    <2>1. CASE users[u] \in Row
        BY <2>1 DEF Row
    <2>2. CASE users[u] = NoRow
        BY <2>2 DEF NoRow
    <2>. QED
        BY <1>2, <2>1, <2>2
<1>. HIDE DEF Deleted
<1>5. \A v \in UserIds : users'[v] = IF v = u THEN Deleted(u) ELSE users[v]
    BY <1>1, <1>2
<1>6. UniqueLiveName'
    BY <1>4, <1>5 DEF IInv, UniqueLiveName, Live, Exists
<1>7. \A v \in UserIds : users'[v].super = users[v].super /\ Protected(users'[v])
    BY <1>3, <1>4, <1>5 DEF IInv, RanksKept, Protected
<1>8. /\ Idle \in Request /\ Idle.save = {} /\ Idle.pc = "idle"
      /\ \A f \in Editors : LET marked == [edit[f] EXCEPT !.overlap = TRUE]
                            IN  /\ marked \in Request /\ marked.save = edit[f].save
                                /\ marked.pc = edit[f].pc /\ marked.user = edit[f].user
    BY <1>2 DEF Request, Idle
<1>9. \A f \in Editors : /\ edit'[f] \in Request
                         /\ edit'[f].save \subseteq edit[f].save
                         /\ edit'[f].pc = "delete" =>
                               edit[f].pc = "delete" /\ edit'[f].user = edit[f].user
    BY <1>1, <1>2, <1>8
<1>10. TypeOK'
    <2>1. users' \in [UserIds -> Row \cup {NoRow}]
        BY <1>1, <1>2, <1>4
    <2>2. edit' \in [Editors -> Request]
        BY <1>1, <1>9
    <2>. QED
        BY <1>1, <2>1, <2>2 DEF IInv, TypeOK, Request
<1>. QED
    BY <1>6, <1>7, <1>9, <1>10, WriteStep

(* Role bindings, abandoned requests and the clock leave the users alone.  *)
LEMMA OtherStep ==
    ASSUME IInv,
           Tick \/ UNCHANGED vars \/ \E e \in Editors : WriteBinding(e) \/ Abandon(e)
    PROVE  IInv'
<1>1. Idle \in Request /\ Idle.save = {} /\ Idle.pc = "idle" /\ edit \in [Editors -> Request]
    BY DEF Request, Idle, IInv, TypeOK
<1>2. users' = users /\ started' = started /\ now' \in 0 .. MaxTime
    BY UserManagementAssumption DEF Tick, WriteBinding, Abandon, vars, IInv, TypeOK
<1>3. bound' \in SUBSET UserIds
    BY DEF Tick, WriteBinding, Abandon, vars, IInv, TypeOK
<1>4. edit' = edit \/ \E e \in Editors : edit' = [edit EXCEPT ![e] = Idle]
    BY DEF Tick, WriteBinding, Abandon, vars
<1>5. /\ edit' \in [Editors -> Request]
      /\ \A f \in Editors : edit'[f] \in {edit[f], Idle}
    BY <1>1, <1>4
<1>6. TypeOK'
    BY <1>2, <1>3, <1>5 DEF IInv, TypeOK, Request
<1>7. UniqueLiveName' /\ \A u \in UserIds : Protected(users'[u])
    BY <1>2 DEF IInv, UniqueLiveName, Live, Exists, RanksKept, Protected
<1>. QED
    BY <1>1, <1>2, <1>5, <1>6, <1>7, WriteStep
(* The first set-up has left one super administrator and one user.         *)
LEMMA InvInit == Init => IInv
<1>. SUFFICES ASSUME Init PROVE IInv
    OBVIOUS
<1>1. PICK admin, u \in UserIds, n, m \in Names, t \in {Never, 1} :
          /\ admin # u /\ n # m
          /\ users = [v \in UserIds |->
                CASE v = admin -> [name |-> n, status |-> "active", expires |-> Never,
                                   super |-> TRUE, live |-> TRUE]
                  [] v = u -> [name |-> m, status |-> "active", expires |-> t,
                               super |-> FALSE, live |-> TRUE]
                  [] OTHER -> NoRow]
          /\ bound \in SUBSET {u}
    BY DEF Init
<1>. DEFINE first == [name |-> n, status |-> "active", expires |-> Never,
                      super |-> TRUE, live |-> TRUE]
            second == [name |-> m, status |-> "active", expires |-> t,
                       super |-> FALSE, live |-> TRUE]
<1>2. t \in {Never} \cup Times
    BY UserManagementAssumption DEF Times
<1>3. first \in Row /\ second \in Row
    BY <1>2 DEF Row
<1>4. /\ first.name = n /\ first.status = "active" /\ first.super = TRUE /\ first.live = TRUE
      /\ second.name = m /\ second.super = FALSE
      /\ NoRow.super = FALSE /\ NoRow.live = FALSE
    BY DEF NoRow
<1>5. \A v \in UserIds : users[v] = IF v = admin THEN first ELSE IF v = u THEN second ELSE NoRow
    BY <1>1
<1>. HIDE DEF first, second
<1>6. users \in [UserIds -> Row \cup {NoRow}]
    <2>1. users = [v \in UserIds |-> users[v]]
        BY <1>1
    <2>2. \A v \in UserIds : users[v] \in Row \cup {NoRow}
        BY <1>3, <1>5
    <2>. QED
        BY <2>1, <2>2
<1>7. \A e \in Editors : edit[e] = Idle /\ edit[e].save = {} /\ edit[e].pc = "idle"
    BY DEF Init, Idle
<1>8. edit \in [Editors -> Request]
    BY DEF Init, Idle, Request
<1>9. TypeOK
    <2>1. 0 \in 0 .. MaxTime /\ 0 \in 0 .. MaxRequests
        BY UserManagementAssumption
    <2>2. bound \in SUBSET UserIds
        BY <1>1
    <2>. QED
        BY <1>6, <1>8, <2>1, <2>2 DEF Init, TypeOK, Request
<1>10. UniqueLiveName
    BY <1>1, <1>4, <1>5 DEF UniqueLiveName, Live, Exists
<1>11. RanksKept
    <2>1. \A v \in UserIds : Protected(users[v])
        BY <1>4, <1>5, Zenon DEF Protected
    <2>2. users[admin].super
        BY <1>4, <1>5, Zenon
    <2>. QED
        BY <2>1, <2>2 DEF RanksKept
<1>12. SameRank /\ NoSuperDeleted
    BY <1>7 DEF SameRank, NoSuperDeleted
<1>. QED
    BY <1>9, <1>10, <1>11, <1>12 DEF IInv

(* Every step keeps the inductive invariant.                               *)
LEMMA InvStep == IInv /\ [Next]_vars => IInv'
<1>. SUFFICES ASSUME IInv, [Next]_vars PROVE IInv'
    OBVIOUS
<1>1. ASSUME NEW e \in Editors, BeginRequest(e) PROVE IInv'
    <2>1. ASSUME NEW n \in Names, NEW p \in BOOLEAN, NEW t \in {Unset} \cup (1 .. MaxTime),
                 BeginCreate(e, n, p, t)
          PROVE  IInv'
        BY <2>1, BeginCreateStep
    <2>2. ASSUME NEW u \in UserIds, NEW p \in {"yes", "no", "unset"},
                 NEW t \in {Unset} \cup (0 .. MaxTime),
                 NEW s \in {"active", "disabled", "other", "unset"},
                 BeginUpdate(e, u, p, t, s)
          PROVE  IInv'
        BY <2>2, BeginUpdateStep
    <2>3. ASSUME NEW u \in UserIds, BeginDelete(e, u) \/ BeginBind(e, u) \/ BeginUnbind(e, u)
          PROVE  IInv'
        BY <2>3, BeginOtherStep
    <2>4. ASSUME NEW read \in SUBSET UserIds, BeginRead(e, read) PROVE IInv'
        BY <2>4, BeginReadStep
    <2>. QED
        BY <1>1, <2>1, <2>2, <2>3, <2>4 DEF BeginRequest
<1>2. ASSUME NEW e \in Editors, CreateUser(e) \/ UpdateUser(e) PROVE IInv'
    BY <1>2, SaveStep
<1>3. ASSUME NEW e \in Editors, DeleteUser(e) PROVE IInv'
    BY <1>3, DeleteStep
<1>4. ASSUME Tick \/ UNCHANGED vars \/ \E e \in Editors : WriteBinding(e) \/ Abandon(e)
      PROVE  IInv'
    BY <1>4, OtherStep
<1>. QED
    BY <1>1, <1>2, <1>3, <1>4 DEF Next

(* Active users never share a name and the super administrator stays, for  *)
(* any number of requests that read rows, wait and save them late          *)
(* (UpdateUser, DeleteUser and disableExpiredUser).                        *)
THEOREM UsersSafe == Spec => [](TypeOK /\ DirectorySafe)
<1>1. IInv => TypeOK /\ DirectorySafe
    <2>. SUFFICES ASSUME IInv PROVE SuperAdminStays
        BY DEF IInv, DirectorySafe
    <2>1. PICK u \in UserIds : users[u].super
        BY DEF IInv, RanksKept
    <2>2. users[u].live /\ users[u].status = "active"
        BY <2>1 DEF IInv, RanksKept, Protected
    <2>3. users[u] # NoRow
        BY <2>2 DEF NoRow
    <2>. QED
        BY <2>1, <2>2, <2>3 DEF SuperAdminStays, Live, Exists
<1>. QED
    BY InvInit, InvStep, <1>1, PTL DEF Spec

-----------------------------------------------------------------------------
(* A row is held for a user of the request that was active when it was     *)
(* read; the user still is, or the deletion left its mark.                 *)
Fits(r) ==
    \A s \in r.save :
        /\ s.user \in r.user /\ s.row.live
        /\ r.pc = "save" => Exists(s.user) /\ (Live(s.user) \/ r.overlap)

(* An identifier that is being created is nobody else's.                   *)
CreatesFresh(e) ==
    edit[e].pc = "create" =>
        \A u \in edit[e].user : ~Exists(u) /\ \A f \in Editors \ {e} : u \notin edit[f].user

HeldRows == \A e \in Editors : Fits(edit[e]) /\ CreatesFresh(e)

(* The new request fits the directory it has just read.                    *)
LEMMA BeginHeld ==
    ASSUME IInv, HeldRows, NEW e \in Editors, NEW new \in Request, Begin(e, new), Fits(new),
           new.pc = "create" => \A u \in new.user : Fresh(u),
           new.pc # "create" => \A u \in new.user : Exists(u)
    PROVE  HeldRows'
<1>1. edit' = [edit EXCEPT ![e] = new] /\ users' = users
    BY DEF Begin
<1>2. \A f \in Editors : edit'[f] = IF f = e THEN new ELSE edit[f]
    BY <1>1 DEF IInv, TypeOK
<1>3. \A f \in Editors : Fits(edit[f])'
    BY <1>1, <1>2 DEF HeldRows, Fits, Live, Exists
<1>4. ASSUME NEW f \in Editors PROVE CreatesFresh(f)'
    <2>1. CASE f = e
        BY <1>1, <1>2, <2>1 DEF CreatesFresh, Fresh, Exists
    <2>2. CASE f # e
        <3>1. edit[f].pc = "create" => \A u \in edit[f].user : u \notin new.user
            BY <2>2 DEF HeldRows, CreatesFresh, Fresh
        <3>. QED
            BY <1>1, <1>2, <2>2, <3>1 DEF HeldRows, CreatesFresh, Exists
    <2>. QED
        BY <2>1, <2>2
<1>. QED
    BY <1>3, <1>4 DEF HeldRows

(* A request that starts reads an active user, or takes a new identifier.  *)
LEMMA BeginRequestHeld ==
    ASSUME IInv, HeldRows, NEW e \in Editors, BeginRequest(e)
    PROVE  HeldRows'
<1>1. ASSUME NEW n \in Names, NEW p \in BOOLEAN, NEW t \in {Unset} \cup (1 .. MaxTime),
             BeginCreate(e, n, p, t)
      PROVE  HeldRows'
    <2>1. PICK u \in UserIds, x \in UserExpiry(p, t) :
              /\ Fresh(u)
              /\ Begin(e, Pending("create",
                         {[user |-> u, row |-> [name |-> n, status |-> "active", expires |-> x,
                                                super |-> FALSE, live |-> TRUE]]}, {u}))
        BY <1>1 DEF BeginCreate
    <2>. DEFINE row == [name |-> n, status |-> "active", expires |-> x,
                        super |-> FALSE, live |-> TRUE]
                new == Pending("create", {[user |-> u, row |-> row]}, {u})
    <2>2. row \in Row /\ row.live = TRUE
        BY UserExpiryType DEF Row
    <2>3. Begin(e, new)
        BY <2>1
    <2>. HIDE DEF row
    <2>4. /\ new \in Request /\ new.pc = "create" /\ new.user = {u}
          /\ new.save = {[user |-> u, row |-> row]}
        BY <2>2 DEF Request, Saves, Pending
    <2>. HIDE DEF new
    <2>5. Fits(new)
        BY <2>2, <2>4 DEF Fits
    <2>. QED
        BY <2>1, <2>3, <2>4, <2>5, BeginHeld
<1>2. ASSUME NEW u \in UserIds, NEW p \in {"yes", "no", "unset"},
             NEW t \in {Unset} \cup (0 .. MaxTime),
             NEW s \in {"active", "disabled", "other", "unset"},
             BeginUpdate(e, u, p, t, s)
      PROVE  HeldRows'
    <2>1. PICK row \in UpdatedRow(users[u], p, t, s) :
              Begin(e, Pending("save", {[user |-> u, row |-> row]}, {u}))
        BY <1>2 DEF BeginUpdate
    <2>2. users[u] \in Row /\ now \in 0 .. MaxTime /\ Live(u) /\ Exists(u)
        BY <1>2 DEF IInv, TypeOK, BeginUpdate, Live, Exists
    <2>3. row \in Row /\ row.live = users[u].live
        BY <2>2, UpdatedRowType
    <2>4. row.live
        BY <2>2, <2>3 DEF Live
    <2>. DEFINE new == Pending("save", {[user |-> u, row |-> row]}, {u})
    <2>5. /\ new \in Request /\ new.pc = "save" /\ new.user = {u}
          /\ new.save = {[user |-> u, row |-> row]}
        BY <2>3 DEF Request, Saves, Pending
    <2>6. Begin(e, new)
        BY <2>1
    <2>. HIDE DEF new
    <2>7. Fits(new)
        BY <2>2, <2>4, <2>5 DEF Fits
    <2>. QED
        BY <2>2, <2>5, <2>6, <2>7, BeginHeld
<1>3. ASSUME NEW u \in UserIds, BeginDelete(e, u) \/ BeginBind(e, u) \/ BeginUnbind(e, u)
      PROVE  HeldRows'
    <2>1. PICK pc \in {"delete", "bind", "unbind"} : Begin(e, Pending(pc, {}, {u})) /\ Exists(u)
        BY <1>3 DEF BeginDelete, BeginBind, BeginUnbind, Live
    <2>. DEFINE new == Pending(pc, {}, {u})
    <2>2. new \in Request /\ new.pc = pc /\ new.save = {} /\ new.user = {u} /\ Begin(e, new)
        BY <2>1 DEF Request, Pending
    <2>. HIDE DEF new
    <2>3. Fits(new)
        BY <2>2 DEF Fits
    <2>. QED
        BY <2>1, <2>2, <2>3, BeginHeld
<1>4. ASSUME NEW read \in SUBSET UserIds, BeginRead(e, read)
      PROVE  HeldRows'
    <2>. DEFINE Disabled(u) == [users[u] EXCEPT !.status = "disabled"]
                rows == {[user |-> u, row |-> Disabled(u)] : u \in ReadExpired(read)}
                new == Pending("save", rows, ReadExpired(read))
    <2>1. Begin(e, new)
        BY <1>4 DEF BeginRead
    <2>2. \A u \in ReadExpired(read) :
              u \in UserIds /\ users[u] \in Row /\ Live(u) /\ Exists(u) /\ users[u].live
        BY <1>4 DEF ReadExpired, BeginRead, Live, Exists, IInv, TypeOK
    <2>3. \A u \in ReadExpired(read) : Disabled(u) \in Row /\ Disabled(u).live = users[u].live
        BY <2>2 DEF Row
    <2>. HIDE DEF Disabled
    <2>4. /\ rows \in SUBSET Saves
          /\ \A s \in rows : s.user \in ReadExpired(read) /\ s.row = Disabled(s.user)
        BY <2>2, <2>3 DEF Saves
    <2>. HIDE DEF rows
    <2>5. new \in Request /\ new.pc = "save" /\ new.save = rows /\ new.user = ReadExpired(read)
        BY <2>2, <2>4 DEF Request, Pending
    <2>. HIDE DEF new
    <2>6. Fits(new)
        BY <2>2, <2>3, <2>4, <2>5 DEF Fits
    <2>. QED
        BY <2>1, <2>2, <2>5, <2>6, BeginHeld
<1>. QED
    BY <1>1, <1>2, <1>3, <1>4 DEF BeginRequest

(* Requests only drop what they hold, and no user they hold for a save is  *)
(* deleted without a mark.                                                 *)
LEMMA DropHeld ==
    ASSUME IInv, HeldRows,
           \A f \in Editors :
              /\ edit'[f].save \subseteq edit[f].save
              /\ edit'[f].save # {} => edit'[f].pc = edit[f].pc /\ edit'[f].user = edit[f].user
              /\ edit'[f].user \subseteq edit[f].user
              /\ edit'[f].pc \in {edit[f].pc, "idle"}
              /\ edit[f].overlap /\ edit'[f].save # {} => edit'[f].overlap,
           \A u \in UserIds :
              /\ Exists(u) => users'[u] # NoRow
              /\ Live(u) => \/ users'[u] # NoRow /\ users'[u].live
                            \/ \A f \in Editors : u \in edit'[f].user => edit'[f].overlap
              /\ users'[u] # NoRow => \/ Exists(u)
                                      \/ \A f \in Editors : edit'[f].pc = "create" => u \notin edit'[f].user
    PROVE  HeldRows'
<1>1. ASSUME NEW f \in Editors PROVE Fits(edit[f])'
    <2>. SUFFICES ASSUME NEW s \in edit'[f].save
                  PROVE  /\ s.user \in edit'[f].user /\ s.row.live
                         /\ edit'[f].pc = "save" =>
                               /\ users'[s.user] # NoRow
                               /\ users'[s.user].live \/ edit'[f].overlap
        BY DEF Fits, Live, Exists
    <2>1. s \in edit[f].save /\ s.user \in UserIds /\ s.user \in edit[f].user /\ s.row.live
        BY DEF HeldRows, Fits, IInv, TypeOK, Saves
    <2>2. edit'[f].pc = edit[f].pc /\ edit'[f].user = edit[f].user
        OBVIOUS
    <2>3. edit[f].pc = "save" => Exists(s.user) /\ (Live(s.user) \/ edit[f].overlap)
        BY <2>1 DEF HeldRows, Fits
    <2>. QED
        BY <2>1, <2>2, <2>3
<1>2. ASSUME NEW f \in Editors PROVE CreatesFresh(f)'
    <2>. SUFFICES ASSUME edit'[f].pc = "create", NEW u \in edit'[f].user
                  PROVE  /\ users'[u] = NoRow
                         /\ \A g \in Editors \ {f} : u \notin edit'[g].user
        BY DEF CreatesFresh, Exists
    <2>1. edit[f].pc = "create" /\ u \in edit[f].user
        OBVIOUS
    <2>2. u \in UserIds /\ ~Exists(u) /\ \A g \in Editors \ {f} : u \notin edit[g].user
        BY <2>1 DEF HeldRows, CreatesFresh, IInv, TypeOK
    <2>. QED
        BY <2>2
<1>. QED
    BY <1>1, <1>2 DEF HeldRows

(* The other steps keep the held rows as they should be, and only the save *)
(* of an overlapped request makes a deleted user active.                   *)
Revives(u) == Exists(u) /\ ~Live(u) /\ users'[u].live

Overlapped(u) == \E e \in Editors : edit[e].pc = "save" /\ edit[e].overlap /\ u \in edit[e].user

(* The INSERT of CreateUser and the save of UpdateUser.                    *)
LEMMA SaveHeld ==
    ASSUME IInv, HeldRows, NEW e \in Editors, CreateUser(e) \/ UpdateUser(e)
    PROVE  HeldRows' /\ \A u \in UserIds : Revives(u) => Overlapped(u)
<1>1. PICK s \in edit[e].save :
          /\ users' = IF NameFree(s.row.name, s.user) THEN [users EXCEPT ![s.user] = s.row]
                                                      ELSE users
          /\ \/ edit' = [edit EXCEPT ![e] = Idle]
             \/ edit' = [edit EXCEPT ![e] = [edit[e] EXCEPT !.save = @ \ {s}]]
                /\ edit[e].pc = "save"
          /\ edit[e].pc \in {"create", "save"}
    BY DEF CreateUser, UpdateUser
<1>2. /\ edit \in [Editors -> Request] /\ users \in [UserIds -> Row \cup {NoRow}]
      /\ s.user \in UserIds /\ s.row \in Row
    BY DEF IInv, TypeOK, Request, Saves
<1>3. s.row # NoRow /\ s.row.live /\ s.user \in edit[e].user
    BY <1>2 DEF Row, NoRow, HeldRows, Fits
<1>4. \A u \in UserIds : users'[u] = users[u] \/ (u = s.user /\ users'[u] = s.row)
    BY <1>1, <1>2
<1>5. PICK new \in Request :
          /\ edit' = [edit EXCEPT ![e] = new]
          /\ new.save \subseteq edit[e].save
          /\ new.save # {} => /\ new.pc = edit[e].pc /\ new.user = edit[e].user
                              /\ new.overlap = edit[e].overlap
          /\ new.user \subseteq edit[e].user
          /\ new.pc \in {edit[e].pc, "idle"} /\ new.pc # "create"
    <2>1. Idle \in Request /\ Idle.save = {} /\ Idle.pc = "idle" /\ Idle.user = {}
        BY DEF Request, Idle
    <2>2. CASE edit' = [edit EXCEPT ![e] = Idle]
        BY <2>1, <2>2
    <2>3. CASE edit' = [edit EXCEPT ![e] = [edit[e] EXCEPT !.save = @ \ {s}]] /\ edit[e].pc = "save"
        <3>. DEFINE new == [edit[e] EXCEPT !.save = @ \ {s}]
        <3>1. /\ new \in Request /\ new.save = edit[e].save \ {s} /\ new.pc = edit[e].pc
              /\ new.user = edit[e].user /\ new.overlap = edit[e].overlap
            BY <1>2 DEF Request
        <3>2. edit' = [edit EXCEPT ![e] = new]
            BY <2>3
        <3>. HIDE DEF new
        <3>. QED
            BY <2>3, <3>1, <3>2
    <2>. QED
        BY <1>1, <2>2, <2>3
<1>6. \A f \in Editors : edit'[f] = IF f = e THEN new ELSE edit[f]
    BY <1>2, <1>5
<1>7. ASSUME NEW u \in UserIds, users'[u] # users[u]
      PROVE  \/ Exists(u)
             \/ \A f \in Editors : edit'[f].pc = "create" => u \notin edit'[f].user
    <2>1. u = s.user
        BY <1>4, <1>7
    <2>2. CASE edit[e].pc = "save"
        BY <2>1, <2>2 DEF HeldRows, Fits
    <2>3. CASE edit[e].pc = "create"
        <3>1. \A f \in Editors \ {e} : u \notin edit[f].user
            BY <1>3, <2>1, <2>3 DEF HeldRows, CreatesFresh
        <3>. QED
            BY <1>5, <1>6, <3>1
    <2>. QED
        BY <1>1, <2>2, <2>3
<1>8. HeldRows'
    <2>1. \A f \in Editors :
              /\ edit'[f].save \subseteq edit[f].save
              /\ edit'[f].save # {} => edit'[f].pc = edit[f].pc /\ edit'[f].user = edit[f].user
              /\ edit'[f].user \subseteq edit[f].user
              /\ edit'[f].pc \in {edit[f].pc, "idle"}
              /\ edit[f].overlap /\ edit'[f].save # {} => edit'[f].overlap
        BY <1>5, <1>6
    <2>2. \A u \in UserIds :
              /\ Exists(u) => users'[u] # NoRow
              /\ Live(u) => users'[u] # NoRow /\ users'[u].live
              /\ users'[u] # NoRow => \/ Exists(u)
                                      \/ \A f \in Editors : edit'[f].pc = "create" => u \notin edit'[f].user
        BY <1>3, <1>4, <1>7 DEF Exists, Live
    <2>. QED
        BY <2>1, <2>2, DropHeld
<1>9. ASSUME NEW u \in UserIds, Revives(u) PROVE Overlapped(u)
    <2>1. u = s.user /\ Exists(u) /\ ~Live(u)
        BY <1>4, <1>9 DEF Revives, Live
    <2>2. edit[e].pc # "create"
        BY <1>3, <2>1 DEF HeldRows, CreatesFresh
    <2>3. edit[e].pc = "save" /\ edit[e].overlap
        BY <1>1, <2>1, <2>2 DEF HeldRows, Fits
    <2>. QED
        BY <1>3, <2>1, <2>3 DEF Overlapped
<1>. QED
    BY <1>8, <1>9

(* DeleteUser marks every request that holds the row.                      *)
LEMMA DeleteHeld ==
    ASSUME IInv, HeldRows, NEW e \in Editors, DeleteUser(e)
    PROVE  HeldRows' /\ \A u \in UserIds : ~Revives(u)
<1>. DEFINE Deleted(u) == IF users[u].live
                          THEN [users[u] EXCEPT !.live = FALSE, !.status = "disabled"]
                          ELSE users[u]
<1>1. PICK u \in edit[e].user :
          /\ users' = [users EXCEPT ![u] = Deleted(u)]
          /\ edit' = [f \in Editors |->
                         IF f = e THEN Idle
                         ELSE IF u \in edit[f].user THEN [edit[f] EXCEPT !.overlap = TRUE]
                         ELSE edit[f]]
    BY DEF DeleteUser
<1>2. /\ edit \in [Editors -> Request] /\ users \in [UserIds -> Row \cup {NoRow}]
      /\ u \in UserIds
    BY DEF IInv, TypeOK, Request
<1>3. /\ ~Deleted(u).live /\ (users[u] # NoRow <=> Deleted(u) # NoRow)
    <2>1. CASE users[u] \in Row
        <3>1. NoRow \notin Row
            BY DEF Row, NoRow
        <3>2. Deleted(u) \in Row /\ ~Deleted(u).live
            BY <2>1 DEF Row
        <3>. QED
            BY <2>1, <3>1, <3>2
    <2>2. CASE users[u] = NoRow
        BY <2>2 DEF NoRow
    <2>. QED
        BY <1>2, <2>1, <2>2
<1>. HIDE DEF Deleted
<1>4. \A v \in UserIds : users'[v] = IF v = u THEN Deleted(u) ELSE users[v]
    BY <1>1, <1>2
<1>5. /\ Idle \in Request /\ Idle.save = {} /\ Idle.pc = "idle" /\ Idle.user = {}
    BY DEF Request, Idle
<1>6. \A f \in Editors : LET marked == [edit[f] EXCEPT !.overlap = TRUE]
                         IN  /\ marked.save = edit[f].save /\ marked.pc = edit[f].pc
                             /\ marked.user = edit[f].user /\ marked.overlap = TRUE
    BY <1>2 DEF Request
<1>7. \A f \in Editors :
          /\ edit'[f].save \subseteq edit[f].save
          /\ edit'[f].save # {} => edit'[f].pc = edit[f].pc /\ edit'[f].user = edit[f].user
          /\ edit'[f].user \subseteq edit[f].user
          /\ edit'[f].pc \in {edit[f].pc, "idle"}
          /\ edit[f].overlap /\ edit'[f].save # {} => edit'[f].overlap
          /\ u \in edit'[f].user => edit'[f].overlap
    BY <1>1, <1>5, <1>6
<1>8. \A v \in UserIds :
          /\ Exists(v) => users'[v] # NoRow
          /\ Live(v) => \/ users'[v] # NoRow /\ users'[v].live
                        \/ \A f \in Editors : v \in edit'[f].user => edit'[f].overlap
          /\ users'[v] # NoRow => Exists(v)
    BY <1>3, <1>4, <1>7 DEF Exists, Live
<1>9. HeldRows'
    BY <1>7, <1>8, DropHeld
<1>10. \A v \in UserIds : ~Revives(v)
    BY <1>3, <1>4 DEF Revives, Live
<1>. QED
    BY <1>9, <1>10

(* Role bindings, abandoned requests and the clock revive nobody.          *)
LEMMA OtherHeld ==
    ASSUME IInv, HeldRows,
           Tick \/ UNCHANGED vars \/ \E e \in Editors : WriteBinding(e) \/ Abandon(e)
    PROVE  HeldRows'
<1>1. Idle.save = {} /\ Idle.pc = "idle" /\ Idle.user = {}
    BY DEF Idle
<1>2. users' = users /\ \A f \in Editors : edit'[f] = edit[f] \/ edit'[f] = Idle
    BY DEF Tick, vars, WriteBinding, Abandon, IInv, TypeOK
<1>3. \A f \in Editors :
          /\ edit'[f].save \subseteq edit[f].save
          /\ edit'[f].save # {} => edit'[f].pc = edit[f].pc /\ edit'[f].user = edit[f].user
          /\ edit'[f].user \subseteq edit[f].user
          /\ edit'[f].pc \in {edit[f].pc, "idle"}
          /\ edit[f].overlap /\ edit'[f].save # {} => edit'[f].overlap
    BY <1>1, <1>2
<1>4. \A u \in UserIds : /\ Exists(u) => users'[u] # NoRow
                         /\ Live(u) => users'[u] # NoRow /\ users'[u].live
                         /\ users'[u] # NoRow => Exists(u)
    BY <1>2 DEF Exists, Live
<1>. QED
    BY <1>3, <1>4, DropHeld

(* Every step keeps HeldRows and revives a user only as it should.         *)
LEMMA HeldStep ==
    ASSUME IInv, HeldRows, [Next]_vars
    PROVE  HeldRows' /\ \A u \in UserIds : Revives(u) => Overlapped(u)
<1>1. ASSUME NEW e \in Editors, BeginRequest(e)
      PROVE  HeldRows' /\ users' = users
    <2>1. users' = users
        BY <1>1 DEF BeginRequest, BeginCreate, BeginUpdate, BeginDelete, BeginBind, BeginUnbind,
                    BeginRead, Begin
    <2>. QED
        BY <1>1, <2>1, BeginRequestHeld
<1>2. ASSUME Tick \/ UNCHANGED vars \/ \E e \in Editors : WriteBinding(e) \/ Abandon(e)
      PROVE  HeldRows' /\ users' = users
    <2>1. users' = users
        BY <1>2 DEF Tick, vars, WriteBinding, Abandon
    <2>. QED
        BY <1>2, <2>1, OtherHeld
<1>3. ASSUME NEW u \in UserIds, users' = users PROVE ~Revives(u)
    BY <1>3 DEF Revives, Live
<1>4. ASSUME NEW e \in Editors, CreateUser(e) \/ UpdateUser(e) \/ DeleteUser(e)
      PROVE  HeldRows' /\ \A u \in UserIds : Revives(u) => Overlapped(u)
    BY <1>4, SaveHeld, DeleteHeld
<1>. QED
    BY <1>1, <1>2, <1>3, <1>4 DEF Next

(***************************************************************************)
(* Saving a user with every column can undo a deletion, but only a save of *)
(* a row read before the deletion committed: whoever starts afterwards     *)
(* does not find the user (UserService.Update, Get and List over           *)
(* UpdateUser, DeleteUser and CreateUser of the store).                    *)
(***************************************************************************)
THEOREM RevivalCorrect == Spec => OnlyOverlappingSaveRevives
<1>1. Init => HeldRows
    <2>1. Init => \A e \in Editors : edit[e] = Idle
        BY DEF Init
    <2>2. Idle.save = {} /\ Idle.pc = "idle"
        BY DEF Idle
    <2>. QED
        BY <2>1, <2>2 DEF HeldRows, Fits, CreatesFresh
<1>2. IInv /\ HeldRows /\ [Next]_vars => HeldRows'
    BY HeldStep
<1>3. IInv /\ HeldRows /\ [Next]_vars =>
         [\A u \in UserIds : (Exists(u) /\ ~Live(u) /\ users'[u].live) =>
             \E e \in Editors : /\ edit[e].pc = "save" /\ edit[e].overlap
                                /\ u \in edit[e].user]_vars
    BY HeldStep DEF Revives, Overlapped
<1>. QED
    BY <1>1, <1>2, <1>3, InvInit, InvStep, PTL DEF Spec, OnlyOverlappingSaveRevives

-----------------------------------------------------------------------------
(***************************************************************************)
(* AccessControl: every way of asking gives one answer, and a renamed      *)
(* resource group takes its members' access along.                         *)
(***************************************************************************)
(* What the two decisions rely on.                                         *)
LiveNamed == \A g \in ResGroups : rgroup[g].live => rgroup[g].name # Access!NoName
PermsDecide == \A p \in Perms : perm[p].row.effect \in {"allow", "deny"}

(* What loadBatchFacts holds for a resource it was asked for.              *)
LEMMA FactsHeld ==
    ASSUME NEW xs, NEW x \in xs
    PROVE  /\ x \in Access!LoadBatchFacts(xs).active <=> Access!ActiveResourceExists(x)
           /\ Access!LoadBatchFacts(xs).permissionOf[x] =
                 IF Access!ActiveResourceExists(x) /\ KindOf[x] # "container_endpoint"
                   THEN res[Access!HolderOf(x)].group ELSE Access!NoName
           /\ Access!LoadBatchFacts(xs).resourceOf[x] =
                 IF Access!ActiveResourceExists(x) /\ KindOf[x] # "platform_account"
                   THEN res[Access!HolderOf(x)].group ELSE Access!NoName
           /\ Access!LoadBatchFacts(xs).accountOf[x] =
                 IF /\ Access!ActiveResourceExists(x)
                    /\ KindOf[x] \in Access!AccountKinds \cup {"platform_account"}
                   THEN res[x].group ELSE Access!NoName
           /\ Access!LoadBatchFacts(xs).parentOf[x] =
                 IF Access!ActiveResourceExists(x) /\ KindOf[x] \in Access!AccountKinds
                   THEN ParentOf[x] ELSE Access!NoName
BY DEF Access!LoadBatchFacts

(* A permission row matches a resource the same way in both decisions.     *)
LEMMA PermissionMatchAgrees ==
    ASSUME LiveNamed, NEW xs, NEW x \in xs, NEW w, Access!ActiveResourceExists(x)
    PROVE  Access!BatchPermissionMatches(w, x, Access!LoadBatchFacts(xs))
              <=> Access!ResourceMatches(w, x)
<1> DEFINE f == Access!LoadBatchFacts(xs)
<1>1. /\ x \in f.active
      /\ f.permissionOf[x] = IF KindOf[x] # "container_endpoint"
                               THEN res[Access!HolderOf(x)].group ELSE Access!NoName
  BY FactsHeld
<1> HIDE DEF f
<1>2. Access!BatchPermissionMatches(w, x, f) <=> Access!ResourceMatches(w, x)
  BY <1>1 DEF LiveNamed, Access!BatchPermissionMatches, Access!ResourceMatches,
              Access!PermissionGroupContains
<1> QED  BY <1>2 DEF f

(* So does a grant.                                                        *)
LEMMA GrantMatchAgrees ==
    ASSUME LiveNamed, NEW xs, NEW x \in xs, NEW w, Access!ActiveResourceExists(x)
    PROVE  Access!BatchGrantMatches(w, x, Access!LoadBatchFacts(xs))
              <=> Access!MatchesGrant(w, x)
<1> DEFINE f == Access!LoadBatchFacts(xs)
<1>1. /\ x \in f.active
      /\ f.resourceOf[x] = IF KindOf[x] # "platform_account"
                             THEN res[Access!HolderOf(x)].group ELSE Access!NoName
      /\ f.accountOf[x] = IF KindOf[x] \in Access!AccountKinds \cup {"platform_account"}
                            THEN res[x].group ELSE Access!NoName
      /\ f.parentOf[x] = IF KindOf[x] \in Access!AccountKinds THEN ParentOf[x] ELSE Access!NoName
  BY FactsHeld
<1> HIDE DEF f
<1>2. Access!GroupMatches(w.id, "resource", f.resourceOf[x]) /\ KindOf[x] # "platform_account"
         <=> w.id \in ResGroups /\ Access!GrantGroupContains(w.id, x, "resource")
  BY <1>1 DEF LiveNamed, Access!GroupMatches, Access!GrantGroupContains
<1>3. Access!GroupMatches(w.id, "account", f.accountOf[x])
         <=> w.id \in ResGroups /\ Access!GrantGroupContains(w.id, x, "account")
  BY <1>1 DEF LiveNamed, Access!GroupMatches, Access!GrantGroupContains
<1>4. KindOf[x] \in {"host_account", "database_account"} => f.parentOf[x] = ParentOf[x]
  BY <1>1 DEF Access!AccountKinds
<1>5. Access!BatchGrantMatches(w, x, f) <=> Access!MatchesGrant(w, x)
  BY <1>1, <1>2, <1>3, <1>4 DEF Access!BatchGrantMatches, Access!MatchesGrant
<1> QED  BY <1>5 DEF f

(* The grants decide alike on an active resource.                          *)
LEMMA GrantAgrees ==
    ASSUME LiveNamed, NEW xs, NEW x \in xs, NEW u, Access!ActiveResourceExists(x)
    PROVE  Access!BatchGrant(u, x, Access!LoadBatchFacts(xs)) <=> Access!HasGrant(u, x)
BY GrantMatchAgrees DEF Access!BatchGrant, Access!HasGrant

(* An action is globally allowed in both decisions or in neither, and one  *)
(* that is can only be denied by a row about resources.                    *)
LEMMA ActionAgrees ==
    ASSUME LiveNamed, NEW xs, NEW x \in xs, NEW u, NEW as
    PROVE  LET d == Access!BatchActionDecision(u, as, x, Access!LoadBatchFacts(xs))
               global == {a \in as : Access!HasPermission(u, a)}
           IN  /\ d.actionAllowed <=> global # {}
               /\ d.allowed <=> /\ Access!ActiveResourceExists(x)
                                /\ \E a \in global : ~Access!HasDeny(u, a, x)
<1> DEFINE f == Access!LoadBatchFacts(xs)
           rows == Access!PermissionsForUser(u)
           glob(a) == {w \in rows : Access!ActionMatches(w.action, a) /\ Access!IsActionOnly(w)}
           allowed == {a \in as : /\ \E w \in glob(a) : w.effect = "allow"
                                  /\ \A w \in glob(a) : w.effect # "deny"}
           denied(a) == \E w \in rows : /\ Access!ActionMatches(w.action, a)
                                        /\ ~Access!IsActionOnly(w)
                                        /\ w.effect = "deny"
                                        /\ Access!BatchPermissionMatches(w, x, f)
           d == Access!BatchActionDecision(u, as, x, f)
<1>1. x \in f.active <=> Access!ActiveResourceExists(x)
  BY FactsHeld
<1>2. /\ d.actionAllowed <=> allowed # {}
      /\ d.allowed <=> x \in f.active /\ \E a \in allowed : ~denied(a)
  BY DEF Access!BatchActionDecision
<1>3. allowed = {a \in as : Access!HasPermission(u, a)}
  <2>1. ASSUME NEW a PROVE Access!HasPermission(u, a) <=>
               (/\ \E w \in glob(a) : w.effect = "allow"
                /\ \A w \in glob(a) : w.effect # "deny")
    BY DEF Access!HasPermission
  <2> QED  BY <2>1
<1>4. ASSUME NEW a \in allowed, Access!ActiveResourceExists(x)
      PROVE  denied(a) <=> Access!HasDeny(u, a, x)
  <2>1. \A w : Access!BatchPermissionMatches(w, x, f) <=> Access!ResourceMatches(w, x)
    BY <1>4, PermissionMatchAgrees
  <2> HIDE DEF f
  <2>2. \A w \in rows : Access!ActionMatches(w.action, a) /\ Access!IsActionOnly(w)
                           => w.effect # "deny"
    OBVIOUS
  <2> HIDE DEF rows, allowed
  <2>3. Access!HasDeny(u, a, x) <=>
           \E w \in rows : /\ w.effect = "deny" /\ Access!ActionMatches(w.action, a)
                           /\ Access!IsActionOnly(w) \/ Access!ResourceMatches(w, x)
    BY <1>4 DEF Access!HasDeny, rows
  <2> QED  BY <2>1, <2>2, <2>3
<1> HIDE DEF d, allowed, denied
<1>5. d.allowed <=> Access!ActiveResourceExists(x) /\ \E a \in allowed : ~Access!HasDeny(u, a, x)
  BY <1>1, <1>2, <1>4
<1> QED  BY <1>2, <1>3, <1>5 DEF d

(* AuthorizeBatch answers for each resource what Authorize answers.        *)
LEMMA BatchIsSingle ==
    ASSUME LiveNamed, NEW xs, NEW x \in xs, NEW u, NEW as
    PROVE  Access!AuthorizeBatch(u, as, xs)[x] = Access!Authorize(u, as, x)
<1> DEFINE f == Access!LoadBatchFacts(xs)
           d == Access!BatchActionDecision(u, as, x, f)
           global == {a \in as : Access!HasPermission(u, a)}
           usable == {a \in global : ~Access!HasDeny(u, a, x)}
           known == Access!FindIdentitySubject(u)
<1>1. /\ d.actionAllowed <=> global # {}
      /\ d.allowed <=> Access!ActiveResourceExists(x) /\ usable # {}
  BY ActionAgrees
<1>2. Access!ActiveResourceExists(x) => (Access!BatchGrant(u, x, f) <=> Access!HasGrant(u, x))
  BY GrantAgrees
<1>3. ~Access!ActiveResourceExists(x) => ~Access!HasGrant(u, x)
  BY DEF Access!HasGrant
<1>4. Access!AuthorizeBatch(u, as, xs)[x] =
         CASE ~known -> "invalid_identity"
           [] known /\ u \in SuperAdmins -> "super_admin"
           [] known /\ u \notin SuperAdmins /\ ~d.actionAllowed -> "action_denied"
           [] known /\ u \notin SuperAdmins /\ d.actionAllowed
                /\ ~(d.allowed /\ Access!BatchGrant(u, x, f)) -> "resource_denied"
           [] OTHER -> "allowed"
  BY DEF Access!AuthorizeBatch
<1>5. Access!Authorize(u, as, x) =
         CASE ~known -> "invalid_identity"
           [] known /\ u \in SuperAdmins -> "super_admin"
           [] known /\ u \notin SuperAdmins /\ global = {} -> "action_denied"
           [] known /\ u \notin SuperAdmins /\ global # {} /\ usable = {} -> "resource_denied"
           [] OTHER -> IF Access!HasGrant(u, x) THEN "allowed" ELSE "resource_denied"
  BY DEF Access!Authorize
<1> HIDE DEF f, d, global, usable, known
<1>6. CASE ~known
  BY <1>4, <1>5, <1>6
<1>7. CASE known /\ u \in SuperAdmins
  BY <1>4, <1>5, <1>7
<1>8. CASE known /\ u \notin SuperAdmins /\ global = {}
  BY <1>1, <1>4, <1>5, <1>8
<1>9. CASE known /\ u \notin SuperAdmins /\ global # {} /\ usable = {}
  BY <1>1, <1>4, <1>5, <1>9
<1>10. CASE known /\ u \notin SuperAdmins /\ global # {} /\ usable # {}
  BY <1>1, <1>2, <1>3, <1>4, <1>5, <1>10
<1> QED  BY <1>6, <1>7, <1>8, <1>9, <1>10

(* Every permission a user holds allows or denies.                         *)
LEMMA HeldEffects ==
    ASSUME NEW u, PermsDecide, NEW w \in Access!PermissionsForUser(u)
    PROVE  w.effect \in {"allow", "deny"}
BY DEF PermsDecide, Access!PermissionsForUser

(* Where the clocks agree the console's query finds the action-only rows   *)
(* of a user with an active status that the checker's query finds, and     *)
(* none of another user.                                                   *)
LEMMA SameRows ==
    ASSUME NEW u, Access!ClocksAgree(u), NEW w
    PROVE  w \in Access!EffectiveGlobalPermissions(u) <=>
              /\ user[u] \in {"active", "expired"}
              /\ w \in Access!PermissionsForUser(u) /\ Access!IsActionOnly(w) /\ w.action # ""
<1>1. ASSUME NEW r \in Roles
      PROVE  <<<<u, r>>, "utc">> \in lapsed <=> <<<<u, r>>, "local">> \in lapsed
  BY <1>1 DEF Access!ClocksAgree
<1>2. user[u] \in {"active", "expired"} => Access!LiveUser(u)
  BY DEF Access!LiveUser
<1>3. ASSUME NEW p \in Perms
      PROVE  (\E r \in Roles : /\ <<r, p>> \in rolePerm /\ <<u, r>> \in userRole
                               /\ <<<<u, r>>, "local">> \notin lapsed
                               /\ role[r].live /\ role[r].status = "active")
             <=>
             (\E r \in Roles : /\ <<r, p>> \in rolePerm /\ <<u, r>> \in userRole
                               /\ <<<<u, r>>, "utc">> \notin lapsed
                               /\ role[r].live /\ role[r].status = "active")
  BY <1>1
<1> QED
  BY <1>2, <1>3 DEF Access!EffectiveGlobalPermissions, Access!PermissionsForUser

(* The actions the console shows a user with an active status are those    *)
(* his permissions allow.                                                  *)
LEMMA ShownIsAllowed ==
    ASSUME PermsDecide, NEW u, Access!ClocksAgree(u), user[u] \in {"active", "expired"},
           NEW a \in Actions
    PROVE  Access!HasPermission(u, a) <=> Access!EffectiveActions(u) \cap {a, "*"} # {}
<1> DEFINE held == Access!PermissionsForUser(u)
           rows == Access!EffectiveGlobalPermissions(u)
           denies == {w.action : w \in {v \in rows : v.effect = "deny"}}
           allows == {w.action : w \in {v \in rows : v.effect # "deny"}}
           shown == IF "*" \in denies THEN {}
                    ELSE IF "*" \in allows /\ denies = {} THEN {"*"}
                    ELSE ((IF "*" \in allows THEN Actions ELSE {}) \cup (allows \ {"*"})) \ denies
<1>1. Access!EffectiveActions(u) = shown
  BY DEF Access!EffectiveActions
<1>2. a # "" /\ a # "*" /\ "*" \notin Actions
  BY AccessAssumption
<1>3. Access!HasPermission(u, a) <=>
         /\ \A w \in held : Access!IsActionOnly(w) /\ w.action \in {a, "*"} => w.effect # "deny"
         /\ \E w \in held : Access!IsActionOnly(w) /\ w.action \in {a, "*"} /\ w.effect = "allow"
  BY DEF Access!HasPermission, Access!ActionMatches
<1>4. \A w \in held : w.effect = "allow" <=> w.effect # "deny"
  BY HeldEffects
<1>0. \A w : w \in rows <=> w \in held /\ Access!IsActionOnly(w) /\ w.action # ""
  BY SameRows
<1> HIDE DEF held, rows
<1>5. \A b \in {a, "*"} : b \in denies <=>
         \E w \in held : Access!IsActionOnly(w) /\ w.action = b /\ w.effect = "deny"
  BY <1>0, <1>2
<1>6. \A b \in {a, "*"} : b \in allows <=>
         \E w \in held : Access!IsActionOnly(w) /\ w.action = b /\ w.effect = "allow"
  BY <1>0, <1>2, <1>4
<1> HIDE DEF denies, allows
<1>7. Access!HasPermission(u, a) <=>
         /\ a \notin denies /\ "*" \notin denies
         /\ a \in allows \/ "*" \in allows
  BY <1>3, <1>5, <1>6
<1>8. shown \cap {a, "*"} # {} <=>
         /\ a \notin denies /\ "*" \notin denies
         /\ a \in allows \/ "*" \in allows
  BY <1>2
<1> QED  BY <1>1, <1>7, <1>8

(* A user with another status is shown nothing.                            *)
LEMMA OthersShownNothing ==
    ASSUME NEW u, Access!ClocksAgree(u), user[u] \notin {"active", "expired"}
    PROVE  Access!EffectiveActions(u) = {}
<1> DEFINE rows == Access!EffectiveGlobalPermissions(u)
<1>1. rows = {}
  BY SameRows
<1> HIDE DEF rows
<1> QED  BY <1>1 DEF Access!EffectiveActions, rows

(* What an ordinary user is shown and what is accepted from him.           *)
LEMMA ShownAndAccepted ==
    ASSUME PermsDecide, NEW u, u \notin SuperAdmins, Access!ClocksAgree(u), NEW a \in Actions
    PROVE  LET shown == Access!EffectiveActions(u) \cap {a, "*"} # {}
               accepted == Access!Allowed(Access!AuthorizeAction(u, {a}))
           IN  /\ accepted => shown
               /\ shown => accepted \/ user[u] = "expired"
<1>1. Access!FindIdentitySubject(u) <=> user[u] = "active"
  BY DEF Access!FindIdentitySubject
<1>2. CASE ~Access!FindIdentitySubject(u)
  <2>1. Access!AuthorizeAction(u, {a}) = "invalid_identity"
    BY <1>2 DEF Access!AuthorizeAction
  <2>2. CASE user[u] = "expired"
    BY <2>1, <2>2 DEF Access!Allowed
  <2>3. CASE user[u] # "expired"
    BY <1>1, <1>2, <2>1, <2>3, OthersShownNothing DEF Access!Allowed
  <2> QED  BY <2>2, <2>3
<1>3. CASE Access!FindIdentitySubject(u) /\ Access!HasPermission(u, a)
  <2>1. Access!AuthorizeAction(u, {a}) = "allowed"
    BY <1>3 DEF Access!AuthorizeAction
  <2> QED  BY <1>1, <1>3, <2>1, ShownIsAllowed DEF Access!Allowed
<1>4. CASE Access!FindIdentitySubject(u) /\ ~Access!HasPermission(u, a)
  <2>1. Access!AuthorizeAction(u, {a}) = "action_denied"
    BY <1>4 DEF Access!AuthorizeAction
  <2> QED  BY <1>1, <1>4, <2>1, ShownIsAllowed DEF Access!Allowed
<1> QED  BY <1>2, <1>3, <1>4

(* A parent is listed exactly when it can be opened.                       *)
LEMMA ListedIsVisible ==
    ASSUME LiveNamed, NEW u, NEW view, NEW accountView,
           NEW parents, NEW h \in parents
    PROVE  h \in Access!VisibleParents(u, parents, view, accountView)
              <=> Access!ParentVisible(u, h, view, accountView)
<1> DEFINE under == {x \in UNION {Access!ChildrenOf(g) : g \in parents} :
                        Access!ActiveResourceExists(x)}
           own == Access!AuthorizeBatch(u, {view}, parents)
           sub == Access!AuthorizeBatch(u, {accountView}, under)
<1>1. own[h] = Access!Authorize(u, {view}, h)
  BY BatchIsSingle
<1>2. \A x \in under : sub[x] = Access!Authorize(u, {accountView}, x)
  BY BatchIsSingle
<1>3. h \in Access!VisibleParents(u, parents, view, accountView) <=>
         \/ Access!Allowed(own[h])
         \/ \E x \in under : ParentOf[x] = h /\ Access!Allowed(sub[x])
  BY DEF Access!VisibleParents
<1>4. \A x : x \in under /\ ParentOf[x] = h <=>
             x \in Access!ChildrenOf(h) /\ Access!ActiveResourceExists(x)
  BY DEF Access!ChildrenOf
<1> HIDE DEF under, own, sub
<1> QED  BY <1>1, <1>2, <1>3, <1>4 DEF Access!ParentVisible

(* Every way of asking who may do what gives one answer.                   *)
LEMMA OneAnswer ==
    ASSUME LiveNamed, PermsDecide
    PROVE  Access!BatchAgrees /\ Access!ConsoleShowsWhatIsAllowed
<1>1. Access!BatchAgrees
  BY BatchIsSingle DEF Access!BatchAgrees
<1>2. Access!ConsoleShowsWhatIsAllowed
  BY ShownAndAccepted, ListedIsVisible DEF Access!ConsoleShowsWhatIsAllowed
<1> QED  BY <1>1, <1>2

(* A resource group that is live has a name and a type.                    *)
LiveGroup == [live : {TRUE}, name : GroupNames, type : {"resource", "account"}]
GroupRow == [live : BOOLEAN, name : GroupNames \cup {Access!NoName},
             type : {"none", "resource", "account"}]
PermRow == PermRows \cup {Access!NoPerm} \cup {Access!ActionAllow(a) : a \in Actions}
ResRow == [live : BOOLEAN, group : GroupNames \cup {Access!NoName}]

PermTable == perm \in [Perms -> [live : BOOLEAN, row : PermRow]]
GroupTable ==
    /\ rgroup \in [ResGroups -> GroupRow]
    /\ \A g \in ResGroups : rgroup[g].live => rgroup[g] \in LiveGroup
ResTable == res \in [Resources -> ResRow]

(* What a request carries to its write.                                    *)
RequestOK(r) ==
    /\ r.op \in {"createPermission", "updatePermission"} => r.id \in Perms /\ r.row \in PermRows
    /\ r.op = "replaceActions" => r.actions \subseteq Actions
    /\ r.op \in {"createResourceGroup", "updateResourceGroup", "deleteResourceGroup"} =>
          r.id \in ResGroups /\ r.row \in LiveGroup
    /\ r.op = "updateResourceGroup" => r.name \in GroupNames
RequestsOK == DOMAIN req = Editors /\ \A e \in Editors : RequestOK(req[e])

AccessInv == PermTable /\ GroupTable /\ ResTable /\ RequestsOK /\ Access!OnlyOverlapStrands

(* The rows of the permission table decide.                                *)
LEMMA RowsDecide == AccessInv => PermsDecide
<1>1. \A w \in PermRow : w.effect \in {"allow", "deny"}
  <2>1. \A w \in PermRows : w.effect \in {"allow", "deny"}
    BY AccessAssumption
  <2>2. Access!NoPerm.effect = "allow"
    BY DEF Access!NoPerm
  <2>3. \A a : Access!ActionAllow(a).effect = "allow"
    BY DEF Access!ActionAllow
  <2> QED  BY <2>1, <2>2, <2>3 DEF PermRow
<1> QED  BY <1>1 DEF AccessInv, PermTable, PermsDecide

(* Live groups have names.                                                 *)
LEMMA GroupsNamed == AccessInv => LiveNamed
BY AccessAssumption DEF AccessInv, GroupTable, LiveNamed, LiveGroup, Access!NoName

(* In a state of the invariant access is consistent.                       *)
LEMMA InvConsistent == AccessInv => AccessConsistent
BY RowsDecide, GroupsNamed, OneAnswer DEF AccessInv, AccessConsistent, Access!AccessConsistent

(* A new installation.                                                     *)
LEMMA AccessStart == Access!Init => AccessInv
<1> SUFFICES ASSUME Access!Init PROVE AccessInv
  OBVIOUS
<1> USE DEF Access!Init
<1>1. PermTable
  BY DEF PermTable, PermRow
<1>2. GroupTable
  BY DEF GroupTable, GroupRow, Access!NoGroup
<1>3. ResTable
  BY DEF ResTable, ResRow
<1>4. RequestsOK
  BY DEF RequestsOK, RequestOK, Access!Idle
<1>5. Access!OnlyOverlapStrands
  BY DEF Access!OnlyOverlapStrands, Access!Stranded
<1> QED  BY <1>1, <1>2, <1>3, <1>4, <1>5 DEF AccessInv

(* Beginning a request writes only the request.                            *)
LEMMA BeginKeeps ==
    ASSUME AccessInv, NEW e \in Editors, NEW r, RequestOK(r), Access!Begin(e, r)
    PROVE  AccessInv'
<1>1. UNCHANGED <<perm, rgroup, res, overlap>> /\ req' = [req EXCEPT ![e] = r]
  BY DEF Access!Begin, Access!tables
<1>2. RequestsOK'
  BY <1>1 DEF AccessInv, RequestsOK, RequestOK
<1>3. PermTable' /\ GroupTable' /\ ResTable'
  BY <1>1 DEF AccessInv, PermTable, GroupTable, ResTable
<1>4. Access!OnlyOverlapStrands'
  BY <1>1 DEF AccessInv, Access!OnlyOverlapStrands, Access!Stranded, Access!NameTaken
<1> QED  BY <1>2, <1>3, <1>4 DEF AccessInv

(* After its write the editor is idle.                                     *)
LEMMA WriteEnds ==
    ASSUME RequestsOK, NEW e \in Editors, NEW op, Access!Write(e, op)
    PROVE  RequestsOK'
BY DEF RequestsOK, RequestOK, Access!Write, Access!Idle

(* What leaves the tables of permissions, groups and resources alone.      *)
LEMMA TablesKept ==
    ASSUME AccessInv, UNCHANGED <<perm, rgroup, res, overlap>>, RequestsOK'
    PROVE  AccessInv'
BY DEF AccessInv, PermTable, GroupTable, ResTable,
       Access!OnlyOverlapStrands, Access!Stranded, Access!NameTaken

(* What leaves the groups and the resources alone.                         *)
LEMMA PermsWritten ==
    ASSUME AccessInv, UNCHANGED <<rgroup, res, overlap>>, RequestsOK', PermTable'
    PROVE  AccessInv'
BY DEF AccessInv, GroupTable, ResTable,
       Access!OnlyOverlapStrands, Access!Stranded, Access!NameTaken

(* The requests about roles and permissions begin with what they may hold. *)
LEMMA RoleBegins ==
    ASSUME AccessInv, NEW e \in Editors,
           \/ Access!BeginCreateRole(e) \/ Access!BeginUpdateRole(e) \/ Access!BeginDeleteRole(e)
           \/ Access!BeginCreatePermission(e) \/ Access!BeginUpdatePermission(e)
           \/ Access!BeginDeletePermission(e) \/ Access!BeginCreateUserRole(e)
           \/ Access!BeginDeleteUserRole(e) \/ Access!BeginCreateRolePermission(e)
           \/ Access!BeginDeleteRolePermission(e) \/ Access!BeginReplaceActions(e)
    PROVE  AccessInv'
<1>1. \E r : RequestOK(r) /\ Access!Begin(e, r)
  <2> USE DEF RequestOK
  <2>1. CASE Access!BeginCreateRole(e)
    BY <2>1 DEF Access!BeginCreateRole
  <2>2. CASE Access!BeginUpdateRole(e)
    BY <2>2 DEF Access!BeginUpdateRole
  <2>3. CASE Access!BeginDeleteRole(e)
    BY <2>3 DEF Access!BeginDeleteRole
  <2>4. CASE Access!BeginCreatePermission(e)
    BY <2>4 DEF Access!BeginCreatePermission
  <2>5. CASE Access!BeginUpdatePermission(e)
    BY <2>5 DEF Access!BeginUpdatePermission
  <2>6. CASE Access!BeginDeletePermission(e)
    BY <2>6 DEF Access!BeginDeletePermission
  <2>7. CASE Access!BeginCreateUserRole(e)
    BY <2>7 DEF Access!BeginCreateUserRole
  <2>8. CASE Access!BeginDeleteUserRole(e)
    BY <2>8 DEF Access!BeginDeleteUserRole
  <2>9. CASE Access!BeginCreateRolePermission(e)
    BY <2>9 DEF Access!BeginCreateRolePermission
  <2>10. CASE Access!BeginDeleteRolePermission(e)
    BY <2>10 DEF Access!BeginDeleteRolePermission
  <2>11. CASE Access!BeginReplaceActions(e)
    BY <2>11 DEF Access!BeginReplaceActions
  <2> QED
    BY <2>1, <2>2, <2>3, <2>4, <2>5, <2>6, <2>7, <2>8, <2>9, <2>10, <2>11
<1> QED  BY <1>1, BeginKeeps

(* So do those about groups and grants.                                    *)
LEMMA GrantBegins ==
    ASSUME AccessInv, NEW e \in Editors,
           \/ Access!BeginCreateUserGroup(e) \/ Access!BeginUpdateUserGroup(e)
           \/ Access!BeginDeleteUserGroup(e) \/ Access!BeginAddMember(e)
           \/ Access!BeginRemoveMember(e) \/ Access!BeginCreateResourceGroup(e)
           \/ Access!BeginUpdateResourceGroup(e) \/ Access!BeginDeleteResourceGroup(e)
           \/ Access!BeginGrant(e) \/ Access!BeginDeleteGrant(e)
    PROVE  AccessInv'
<1>1. \E r : RequestOK(r) /\ Access!Begin(e, r)
  <2> USE DEF RequestOK
  <2>0. \A g \in ResGroups : rgroup[g].live => rgroup[g] \in LiveGroup
    BY DEF AccessInv, GroupTable
  <2>1. CASE Access!BeginCreateUserGroup(e)
    BY <2>1 DEF Access!BeginCreateUserGroup
  <2>2. CASE Access!BeginUpdateUserGroup(e)
    BY <2>2 DEF Access!BeginUpdateUserGroup
  <2>3. CASE Access!BeginDeleteUserGroup(e)
    BY <2>3 DEF Access!BeginDeleteUserGroup
  <2>4. CASE Access!BeginAddMember(e)
    BY <2>4 DEF Access!BeginAddMember
  <2>5. CASE Access!BeginRemoveMember(e)
    BY <2>5 DEF Access!BeginRemoveMember
  <2>6. CASE Access!BeginCreateResourceGroup(e)
    BY <2>6 DEF Access!BeginCreateResourceGroup, LiveGroup
  <2>7. CASE Access!BeginUpdateResourceGroup(e)
    BY <2>0, <2>7 DEF Access!BeginUpdateResourceGroup
  <2>8. CASE Access!BeginDeleteResourceGroup(e)
    BY <2>0, <2>8 DEF Access!BeginDeleteResourceGroup
  <2>9. CASE Access!BeginGrant(e)
    BY <2>9 DEF Access!BeginGrant
  <2>10. CASE Access!BeginDeleteGrant(e)
    BY <2>10 DEF Access!BeginDeleteGrant
  <2> QED  BY <2>1, <2>2, <2>3, <2>4, <2>5, <2>6, <2>7, <2>8, <2>9, <2>10
<1> QED  BY <1>1, BeginKeeps

(* The writes that touch roles, bindings, user groups and grants only.     *)
LEMMA PlainWrites ==
    ASSUME AccessInv, NEW e \in Editors,
           \/ Access!CreateRole(e) \/ Access!UpdateRole(e) \/ Access!DeleteRole(e)
           \/ Access!CreateUserRole(e) \/ Access!DeleteUserRole(e)
           \/ Access!CreateRolePermission(e) \/ Access!DeleteRolePermission(e)
           \/ Access!CreateUserGroup(e) \/ Access!UpdateUserGroup(e)
           \/ Access!DeleteUserGroup(e) \/ Access!AddUserGroupMember(e)
           \/ Access!RemoveUserGroupMember(e) \/ Access!CreateResourceGrant(e)
           \/ Access!BatchUpsertGrants(e) \/ Access!EnsureResourceGrant(e)
           \/ Access!DeleteResourceGrant(e)
    PROVE  AccessInv'
<1>1. UNCHANGED <<perm, rgroup, res, overlap>> /\ \E op : Access!Write(e, op)
  BY DEF Access!CreateRole, Access!UpdateRole, Access!DeleteRole, Access!CreateUserRole,
         Access!DeleteUserRole, Access!CreateRolePermission, Access!DeleteRolePermission,
         Access!CreateUserGroup, Access!UpdateUserGroup, Access!DeleteUserGroup,
         Access!AddUserGroupMember, Access!RemoveUserGroupMember,
         Access!CreateResourceGrant, Access!BatchUpsertGrants, Access!EnsureResourceGrant,
         Access!DeleteResourceGrant
<1>2. RequestsOK'
  BY <1>1, WriteEnds DEF AccessInv
<1> QED  BY <1>1, <1>2, TablesKept

(* CreatePermission.                                                       *)
LEMMA CreatePermissionKeeps ==
    ASSUME AccessInv, NEW e \in Editors, Access!CreatePermission(e)
    PROVE  AccessInv'
<1>1. Access!Write(e, "createPermission") /\ UNCHANGED <<rgroup, res, overlap>>
  BY DEF Access!CreatePermission
<1>2. req[e].id \in Perms /\ req[e].row \in PermRow
  BY <1>1 DEF AccessInv, RequestsOK, RequestOK, Access!Write, PermRow
<1>3. PermTable'
  BY <1>2 DEF AccessInv, PermTable, Access!CreatePermission
<1> QED  BY <1>1, <1>3, WriteEnds, PermsWritten DEF AccessInv

(* UpdatePermission.                                                       *)
LEMMA UpdatePermissionKeeps ==
    ASSUME AccessInv, NEW e \in Editors, Access!UpdatePermission(e)
    PROVE  AccessInv'
<1>1. Access!Write(e, "updatePermission") /\ UNCHANGED <<rgroup, res, overlap>>
  BY DEF Access!UpdatePermission
<1>2. req[e].id \in Perms /\ req[e].row \in PermRow
  BY <1>1 DEF AccessInv, RequestsOK, RequestOK, Access!Write, PermRow
<1>3. PermTable'
  BY <1>2 DEF AccessInv, PermTable, Access!UpdatePermission
<1> QED  BY <1>1, <1>3, WriteEnds, PermsWritten DEF AccessInv

(* DeletePermission.                                                       *)
LEMMA DeletePermissionKeeps ==
    ASSUME AccessInv, NEW e \in Editors, Access!DeletePermission(e)
    PROVE  AccessInv'
<1>1. Access!Write(e, "deletePermission") /\ UNCHANGED <<rgroup, res, overlap>>
  BY DEF Access!DeletePermission
<1>2. PermTable'
  BY DEF AccessInv, PermTable, Access!DeletePermission
<1> QED  BY <1>1, <1>2, WriteEnds, PermsWritten DEF AccessInv

(* ReplaceRoleActions makes permissions of actions of the catalog only.    *)
LEMMA ReplaceRoleActionsKeeps ==
    ASSUME AccessInv, NEW e \in Editors, Access!ReplaceRoleActions(e)
    PROVE  AccessInv'
<1>1. Access!Write(e, "replaceActions") /\ UNCHANGED <<rgroup, res, overlap>>
  BY DEF Access!ReplaceRoleActions
<1>2. req[e].actions \subseteq Actions
  BY <1>1 DEF AccessInv, RequestsOK, RequestOK, Access!Write
<1>3. PermTable'
  <2> DEFINE free == {p \in Perms : perm[p].row = Access!NoPerm}
             as == req[e].actions
             New(f) == [p \in Perms |->
                          IF \E a \in as : f[a] = p /\ p \in free
                            THEN [live |-> TRUE,
                                  row |-> Access!ActionAllow(CHOOSE a \in as : f[a] = p)]
                            ELSE perm[p]]
  <2>1. perm' = perm \/ \E f \in [as -> Perms] : perm' = New(f)
    <3>1. CASE ~role[req[e].id].live
      BY <3>1 DEF Access!ReplaceRoleActions
    <3>2. CASE role[req[e].id].live
      BY <3>2, Zenon DEF Access!ReplaceRoleActions
    <3> QED  BY <3>1, <3>2
  <2>2. CASE perm' = perm
    BY <2>2 DEF AccessInv, PermTable
  <2>3. ASSUME NEW f, perm' = New(f)
        PROVE  PermTable'
    <3>1. ASSUME NEW p \in Perms, \E a \in as : f[a] = p
          PROVE  Access!ActionAllow(CHOOSE a \in as : f[a] = p) \in PermRow
      BY <1>2, <3>1 DEF PermRow
    <3>2. ASSUME NEW p \in Perms
          PROVE  New(f)[p] \in [live : BOOLEAN, row : PermRow]
      <4>1. CASE \E a \in as : f[a] = p /\ p \in free
        <5> DEFINE w == Access!ActionAllow(CHOOSE a \in as : f[a] = p)
        <5>1. w \in PermRow
          BY <3>1, <4>1
        <5>2. New(f)[p] = [live |-> TRUE, row |-> w]
          BY <4>1
        <5> HIDE DEF w, New
        <5> QED  BY <5>1, <5>2
      <4>2. CASE ~\E a \in as : f[a] = p /\ p \in free
        BY <4>2 DEF AccessInv, PermTable
      <4> QED  BY <4>1, <4>2
    <3> QED  BY <2>3, <3>2 DEF PermTable
  <2> QED  BY <2>1, <2>2, <2>3
<1> QED  BY <1>1, <1>3, WriteEnds, PermsWritten DEF AccessInv

(* The live group of the name and type that resource x asks for.           *)
GroupCalled(n, t) == [live |-> TRUE, name |-> n, type |-> t]
TypeFor(x) == Access!GroupTypeOf(KindOf[x])
Grouped ==
    \A x \in Resources : res[x].live /\ res[x].group # Access!NoName =>
        \E h \in ResGroups : rgroup[h] = GroupCalled(res[x].group, TypeFor(x))

(* Nothing is stranded exactly when every resource has its group.          *)
LEMMA StrandedIff == Access!OnlyOverlapStrands <=> (~overlap => Grouped)
BY AccessAssumption DEF Access!OnlyOverlapStrands, Access!Stranded, Access!NameTaken,
                        Access!NoName, Grouped, GroupCalled, TypeFor

(* The same after a step.                                                  *)
LEMMA StrandedIffNext == Access!OnlyOverlapStrands' <=> (~overlap' => Grouped')
BY AccessAssumption DEF Access!OnlyOverlapStrands, Access!Stranded, Access!NameTaken,
                        Access!NoName, Grouped, GroupCalled, TypeFor

(* What the steps on groups and resources have to show.                    *)
LEMMA GroupsWritten ==
    ASSUME AccessInv, UNCHANGED perm, RequestsOK', GroupTable', ResTable',
           ~overlap' => Grouped'
    PROVE  AccessInv'
<1>1. PermTable'
  BY DEF AccessInv, PermTable
<1> QED  BY <1>1, StrandedIffNext DEF AccessInv

(* A row of a name and a type is a live row.                               *)
LEMMA LiveRow ==
    ASSUME NEW n \in GroupNames, NEW t \in {"resource", "account"}
    PROVE  GroupCalled(n, t) \in LiveGroup
BY DEF GroupCalled, LiveGroup, GroupRow

(* A group row that is written live keeps the table.                       *)
LEMMA GroupTablePut ==
    ASSUME GroupTable, NEW g \in ResGroups, NEW row \in LiveGroup,
           rgroup' = [rgroup EXCEPT ![g] = row]
    PROVE  GroupTable'
<1>1. row \in GroupRow
  BY DEF LiveGroup, GroupRow
<1> QED  BY <1>1 DEF GroupTable

(* A free slot of the table is not a live group.                           *)
LEMMA LiveIsNotNoGroup == \A n, t : GroupCalled(n, t) # Access!NoGroup
<1>1. \A n, t : GroupCalled(n, t).live = TRUE
  BY DEF GroupCalled
<1>2. Access!NoGroup.live = FALSE
  BY DEF Access!NoGroup
<1> QED  BY <1>1, <1>2

(* CreateResourceGroup takes a row no resource relies on.                  *)
LEMMA CreateResourceGroupKeeps ==
    ASSUME AccessInv, NEW e \in Editors, Access!CreateResourceGroup(e)
    PROVE  AccessInv'
<1> DEFINE g == req[e].id
           row == req[e].row
<1>1. Access!Write(e, "createResourceGroup") /\ UNCHANGED <<perm, res, overlap>>
  BY DEF Access!CreateResourceGroup
<1>2. g \in ResGroups /\ row \in LiveGroup
  BY <1>1 DEF AccessInv, RequestsOK, RequestOK, Access!Write
<1>3. \/ rgroup' = rgroup
      \/ rgroup[g] = Access!NoGroup /\ rgroup' = [rgroup EXCEPT ![g] = row]
  BY DEF Access!CreateResourceGroup
<1> HIDE DEF g, row
<1>4. GroupTable'
  <2>1. CASE rgroup' = rgroup
    BY <2>1 DEF AccessInv, GroupTable
  <2>2. CASE rgroup' # rgroup
    BY <1>2, <1>3, <2>2, GroupTablePut DEF AccessInv
  <2> QED  BY <2>1, <2>2
<1>5. ResTable'
  BY <1>1 DEF AccessInv, ResTable
<1>6. ~overlap' => Grouped'
  <2> SUFFICES ASSUME ~overlap' PROVE Grouped'
    OBVIOUS
  <2>1. Grouped
    BY <1>1, StrandedIff DEF AccessInv
  <2>2. ASSUME NEW h \in ResGroups, NEW n, NEW t, rgroup[h] = GroupCalled(n, t)
        PROVE  rgroup'[h] = rgroup[h]
    BY <1>2, <1>3, <2>2, LiveIsNotNoGroup DEF AccessInv, GroupTable
  <2> QED  BY <1>1, <2>1, <2>2 DEF Grouped
<1> QED  BY <1>1, <1>4, <1>5, <1>6, WriteEnds, GroupsWritten DEF AccessInv

(* AssignGroup makes the group it names.                                   *)
LEMMA AssignGroupKeeps ==
    ASSUME AccessInv, NEW x \in Resources, Access!AssignGroup(x)
    PROVE  AccessInv'
<1>1. PICK n \in GroupNames \cup {Access!NoName} :
         /\ res' = [res EXCEPT ![x].group = n]
         /\ Access!EnsureGroupByType(n, TypeFor(x))
  BY DEF Access!AssignGroup, TypeFor
<1>2. UNCHANGED <<perm, req, overlap>>
  BY DEF Access!AssignGroup
<1>3. RequestsOK'
  BY <1>2 DEF AccessInv, RequestsOK, RequestOK
<1>4. ResTable'
  BY <1>1 DEF AccessInv, ResTable, ResRow
<1>5. TypeFor(x) \in {"resource", "account"}
  BY DEF TypeFor, Access!GroupTypeOf
<1>6. \/ /\ rgroup' = rgroup
         /\ n = Access!NoName \/ \E g \in ResGroups : rgroup[g] = GroupCalled(n, TypeFor(x))
      \/ /\ n \in GroupNames
         /\ \E g \in ResGroups : /\ rgroup[g] = Access!NoGroup
                                 /\ rgroup' = [rgroup EXCEPT ![g] = GroupCalled(n, TypeFor(x))]
  BY <1>1 DEF Access!EnsureGroupByType, GroupCalled
<1>7. GroupTable'
  <2>1. CASE rgroup' = rgroup
    BY <2>1 DEF AccessInv, GroupTable
  <2>2. CASE rgroup' # rgroup
    <3>1. PICK g \in ResGroups : rgroup' = [rgroup EXCEPT ![g] = GroupCalled(n, TypeFor(x))]
      BY <1>6, <2>2
    <3> QED  BY <1>5, <1>6, <2>2, <3>1, LiveRow, GroupTablePut DEF AccessInv
  <2> QED  BY <2>1, <2>2
<1>8. ~overlap' => Grouped'
  <2> SUFFICES ASSUME ~overlap' PROVE Grouped'
    OBVIOUS
  <2>1. Grouped
    BY <1>2, StrandedIff DEF AccessInv
  <2>2. ASSUME NEW h \in ResGroups, NEW m, NEW t, rgroup[h] = GroupCalled(m, t)
        PROVE  rgroup'[h] = rgroup[h]
    BY <1>6, <2>2, LiveIsNotNoGroup DEF AccessInv, GroupTable
  <2>3. n # Access!NoName => \E g \in ResGroups : rgroup'[g] = GroupCalled(n, TypeFor(x))
    BY <1>6 DEF AccessInv, GroupTable
  <2>4. ASSUME NEW y \in Resources, res'[y].live, res'[y].group # Access!NoName
        PROVE  \E h \in ResGroups : rgroup'[h] = GroupCalled(res'[y].group, TypeFor(y))
    <3>1. CASE y = x
      <4>1. res'[x].group = n
        BY <1>1 DEF AccessInv, ResTable, ResRow
      <4> QED  BY <2>3, <2>4, <3>1, <4>1
    <3>2. CASE y # x
      <4>1. res'[y] = res[y]
        BY <1>1, <3>2 DEF AccessInv, ResTable
      <4> QED  BY <2>1, <2>2, <2>4, <4>1 DEF Grouped
    <3> QED  BY <3>1, <3>2
  <2> QED  BY <2>4 DEF Grouped, GroupCalled, TypeFor
<1> QED  BY <1>2, <1>3, <1>4, <1>7, <1>8, GroupsWritten

(* DeleteResource.                                                         *)
LEMMA DeleteResourceKeeps ==
    ASSUME AccessInv, NEW x \in Resources, Access!DeleteResource(x)
    PROVE  AccessInv'
<1> DEFINE gone == {x} \cup Access!ChildrenOf(x)
<1>1. /\ UNCHANGED <<perm, rgroup, req, overlap>>
      /\ res' = [y \in Resources |-> IF y \in gone THEN [res[y] EXCEPT !.live = FALSE] ELSE res[y]]
  BY DEF Access!DeleteResource
<1> HIDE DEF gone
<1>2. RequestsOK' /\ GroupTable'
  BY <1>1 DEF AccessInv, RequestsOK, RequestOK, GroupTable
<1>3. ResTable' /\ \A y \in Resources : res'[y].live => res'[y] = res[y]
  BY <1>1 DEF AccessInv, ResTable, ResRow
<1>4. ~overlap' => Grouped'
  BY <1>1, <1>3, StrandedIff DEF AccessInv, Grouped
<1> QED  BY <1>1, <1>2, <1>3, <1>4, GroupsWritten

(* updateGroupedResourcesTx keeps the table of resources, and moves those  *)
(* that name the old group to the new name and no other.                   *)
LEMMA ResourcesMoved ==
    ASSUME ResTable, NEW t, NEW old, NEW new \in GroupNames \cup {Access!NoName},
           Access!UpdateGroupedResources(t, old, new)
    PROVE  /\ ResTable'
           /\ \A x \in Resources :
                 /\ res'[x].live = res[x].live
                 /\ res[x].live /\ TypeFor(x) = t /\ res[x].group = old => res'[x].group = new
                 /\ ~(res[x].live /\ TypeFor(x) = t /\ res[x].group = old) => res'[x] = res[x]
BY DEF ResTable, ResRow, Access!UpdateGroupedResources, TypeFor

(* The row that is saved: the one that was read, with the new name.        *)
LEMMA RenamedRow ==
    ASSUME NEW row \in LiveGroup, NEW n \in GroupNames
    PROVE  /\ [row EXCEPT !.name = n] \in LiveGroup
           /\ [row EXCEPT !.name = n] = GroupCalled(n, row.type)
           /\ row = GroupCalled(row.name, row.type)
<1>1. row = GroupCalled(row.name, row.type)
  BY DEF LiveGroup, GroupCalled
<1>2. [row EXCEPT !.name = n] \in LiveGroup
  BY DEF LiveGroup
<1>3. [row EXCEPT !.name = n].name = n /\ [row EXCEPT !.name = n].type = row.type
  BY DEF LiveGroup
<1>4. ASSUME NEW q \in LiveGroup PROVE q = GroupCalled(q.name, q.type)
  BY DEF LiveGroup, GroupCalled
<1> QED  BY <1>1, <1>2, <1>3, <1>4

(* UpdateResourceGroup from a row that is still the one in the table moves *)
(* the group and its resources together.                                   *)
LEMMA UpdateResourceGroupKeeps ==
    ASSUME AccessInv, NEW e \in Editors, Access!UpdateResourceGroup(e)
    PROVE  AccessInv'
<1> DEFINE g == req[e].id
           row == req[e].row
           name == req[e].name
           saved == [row EXCEPT !.name = name]
<1>1. Access!Write(e, "updateResourceGroup") /\ UNCHANGED perm
  BY DEF Access!UpdateResourceGroup
<1>2. g \in ResGroups /\ row \in LiveGroup /\ name \in GroupNames
  BY <1>1 DEF AccessInv, RequestsOK, RequestOK, Access!Write
<1>3. /\ overlap' = (overlap \/ rgroup[g] # row)
      /\ \/ UNCHANGED <<rgroup, res>>
         \/ /\ rgroup' = [rgroup EXCEPT ![g] = saved]
            /\ IF name # row.name
                 THEN Access!UpdateGroupedResources(row.type, row.name, name)
                 ELSE UNCHANGED res
  BY DEF Access!UpdateResourceGroup
<1>4. /\ saved \in LiveGroup /\ saved = GroupCalled(name, row.type)
      /\ row = GroupCalled(row.name, row.type)
  BY <1>2, RenamedRow
<1> HIDE DEF g, row, name, saved
<1>5. GroupTable'
  <2>1. CASE rgroup' = rgroup
    BY <2>1 DEF AccessInv, GroupTable
  <2>2. CASE rgroup' # rgroup
    BY <1>2, <1>3, <1>4, <2>2, GroupTablePut DEF AccessInv
  <2> QED  BY <2>1, <2>2
<1>6. ResTable'
  <2>1. CASE res' = res
    BY <2>1 DEF AccessInv, ResTable
  <2>2. CASE res' # res
    BY <1>2, <1>3, <2>2, ResourcesMoved DEF AccessInv
  <2> QED  BY <2>1, <2>2
<1>7. ~overlap' => Grouped'
  <2> SUFFICES ASSUME ~overlap' PROVE Grouped'
    OBVIOUS
  <2>1. ~overlap /\ rgroup[g] = row
    BY <1>3
  <2>2. Grouped
    BY <2>1, StrandedIff DEF AccessInv
  <2>3. CASE UNCHANGED <<rgroup, res>>
    BY <2>2, <2>3 DEF Grouped
  <2>4. CASE /\ rgroup' = [rgroup EXCEPT ![g] = saved]
             /\ name # row.name
             /\ Access!UpdateGroupedResources(row.type, row.name, name)
    <3>1. \A h \in ResGroups : h # g => rgroup'[h] = rgroup[h]
      BY <1>2, <2>4 DEF AccessInv, GroupTable
    <3>2. rgroup'[g] = GroupCalled(name, row.type)
      BY <1>2, <1>4, <2>4 DEF AccessInv, GroupTable
    <3>3. ASSUME NEW x \in Resources, res'[x].live, res'[x].group # Access!NoName
          PROVE  \E h \in ResGroups : rgroup'[h] = GroupCalled(res'[x].group, TypeFor(x))
      <4>1. /\ res[x].live
            /\ TypeFor(x) = row.type /\ res[x].group = row.name => res'[x].group = name
            /\ ~(TypeFor(x) = row.type /\ res[x].group = row.name) => res'[x] = res[x]
        BY <1>2, <2>4, <3>3, ResourcesMoved DEF AccessInv
      <4>2. CASE TypeFor(x) = row.type /\ res[x].group = row.name
        BY <1>2, <3>2, <4>1, <4>2
      <4>3. CASE ~(TypeFor(x) = row.type /\ res[x].group = row.name)
        <5>1. PICK h \in ResGroups : rgroup[h] = GroupCalled(res[x].group, TypeFor(x))
          BY <2>2, <3>3, <4>1, <4>3 DEF Grouped
        <5>2. h # g
          BY <1>4, <2>1, <4>3, <5>1 DEF GroupCalled
        <5> QED  BY <3>1, <4>1, <4>3, <5>1, <5>2
      <4> QED  BY <4>2, <4>3
    <3> QED  BY <3>3 DEF Grouped, GroupCalled, TypeFor
  <2>5. CASE rgroup' = [rgroup EXCEPT ![g] = saved] /\ name = row.name /\ UNCHANGED res
    <3>1. rgroup' = rgroup
      BY <1>2, <1>4, <2>1, <2>5 DEF AccessInv, GroupTable
    <3> QED  BY <2>2, <2>5, <3>1 DEF Grouped
  <2> QED  BY <1>3, <2>3, <2>4, <2>5
<1> QED  BY <1>1, <1>5, <1>6, <1>7, WriteEnds, GroupsWritten DEF AccessInv

(* DeleteResourceGroup from a row that is still the one in the table takes *)
(* the name off every resource that has it.                                *)
LEMMA DeleteResourceGroupKeeps ==
    ASSUME AccessInv, NEW e \in Editors, Access!DeleteResourceGroup(e)
    PROVE  AccessInv'
<1> DEFINE g == req[e].id
           row == req[e].row
<1>1. Access!Write(e, "deleteResourceGroup") /\ UNCHANGED perm
  BY DEF Access!DeleteResourceGroup
<1>2. g \in ResGroups /\ row \in LiveGroup
  BY <1>1 DEF AccessInv, RequestsOK, RequestOK, Access!Write
<1>3. /\ overlap' = (overlap \/ rgroup[g] # row)
      /\ Access!UpdateGroupedResources(row.type, row.name, Access!NoName)
      /\ rgroup' = [rgroup EXCEPT ![g].live = FALSE]
  BY DEF Access!DeleteResourceGroup
<1> HIDE DEF g, row
<1>4. GroupTable'
  BY <1>2, <1>3 DEF AccessInv, GroupTable, GroupRow, LiveGroup
<1>5. ResTable'
  BY <1>3, ResourcesMoved DEF AccessInv
<1>6. ~overlap' => Grouped'
  <2> SUFFICES ASSUME ~overlap' PROVE Grouped'
    OBVIOUS
  <2>1. ~overlap /\ rgroup[g] = row
    BY <1>3
  <2>2. Grouped
    BY <2>1, StrandedIff DEF AccessInv
  <2>3. row = GroupCalled(row.name, row.type)
    BY <1>2 DEF LiveGroup, GroupCalled
  <2>4. \A h \in ResGroups : h # g => rgroup'[h] = rgroup[h]
    BY <1>2, <1>3 DEF AccessInv, GroupTable
  <2>5. ASSUME NEW x \in Resources, res'[x].live, res'[x].group # Access!NoName
        PROVE  \E h \in ResGroups : rgroup'[h] = GroupCalled(res'[x].group, TypeFor(x))
    <3>1. /\ res[x].live /\ res'[x] = res[x]
          /\ ~(TypeFor(x) = row.type /\ res[x].group = row.name)
      BY <1>3, <2>5, ResourcesMoved DEF AccessInv
    <3>2. PICK h \in ResGroups : rgroup[h] = GroupCalled(res[x].group, TypeFor(x))
      BY <2>2, <2>5, <3>1 DEF Grouped
    <3>3. h # g
      BY <2>1, <2>3, <3>1, <3>2 DEF GroupCalled
    <3> QED  BY <2>4, <3>1, <3>2, <3>3
  <2> QED  BY <2>5 DEF Grouped, GroupCalled, TypeFor
<1> QED  BY <1>1, <1>4, <1>5, <1>6, WriteEnds, GroupsWritten DEF AccessInv

(* Every step.                                                             *)
LEMMA AccessStep ==
    ASSUME AccessInv, [Access!Next]_(Access!vars)
    PROVE  AccessInv'
<1>1. ASSUME NEW e \in Editors, Access!RoleRequests(e)
      PROVE  AccessInv'
  BY <1>1, RoleBegins, PlainWrites, CreatePermissionKeeps, UpdatePermissionKeeps,
     DeletePermissionKeeps, ReplaceRoleActionsKeeps
     DEF Access!RoleRequests, Access!HandleRBACRoles, Access!HandleRBACRole,
         Access!HandleRBACPermissions, Access!HandleRBACPermission,
         Access!HandleRBACUserRoles, Access!HandleRBACUserRole,
         Access!HandleRBACRolePermissions, Access!HandleRBACRolePermission,
         Access!HandleRBACRoleActions
<1>2. ASSUME NEW e \in Editors, Access!GrantRequests(e)
      PROVE  AccessInv'
  BY <1>2, GrantBegins, PlainWrites, CreateResourceGroupKeeps, UpdateResourceGroupKeeps,
     DeleteResourceGroupKeeps
     DEF Access!GrantRequests, Access!HandleUserGroups, Access!HandleUserGroupMembers,
         Access!HandleResourceGroups, Access!HandleResourceGrants
<1>3. ASSUME NEW x \in Resources, Access!AssignGroup(x) \/ Access!DeleteResource(x)
      PROVE  AccessInv'
  BY <1>3, AssignGroupKeeps, DeleteResourceKeeps
<1>4. ASSUME \/ Access!RoleBindingLapses \/ Access!GrantLapses \/ Access!UserChanges
             \/ UNCHANGED Access!vars
      PROVE  AccessInv'
  <2>1. UNCHANGED <<perm, rgroup, res, overlap, req>>
    BY <1>4 DEF Access!RoleBindingLapses, Access!GrantLapses, Access!UserChanges, Access!vars
  <2>2. RequestsOK'
    BY <2>1 DEF AccessInv, RequestsOK, RequestOK
  <2> QED  BY <2>1, <2>2, TablesKept
<1> QED  BY <1>1, <1>2, <1>3, <1>4 DEF Access!Next

(* Whatever the requests in progress do, the batch decision of the lists   *)
(* is the single decision of the requests, the console shows exactly what  *)
(* is allowed, and a live resource names a group that is gone only after a *)
(* group was written from a stale row: for any number of users, roles,     *)
(* groups, grants and resources.                                           *)
THEOREM AccessCorrect == Access!Spec => []AccessConsistent
<1>1. AccessInv /\ [Access!Next]_(Access!vars) => AccessInv'
  BY AccessStep
<1>2. AccessInv => AccessConsistent
  BY InvConsistent
<1> QED  BY AccessStart, <1>1, <1>2, PTL DEF Access!Spec

(* No two live groups of a type have one name (the unique index).          *)
UniqueGroups ==
    \A g, h \in ResGroups :
        /\ rgroup[g].live /\ rgroup[h].live
        /\ rgroup[g].name = rgroup[h].name /\ rgroup[g].type = rgroup[h].type
        => g = h

RenameInv == AccessInv /\ UniqueGroups

(* A row the index accepts keeps names unique.                             *)
LEMMA UniquePut ==
    ASSUME GroupTable, UniqueGroups, NEW g \in ResGroups, NEW row \in LiveGroup,
           ~Access!NameTaken(row.name, row.type, g),
           rgroup' = [rgroup EXCEPT ![g] = row]
    PROVE  UniqueGroups'
<1>1. \A h \in ResGroups : rgroup'[h] = IF h = g THEN row ELSE rgroup[h]
  BY DEF GroupTable
<1>2. ASSUME NEW h \in ResGroups, h # g, rgroup[h].live, rgroup[h].name = row.name,
             rgroup[h].type = row.type
      PROVE  FALSE
  <2>1. rgroup[h] \in LiveGroup
    BY <1>2 DEF GroupTable
  <2>2. rgroup[h] = [live |-> TRUE, name |-> row.name, type |-> row.type]
    BY <1>2, <2>1 DEF LiveGroup
  <2> QED  BY <1>2, <2>2 DEF Access!NameTaken
<1> QED  BY <1>1, <1>2 DEF UniqueGroups

(* Where no group is written names stay unique.                            *)
LEMMA UniqueKept ==
    ASSUME UniqueGroups, rgroup' = rgroup
    PROVE  UniqueGroups'
BY DEF UniqueGroups

(* The unique index holds whatever the requests overlap with.              *)
LEMMA UniqueStep ==
    ASSUME RenameInv, [Access!Next]_(Access!vars)
    PROVE  UniqueGroups'
<1>0. GroupTable /\ UniqueGroups
  BY DEF RenameInv, AccessInv
<1>1. ASSUME NEW e \in Editors, Access!RoleRequests(e)
      PROVE  rgroup' = rgroup
  BY <1>1 DEF Access!RoleRequests, Access!HandleRBACRoles, Access!HandleRBACRole,
         Access!HandleRBACPermissions, Access!HandleRBACPermission,
         Access!HandleRBACUserRoles, Access!HandleRBACUserRole,
         Access!HandleRBACRolePermissions, Access!HandleRBACRolePermission,
         Access!HandleRBACRoleActions, Access!BeginCreateRole, Access!BeginUpdateRole,
         Access!BeginDeleteRole, Access!BeginCreatePermission, Access!BeginUpdatePermission,
         Access!BeginDeletePermission, Access!BeginCreateUserRole,
         Access!BeginDeleteUserRole, Access!BeginCreateRolePermission,
         Access!BeginDeleteRolePermission, Access!BeginReplaceActions,
         Access!Begin, Access!tables,
         Access!CreateRole, Access!UpdateRole, Access!DeleteRole, Access!CreateUserRole,
         Access!DeleteUserRole, Access!CreateRolePermission, Access!DeleteRolePermission,
         Access!CreatePermission, Access!UpdatePermission, Access!DeletePermission,
         Access!ReplaceRoleActions
<1>2. ASSUME NEW e \in Editors, Access!HandleUserGroups(e) \/ Access!HandleUserGroupMembers(e)
                                \/ Access!HandleResourceGrants(e)
      PROVE  rgroup' = rgroup
  BY <1>2 DEF Access!HandleUserGroups, Access!HandleUserGroupMembers, Access!HandleResourceGrants,
         Access!BeginCreateUserGroup, Access!BeginUpdateUserGroup, Access!BeginDeleteUserGroup,
         Access!BeginAddMember, Access!BeginRemoveMember, Access!BeginGrant,
         Access!BeginDeleteGrant, Access!Begin, Access!tables,
         Access!CreateUserGroup, Access!UpdateUserGroup, Access!DeleteUserGroup,
         Access!AddUserGroupMember, Access!RemoveUserGroupMember,
         Access!CreateResourceGrant, Access!BatchUpsertGrants, Access!EnsureResourceGrant,
         Access!DeleteResourceGrant
<1>3. ASSUME NEW e \in Editors, Access!HandleResourceGroups(e)
      PROVE  UniqueGroups'
  <2>1. CASE Access!BeginCreateResourceGroup(e) \/ Access!BeginUpdateResourceGroup(e)
             \/ Access!BeginDeleteResourceGroup(e)
    <3>1. rgroup' = rgroup
      BY <2>1 DEF Access!BeginCreateResourceGroup, Access!BeginUpdateResourceGroup,
                  Access!BeginDeleteResourceGroup, Access!Begin, Access!tables
    <3> QED  BY <1>0, <3>1, UniqueKept
  <2>2. CASE Access!CreateResourceGroup(e)
    <3>1. req[e].id \in ResGroups /\ req[e].row \in LiveGroup
      BY <2>2 DEF RenameInv, AccessInv, RequestsOK, RequestOK, Access!CreateResourceGroup,
                  Access!Write
    <3>2. \/ rgroup' = rgroup
          \/ /\ ~Access!NameTaken(req[e].row.name, req[e].row.type, req[e].id)
             /\ rgroup' = [rgroup EXCEPT ![req[e].id] = req[e].row]
      BY <2>2 DEF Access!CreateResourceGroup
    <3> QED  BY <1>0, <3>1, <3>2, UniquePut, UniqueKept
  <2>3. CASE Access!UpdateResourceGroup(e)
    <3> DEFINE row == req[e].row
               name == req[e].name
               saved == [row EXCEPT !.name = name]
    <3>1. req[e].id \in ResGroups /\ row \in LiveGroup /\ name \in GroupNames
      BY <2>3 DEF RenameInv, AccessInv, RequestsOK, RequestOK, Access!UpdateResourceGroup,
                  Access!Write
    <3>2. \/ rgroup' = rgroup
          \/ /\ ~Access!NameTaken(name, row.type, req[e].id)
             /\ rgroup' = [rgroup EXCEPT ![req[e].id] = saved]
      BY <2>3 DEF Access!UpdateResourceGroup
    <3>3. saved \in LiveGroup /\ saved.name = name /\ saved.type = row.type
      BY <3>1 DEF LiveGroup
    <3> HIDE DEF saved, row, name
    <3> QED  BY <1>0, <3>1, <3>2, <3>3, UniquePut, UniqueKept
  <2>4. CASE Access!DeleteResourceGroup(e)
    <3>1. \A h \in ResGroups : rgroup'[h].live => rgroup'[h] = rgroup[h]
      BY <1>0, <2>4 DEF Access!DeleteResourceGroup, GroupTable, GroupRow
    <3> QED  BY <1>0, <3>1 DEF UniqueGroups
  <2> QED  BY <1>3, <2>1, <2>2, <2>3, <2>4 DEF Access!HandleResourceGroups
<1>4. ASSUME NEW x \in Resources, Access!AssignGroup(x)
      PROVE  UniqueGroups'
  <2>1. PICK n \in GroupNames \cup {Access!NoName} : Access!EnsureGroupByType(n, TypeFor(x))
    BY <1>4 DEF Access!AssignGroup, TypeFor
  <2>2. TypeFor(x) \in {"resource", "account"}
    BY DEF TypeFor, Access!GroupTypeOf
  <2>3. CASE rgroup' = rgroup
    BY <1>0, <2>3, UniqueKept
  <2>4. CASE rgroup' # rgroup
    <3>1. /\ n \in GroupNames
          /\ ~\E g \in ResGroups : rgroup[g] = GroupCalled(n, TypeFor(x))
          /\ \E g \in ResGroups : rgroup' = [rgroup EXCEPT ![g] = GroupCalled(n, TypeFor(x))]
      BY <2>1, <2>4 DEF Access!EnsureGroupByType, GroupCalled
    <3>2. PICK g \in ResGroups : rgroup' = [rgroup EXCEPT ![g] = GroupCalled(n, TypeFor(x))]
      BY <3>1
    <3>3. GroupCalled(n, TypeFor(x)) \in LiveGroup
      BY <2>2, <3>1, LiveRow
    <3>4. ~Access!NameTaken(n, TypeFor(x), g)
      BY <3>1 DEF Access!NameTaken, GroupCalled
    <3>5. GroupCalled(n, TypeFor(x)).name = n /\ GroupCalled(n, TypeFor(x)).type = TypeFor(x)
      BY DEF GroupCalled
    <3> QED  BY <1>0, <3>2, <3>3, <3>4, <3>5, UniquePut
  <2> QED  BY <2>3, <2>4
<1>5. ASSUME \/ \E x \in Resources : Access!DeleteResource(x)
             \/ Access!RoleBindingLapses \/ Access!GrantLapses \/ Access!UserChanges
             \/ UNCHANGED Access!vars
      PROVE  rgroup' = rgroup
  BY <1>5 DEF Access!DeleteResource, Access!RoleBindingLapses, Access!GrantLapses,
              Access!UserChanges, Access!vars
<1> QED
  BY <1>0, <1>1, <1>2, <1>3, <1>4, <1>5, UniqueKept DEF Access!Next, Access!GrantRequests

(* The one step that ends an update of a group is UpdateResourceGroup.     *)
LEMMA UpdateEnds ==
    ASSUME NEW e \in Editors, RequestsOK, Access!Next,
           req[e].op = "updateResourceGroup", req'[e] = Access!Idle
    PROVE  Access!UpdateResourceGroup(e)
<1>0. req[e] # Access!Idle
  BY DEF Access!Idle
<1>1. ASSUME NEW d \in Editors, NEW r, Access!Begin(d, r)
      PROVE  FALSE
  BY <1>0, <1>1 DEF Access!Begin, RequestsOK
<1>2. ASSUME NEW d \in Editors, NEW op, Access!Write(d, op), op # "updateResourceGroup"
      PROVE  FALSE
  BY <1>0, <1>2 DEF Access!Write, RequestsOK
<1>3. ASSUME req' = req
      PROVE  FALSE
  BY <1>0, <1>3
<1>4. ASSUME NEW d \in Editors, Access!RoleRequests(d)
      PROVE  FALSE
  <2>1. \/ \E r : Access!Begin(d, r)
        \/ \E op : op # "updateResourceGroup" /\ Access!Write(d, op)
    BY <1>4 DEF Access!RoleRequests, Access!HandleRBACRoles, Access!HandleRBACRole,
         Access!HandleRBACPermissions, Access!HandleRBACPermission,
         Access!HandleRBACUserRoles, Access!HandleRBACUserRole,
         Access!HandleRBACRolePermissions, Access!HandleRBACRolePermission,
         Access!HandleRBACRoleActions, Access!BeginCreateRole, Access!BeginUpdateRole,
         Access!BeginDeleteRole, Access!BeginCreatePermission, Access!BeginUpdatePermission,
         Access!BeginDeletePermission, Access!BeginCreateUserRole,
         Access!BeginDeleteUserRole, Access!BeginCreateRolePermission,
         Access!BeginDeleteRolePermission, Access!BeginReplaceActions,
         Access!CreateRole, Access!UpdateRole, Access!DeleteRole, Access!CreateUserRole,
         Access!DeleteUserRole, Access!CreateRolePermission, Access!DeleteRolePermission,
         Access!CreatePermission, Access!UpdatePermission, Access!DeletePermission,
         Access!ReplaceRoleActions
  <2> QED  BY <1>1, <1>2, <2>1
<1>5. ASSUME NEW d \in Editors, Access!GrantRequests(d)
      PROVE  Access!UpdateResourceGroup(d)
  <2>1. \/ \E r : Access!Begin(d, r)
        \/ \E op : op # "updateResourceGroup" /\ Access!Write(d, op)
        \/ Access!UpdateResourceGroup(d)
    BY <1>5 DEF Access!GrantRequests, Access!HandleUserGroups, Access!HandleUserGroupMembers,
         Access!HandleResourceGroups, Access!HandleResourceGrants,
         Access!BeginCreateUserGroup, Access!BeginUpdateUserGroup, Access!BeginDeleteUserGroup,
         Access!BeginAddMember, Access!BeginRemoveMember, Access!BeginGrant,
         Access!BeginDeleteGrant, Access!BeginCreateResourceGroup,
         Access!BeginUpdateResourceGroup, Access!BeginDeleteResourceGroup,
         Access!CreateUserGroup, Access!UpdateUserGroup, Access!DeleteUserGroup,
         Access!AddUserGroupMember, Access!RemoveUserGroupMember,
         Access!CreateResourceGrant, Access!BatchUpsertGrants, Access!EnsureResourceGrant,
         Access!DeleteResourceGrant, Access!CreateResourceGroup, Access!DeleteResourceGroup
  <2> QED  BY <1>1, <1>2, <2>1
<1>6. ASSUME NEW d \in Editors, Access!UpdateResourceGroup(d)
      PROVE  d = e
  BY <1>0, <1>6 DEF Access!UpdateResourceGroup, Access!Write, RequestsOK
<1>7. ASSUME \/ \E x \in Resources : Access!AssignGroup(x) \/ Access!DeleteResource(x)
             \/ Access!RoleBindingLapses \/ Access!GrantLapses \/ Access!UserChanges
      PROVE  req' = req
  BY <1>7 DEF Access!AssignGroup, Access!DeleteResource, Access!RoleBindingLapses,
              Access!GrantLapses, Access!UserChanges
<1> QED  BY <1>3, <1>4, <1>5, <1>6, <1>7 DEF Access!Next

(* What an update from a row still in the table leaves of the groups and   *)
(* resources: rows stay live and keep their type, and a resource names a   *)
(* group of its type after the update exactly when it did before.          *)
LEMMA MembershipKept ==
    ASSUME RenameInv, NEW e \in Editors, Access!UpdateResourceGroup(e), ~overlap'
    PROVE  /\ \A h \in ResGroups : /\ rgroup'[h].live = rgroup[h].live
                                   /\ rgroup'[h].type = rgroup[h].type
           /\ \A y \in Resources : res'[y].live = res[y].live
           /\ \A y \in Resources, h \in ResGroups :
                 res[y].live /\ rgroup[h].live /\ rgroup[h].type = TypeFor(y) =>
                    (res'[y].group = rgroup'[h].name <=> res[y].group = rgroup[h].name)
<1> DEFINE g == req[e].id
           row == req[e].row
           name == req[e].name
           saved == [row EXCEPT !.name = name]
<1>1. g \in ResGroups /\ row \in LiveGroup /\ name \in GroupNames
  BY DEF RenameInv, AccessInv, RequestsOK, RequestOK, Access!UpdateResourceGroup, Access!Write
<1>2. /\ ~overlap /\ rgroup[g] = row
      /\ \/ UNCHANGED <<rgroup, res>>
         \/ /\ ~Access!NameTaken(name, row.type, g)
            /\ rgroup' = [rgroup EXCEPT ![g] = saved]
            /\ IF name # row.name
                 THEN Access!UpdateGroupedResources(row.type, row.name, name)
                 ELSE UNCHANGED res
  BY DEF Access!UpdateResourceGroup
<1>3. saved \in LiveGroup /\ saved.name = name /\ saved.type = row.type
  BY <1>1 DEF LiveGroup
<1>4. row = GroupCalled(row.name, row.type) /\ saved = GroupCalled(name, row.type)
  BY <1>1, RenamedRow
<1> HIDE DEF g, row, name, saved
<1>5. /\ GroupTable /\ ResTable /\ UniqueGroups
      /\ Grouped
  BY <1>2, StrandedIff DEF RenameInv, AccessInv
<1>6. CASE UNCHANGED <<rgroup, res>>
  BY <1>6
<1>7. CASE rgroup' = [rgroup EXCEPT ![g] = saved] /\ name = row.name /\ UNCHANGED res
  <2>1. rgroup' = rgroup
    BY <1>1, <1>2, <1>4, <1>5, <1>7 DEF GroupTable
  <2> QED  BY <1>7, <2>1
<1>8. CASE /\ ~Access!NameTaken(name, row.type, g)
           /\ rgroup' = [rgroup EXCEPT ![g] = saved]
           /\ name # row.name
           /\ Access!UpdateGroupedResources(row.type, row.name, name)
  <2>1. \A h \in ResGroups : rgroup'[h] = IF h = g THEN saved ELSE rgroup[h]
    BY <1>5, <1>8 DEF GroupTable
  <2>2. saved.live = TRUE /\ row.live = TRUE
    BY <1>1, <1>3 DEF LiveGroup
  <2>3. \A h \in ResGroups : /\ rgroup'[h].live = rgroup[h].live
                             /\ rgroup'[h].type = rgroup[h].type
    BY <1>2, <1>3, <2>1, <2>2
  <2>4. \A x \in Resources :
          /\ res'[x].live = res[x].live
          /\ res[x].live /\ TypeFor(x) = row.type /\ res[x].group = row.name
                => res'[x].group = name
          /\ ~(res[x].live /\ TypeFor(x) = row.type /\ res[x].group = row.name)
                => res'[x] = res[x]
    BY <1>1, <1>5, <1>8, ResourcesMoved
  <2>5. ASSUME NEW h \in ResGroups, h # g, rgroup[h].live, rgroup[h].type = row.type
        PROVE  rgroup[h].name # name /\ rgroup[h].name # row.name
    <3>1. rgroup[h].name # row.name
      BY <1>1, <1>2, <1>5, <2>2, <2>5 DEF UniqueGroups
    <3>2. rgroup[h] \in LiveGroup
      BY <1>5, <2>5 DEF GroupTable
    <3>3. rgroup[h] = [live |-> TRUE, name |-> rgroup[h].name, type |-> row.type]
      BY <2>5, <3>2 DEF LiveGroup
    <3>4. rgroup[h].name # name
      BY <1>8, <2>5, <3>3 DEF Access!NameTaken
    <3> QED  BY <3>1, <3>4
  <2>6. ASSUME NEW y \in Resources, res[y].live, TypeFor(y) = row.type
        PROVE  res[y].group # name
    <3>0. name # Access!NoName
      BY <1>1, AccessAssumption DEF Access!NoName
    <3>1. SUFFICES ASSUME res[y].group = name PROVE FALSE
      OBVIOUS
    <3>2. PICK h \in ResGroups : rgroup[h] = GroupCalled(name, row.type)
      BY <1>5, <2>6, <3>0, <3>1 DEF Grouped
    <3>3. rgroup[h].live /\ rgroup[h].name = name /\ rgroup[h].type = row.type
      BY <3>2 DEF GroupCalled
    <3>4. h # g
      BY <1>2, <1>8, <3>3
    <3> QED  BY <2>5, <3>3, <3>4
  <2>7. ASSUME NEW y \in Resources, NEW h \in ResGroups,
               res[y].live, rgroup[h].live, rgroup[h].type = TypeFor(y)
        PROVE  res'[y].group = rgroup'[h].name <=> res[y].group = rgroup[h].name
    <3>1. CASE TypeFor(y) # row.type
      BY <1>2, <2>1, <2>4, <2>7, <3>1
    <3>2. CASE TypeFor(y) = row.type /\ h = g
      BY <1>2, <1>3, <2>1, <2>4, <2>6, <2>7, <3>2
    <3>3. CASE TypeFor(y) = row.type /\ h # g
      BY <2>1, <2>4, <2>5, <2>7, <3>3
    <3> QED  BY <3>1, <3>2, <3>3
  <2> QED  BY <2>3, <2>4, <2>7
<1> QED  BY <1>2, <1>6, <1>7, <1>8

(* When no group of the other type has the old name or the new one, a      *)
(* resource names a group of any type exactly when it did.                 *)
LEMMA NamesKept ==
    ASSUME RenameInv, NEW e \in Editors, Access!UpdateResourceGroup(e), ~overlap',
           ~Access!SharedName(req[e]),
           NEW y \in Resources, NEW h \in ResGroups, res[y].live, rgroup[h].live
    PROVE  res'[y].group = rgroup'[h].name <=> res[y].group = rgroup[h].name
<1> DEFINE g == req[e].id
           row == req[e].row
           name == req[e].name
           saved == [row EXCEPT !.name = name]
<1>1. g \in ResGroups /\ row \in LiveGroup /\ name \in GroupNames
  BY DEF RenameInv, AccessInv, RequestsOK, RequestOK, Access!UpdateResourceGroup, Access!Write
<1>2. /\ ~overlap /\ rgroup[g] = row
      /\ \/ UNCHANGED <<rgroup, res>>
         \/ /\ ~Access!NameTaken(name, row.type, g)
            /\ rgroup' = [rgroup EXCEPT ![g] = saved]
            /\ IF name # row.name
                 THEN Access!UpdateGroupedResources(row.type, row.name, name)
                 ELSE UNCHANGED res
  BY DEF Access!UpdateResourceGroup
<1>3. saved \in LiveGroup /\ saved.name = name /\ saved.type = row.type
  BY <1>1 DEF LiveGroup
<1>4. \A k \in ResGroups : rgroup[k].live /\ rgroup[k].type # row.type =>
         rgroup[k].name # row.name /\ rgroup[k].name # name
  BY DEF Access!SharedName
<1> HIDE DEF g, row, name, saved
<1>5. GroupTable /\ ResTable /\ Grouped
  BY <1>2, StrandedIff DEF RenameInv, AccessInv
<1>6. row.name # Access!NoName /\ name # Access!NoName
  BY <1>1, AccessAssumption DEF LiveGroup, Access!NoName
<1>7. CASE rgroup[h].type = TypeFor(y)
  BY <1>7, MembershipKept
<1>8. CASE rgroup[h].type # TypeFor(y) /\ UNCHANGED <<rgroup, res>>
  BY <1>8
<1>9. CASE rgroup[h].type # TypeFor(y) /\ ~UNCHANGED <<rgroup, res>>
  <2>1. \A k \in ResGroups : rgroup'[k] = IF k = g THEN saved ELSE rgroup[k]
    BY <1>2, <1>5, <1>9 DEF GroupTable
  <2>2. /\ TypeFor(y) = row.type /\ res[y].group = row.name /\ name # row.name
               => res'[y].group = name
        /\ ~(TypeFor(y) = row.type /\ res[y].group = row.name /\ name # row.name)
               => res'[y] = res[y]
    BY <1>1, <1>2, <1>5, <1>9, ResourcesMoved
  <2>3. CASE TypeFor(y) = row.type
    <3>1. h # g /\ rgroup'[h] = rgroup[h]
      BY <1>2, <1>9, <2>1, <2>3
    <3>2. rgroup[h].name # row.name /\ rgroup[h].name # name
      BY <1>4, <1>9, <2>3
    <3> QED  BY <2>2, <3>1, <3>2
  <2>4. CASE TypeFor(y) # row.type /\ h # g
    BY <2>1, <2>2, <2>4
  <2>5. CASE TypeFor(y) # row.type /\ h = g
    <3>1. res'[y] = res[y]
      BY <2>2, <2>5
    <3>2. ASSUME res[y].group \in {row.name, name} PROVE FALSE
      <4>1. PICK k \in ResGroups : rgroup[k] = GroupCalled(res[y].group, TypeFor(y))
        BY <1>5, <1>6, <3>2 DEF Grouped
      <4>2. rgroup[k].live /\ rgroup[k].name = res[y].group /\ rgroup[k].type = TypeFor(y)
        BY <4>1 DEF GroupCalled
      <4> QED  BY <1>4, <2>5, <3>2, <4>2
    <3> QED  BY <1>2, <1>3, <2>1, <2>5, <3>1, <3>2
  <2> QED  BY <2>3, <2>4, <2>5
<1> QED  BY <1>7, <1>8, <1>9

(* So a deny reaches what it reached.                                      *)
LEMMA DeniesKept ==
    ASSUME RenameInv, NEW e \in Editors, Access!UpdateResourceGroup(e), ~overlap',
           ~Access!SharedName(req[e]), NEW u \in Users, NEW a, NEW x \in Resources
    PROVE  Access!HasDeny(u, a, x)' <=> Access!HasDeny(u, a, x)
<1>1. /\ \A y \in Resources : res'[y].live = res[y].live
      /\ \A h \in ResGroups : rgroup'[h].live = rgroup[h].live
  BY MembershipKept
<1>2. KindOf[x] \in Access!AccountKinds => ParentOf[x] \in Resources
  BY AccessAssumption DEF Access!AccountKinds
<1>3. Access!ActiveResourceExists(x)' <=> Access!ActiveResourceExists(x)
  BY <1>1, <1>2 DEF Access!ActiveResourceExists, Access!AccountKinds
<1> DEFINE y == Access!HolderOf(x)
<1>4. Access!ActiveResourceExists(x) => y \in Resources /\ res[y].live
  BY <1>2 DEF Access!ActiveResourceExists, Access!HolderOf, Access!AccountKinds
<1>5. \A g : /\ Access!PermissionGroupContains(g, x) <=>
                   /\ rgroup[g].live /\ Access!ActiveResourceExists(x)
                   /\ KindOf[x] # "container_endpoint" /\ res[y].group = rgroup[g].name
             /\ Access!PermissionGroupContains(g, x)' <=>
                   /\ rgroup'[g].live /\ Access!ActiveResourceExists(x)'
                   /\ KindOf[x] # "container_endpoint" /\ res'[y].group = rgroup'[g].name
  BY DEF Access!PermissionGroupContains, Access!HolderOf, Access!AccountKinds
<1> HIDE DEF y
<1>6. ASSUME NEW g \in ResGroups
      PROVE  Access!PermissionGroupContains(g, x)' <=> Access!PermissionGroupContains(g, x)
  <2>1. y \in Resources /\ res[y].live /\ rgroup[g].live =>
           (res'[y].group = rgroup'[g].name <=> res[y].group = rgroup[g].name)
    BY NamesKept
  <2> QED  BY <1>1, <1>3, <1>4, <1>5, <2>1
<1>7. ASSUME NEW w
      PROVE  Access!ResourceMatches(w, x)' <=> Access!ResourceMatches(w, x)
  BY <1>6 DEF Access!ResourceMatches
<1>8. Access!PermissionsForUser(u)' = Access!PermissionsForUser(u)
  BY DEF Access!UpdateResourceGroup, Access!PermissionsForUser, Access!LiveUser
<1> QED  BY <1>3, <1>7, <1>8 DEF Access!HasDeny

(* So every grant matches what it matched.                                 *)
LEMMA GrantsKept ==
    ASSUME RenameInv, NEW e \in Editors, Access!UpdateResourceGroup(e), ~overlap',
           NEW u \in Users, NEW x \in Resources
    PROVE  Access!HasGrant(u, x)' = Access!HasGrant(u, x)
<1>1. \A y \in Resources : res'[y].live = res[y].live
  BY MembershipKept
<1>2. KindOf[x] \in Access!AccountKinds =>
         ParentOf[x] \in Resources /\ KindOf[ParentOf[x]] \in {"host", "database_instance"}
  BY AccessAssumption DEF Access!AccountKinds
<1>3. Access!ActiveResourceExists(x)' <=> Access!ActiveResourceExists(x)
  BY <1>1, <1>2 DEF Access!ActiveResourceExists, Access!AccountKinds
<1>4. Access!ActiveResourceExists(x) => /\ res[x].live /\ res[Access!HolderOf(x)].live
                                        /\ Access!HolderOf(x) \in Resources
  BY <1>2 DEF Access!ActiveResourceExists, Access!HolderOf, Access!AccountKinds
<1>5. ASSUME NEW g \in ResGroups
      PROVE  Access!GrantGroupContains(g, x, "account")' <=>
             Access!GrantGroupContains(g, x, "account")
  <2>1. KindOf[x] \in Access!AccountKinds \cup {"platform_account"} => TypeFor(x) = "account"
    BY DEF TypeFor, Access!GroupTypeOf
  <2>2. /\ rgroup'[g].live = rgroup[g].live /\ rgroup'[g].type = rgroup[g].type
        /\ res[x].live /\ rgroup[g].live /\ rgroup[g].type = TypeFor(x) =>
              (res'[x].group = rgroup'[g].name <=> res[x].group = rgroup[g].name)
    BY <1>5, MembershipKept
  <2> QED  BY <1>3, <1>4, <2>1, <2>2 DEF Access!GrantGroupContains, Access!AccountKinds
<1>6. ASSUME NEW g \in ResGroups
      PROVE  Access!GrantGroupContains(g, x, "resource")' <=>
             Access!GrantGroupContains(g, x, "resource")
  <2> DEFINE y == Access!HolderOf(x)
  <2>1. KindOf[x] # "platform_account" => TypeFor(y) = "resource"
    BY <1>2 DEF TypeFor, Access!GroupTypeOf, Access!HolderOf, Access!AccountKinds
  <2>2. /\ rgroup'[g].live = rgroup[g].live /\ rgroup'[g].type = rgroup[g].type
        /\ y \in Resources /\ res[y].live /\ rgroup[g].live /\ rgroup[g].type = TypeFor(y) =>
              (res'[y].group = rgroup'[g].name <=> res[y].group = rgroup[g].name)
    BY <1>6, MembershipKept
  <2>3. Access!GrantGroupContains(g, x, "resource") <=>
           /\ rgroup[g].live /\ rgroup[g].type = "resource" /\ Access!ActiveResourceExists(x)
           /\ KindOf[x] # "platform_account" /\ res[y].group = rgroup[g].name
    BY DEF Access!GrantGroupContains
  <2>4. Access!GrantGroupContains(g, x, "resource")' <=>
           /\ rgroup'[g].live /\ rgroup'[g].type = "resource" /\ Access!ActiveResourceExists(x)'
           /\ KindOf[x] # "platform_account" /\ res'[y].group = rgroup'[g].name
    BY DEF Access!GrantGroupContains, Access!HolderOf, Access!AccountKinds
  <2> HIDE DEF y
  <2>5. Access!ActiveResourceExists(x) => y \in Resources /\ res[y].live
    BY <1>4 DEF y
  <2> QED  BY <1>3, <2>1, <2>2, <2>3, <2>4, <2>5
<1>7. ASSUME NEW w
      PROVE  Access!MatchesGrant(w, x)' <=> Access!MatchesGrant(w, x)
  BY <1>3, <1>5, <1>6 DEF Access!MatchesGrant
<1>8. /\ Access!DirectGrants(u)' = Access!DirectGrants(u)
      /\ Access!GroupGrants(u)' = Access!GroupGrants(u)
  BY DEF Access!UpdateResourceGroup, Access!DirectGrants, Access!GroupGrants, Access!LiveUser
<1>9. Access!HasGrant(u, x)' <=> Access!HasGrant(u, x)
  BY <1>3, <1>7, <1>8 DEF Access!HasGrant
<1> QED  BY <1>9 DEF Access!HasGrant

(* And every decision stays.                                               *)
LEMMA DecisionsKept ==
    ASSUME RenameInv, NEW e \in Editors, Access!UpdateResourceGroup(e), ~overlap',
           ~Access!SharedName(req[e]), NEW u \in Users, NEW as, NEW x \in Resources
    PROVE  Access!Authorize(u, as, x)' = Access!Authorize(u, as, x)
<1> DEFINE known == Access!FindIdentitySubject(u)
           global == {a \in as : Access!HasPermission(u, a)}
           usable == {a \in global : ~Access!HasDeny(u, a, x)}
           granted == Access!HasGrant(u, x)
           answer(k, g, v, h) ==
              CASE ~k -> "invalid_identity"
                [] k /\ u \in SuperAdmins -> "super_admin"
                [] k /\ u \notin SuperAdmins /\ g = {} -> "action_denied"
                [] k /\ u \notin SuperAdmins /\ g # {} /\ v = {} -> "resource_denied"
                [] OTHER -> IF h THEN "allowed" ELSE "resource_denied"
<1>1. /\ Access!Authorize(u, as, x) = answer(known, global, usable, granted)
      /\ Access!Authorize(u, as, x)' = answer(known', global', usable', granted')
  BY DEF Access!Authorize
<1>2. known' <=> known
  BY DEF Access!UpdateResourceGroup, Access!FindIdentitySubject
<1>3. global' = global
  <2>1. Access!PermissionsForUser(u)' = Access!PermissionsForUser(u)
    BY DEF Access!UpdateResourceGroup, Access!PermissionsForUser, Access!LiveUser
  <2>2. \A a : Access!HasPermission(u, a)' <=> Access!HasPermission(u, a)
    BY <2>1 DEF Access!HasPermission
  <2> QED  BY <2>2
<1>4. usable' = usable
  <2>1. \A a : Access!HasDeny(u, a, x)' <=> Access!HasDeny(u, a, x)
    BY DeniesKept
  <2> QED  BY <1>3, <2>1
<1>5. granted' = granted
  BY GrantsKept
<1> HIDE DEF known, global, usable, granted
<1> QED  BY <1>1, <1>2, <1>3, <1>4, <1>5

(* Renaming a resource group from a row still in the table leaves what the *)
(* grants reach as it was, and every decision too when no group of the     *)
(* other type has the old name or the new one, for any number of groups,   *)
(* grants and resources (UpdateResourceGroup).                             *)
THEOREM RenameCorrect == Access!Spec => RenameKeepsAccess
<1> DEFINE A == \A e \in Editors :
                   (req[e].op = "updateResourceGroup" /\ req'[e] = Access!Idle /\ ~overlap')
                      => \A u \in Users, x \in Resources :
                            /\ Access!HasGrant(u, x)' = Access!HasGrant(u, x)
                            /\ ~Access!SharedName(req[e]) =>
                                  \A as \in SUBSET Actions :
                                     Access!Authorize(u, as, x)' = Access!Authorize(u, as, x)
<1>1. Access!Init => RenameInv
  <2>1. Access!Init => UniqueGroups
    BY DEF Access!Init, UniqueGroups, Access!NoGroup
  <2> QED  BY <2>1, AccessStart DEF RenameInv
<1>2. RenameInv /\ [Access!Next]_(Access!vars) => RenameInv'
  <2> SUFFICES ASSUME RenameInv, [Access!Next]_(Access!vars) PROVE RenameInv'
    OBVIOUS
  <2>1. AccessInv'
    BY AccessStep DEF RenameInv
  <2> QED  BY <2>1, UniqueStep DEF RenameInv
<1>3. RenameInv /\ [Access!Next]_(Access!vars) => [A]_(Access!vars)
  <2> SUFFICES ASSUME RenameInv, Access!Next PROVE A
    OBVIOUS
  <2>1. ASSUME NEW e \in Editors, req[e].op = "updateResourceGroup",
               req'[e] = Access!Idle, ~overlap', NEW u \in Users, NEW x \in Resources
        PROVE  /\ Access!HasGrant(u, x)' = Access!HasGrant(u, x)
               /\ ~Access!SharedName(req[e]) =>
                     \A as \in SUBSET Actions :
                        Access!Authorize(u, as, x)' = Access!Authorize(u, as, x)
    <3>1. Access!UpdateResourceGroup(e)
      BY <2>1, UpdateEnds DEF RenameInv, AccessInv
    <3> QED  BY <2>1, <3>1, GrantsKept, DecisionsKept
  <2> QED  BY <2>1
<1>4. Access!Spec => [][A]_(Access!vars)
  BY <1>1, <1>2, <1>3, PTL DEF Access!Spec
<1> QED  BY <1>4 DEF RenameKeepsAccess, Access!RenameKeepsAccess
=============================================================================
