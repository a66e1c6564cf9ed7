------------------------------ MODULE AdminSetup ------------------------------
(***************************************************************************)
(* The first set-up of the administration interface and the one hand-out   *)
(* of the encryption key: handleInitSetup and handleInitEncryptionKey of   *)
(* internal/server/admin/init.go, Setup and ClaimEncryptionKey of          *)
(* internal/service/admin_auth.go, SetupInitialAdmin and                   *)
(* ClaimAdminEncryptionKey of internal/store/dbstore_admin_auth.go.        *)
(*                                                                         *)
(* Several instances of the server may share the database, so the steps of *)
(* two transactions interleave; what a transaction wrote is seen by others *)
(* when it commits, and an insert or a locking read of a row that another  *)
(* one holds waits for its end.  (Under SQLite the write slot of the only  *)
(* process runs them one after the other.)  withAdminAuthWrite repeats a   *)
(* transaction the database rolled back, MaxAttempts times in all; a       *)
(* commit may also be applied although the caller sees an error.           *)
(***************************************************************************)
EXTENDS Integers, FiniteSets

CONSTANTS
    Requests,      \* set-up and key requests, each sent once
    MaxAttempts,   \* maxAttempts of withAdminAuthWrite
    MaxFaults,     \* bound on failing transactions and lost replies
    MaxChanges     \* bound on changes of users by the administrators

ASSUME SetupAssumption == MaxAttempts \in Nat \ {0} /\ MaxFaults \in Nat /\ MaxChanges \in Nat

Seeded == "seeded"     \* the users that bootstrapConfigUsers put there

VARIABLES
    rows,      \* the committed keys in system_initializations
    admins,    \* the active super administrators: by whose request they exist
    others,    \* an active user that is no super administrator exists
    fresh,     \* the requests whose caller's password hash is still the one they read
    holder,    \* who has the set-up row locked or inserted without committing
    req,       \* req[r]: the request
    left       \* how much of the bounds is left

vars == <<rows, admins, others, fresh, holder, req, left>>

NewRequest == [pc |-> "new", attempts |-> 0, answer |-> "none"]

SetupPCs == {"guard", "count", "install", "keep"}
ClaimPCs == {"lock", "recheck", "claim"}

At(r, pc) == req[r].pc = pc
Goto(r, pc) == req' = [req EXCEPT ![r].pc = pc]
Answer(r, a) == req' = [req EXCEPT ![r].pc = "done", ![r].answer = a]
Release(r) == holder' = holder \ {r}
Fault == left.faults > 0 /\ left' = [left EXCEPT !.faults = @ - 1]

-----------------------------------------------------------------------------
(* handleInitSetup: nobody is logged in yet; the request is checked, the   *)
(* password hashed and the session prepared before the transaction.        *)
BeginSetup(r) ==
    /\ At(r, "new")
    /\ Goto(r, "guard")
    /\ UNCHANGED <<rows, admins, others, fresh, holder, left>>

(* The insert of the guard row: a duplicate means set-up was done, and an  *)
(* uncommitted one of another transaction is waited for.                   *)
InsertGuard(r) ==
    /\ At(r, "guard")
    /\ IF "setup" \in rows
       THEN Answer(r, "already") /\ UNCHANGED holder
       ELSE holder = {} /\ holder' = {r} /\ Goto(r, "count")
    /\ UNCHANGED <<rows, admins, others, fresh, left>>

(* The count of the active users decides whether the administrator and its *)
(* session are created.                                                    *)
CountUsers(r) ==
    /\ At(r, "count")
    /\ Goto(r, IF admins = {} /\ ~others THEN "install" ELSE "keep")
    /\ UNCHANGED <<rows, admins, others, fresh, holder, left>>

(* The commit: the guard row stays even where users were found.  It may be *)
(* applied although the caller sees an error.                              *)
CommitSetup(r) ==
    /\ req[r].pc \in {"install", "keep"}
    /\ rows' = rows \cup {"setup"}
    /\ admins' = IF At(r, "install") THEN admins \cup {r} ELSE admins
    /\ Release(r)
    /\ \/ Answer(r, IF At(r, "install") THEN "created" ELSE "already") /\ UNCHANGED left
       \/ Fault /\ Answer(r, "error")
    /\ UNCHANGED <<others, fresh>>

(* ClaimEncryptionKey up to the transaction: the caller is a super         *)
(* administrator with the right password, the key file is read.            *)
ReadKey(r) ==
    /\ At(r, "new")
    /\ admins # {}
    /\ Goto(r, "lock")
    /\ fresh' = fresh \cup {r}
    /\ UNCHANGED <<rows, admins, others, holder, left>>

(* lockAdminSetupRow *)
LockSetupRow(r) ==
    /\ At(r, "lock")
    /\ IF "setup" \notin rows
       THEN Answer(r, "denied") /\ UNCHANGED holder
       ELSE holder = {} /\ holder' = {r} /\ Goto(r, "recheck")
    /\ UNCHANGED <<rows, admins, others, fresh, left>>

(* The claim row is there: found by the query, or by its unique key when   *)
(* it is inserted.                                                         *)
MutantClaimTaken == FALSE
ClaimTaken == "claimed" \in rows

MutantRecheckClaimer(r) ==
    /\ At(r, "recheck")
    /\ IF r \in fresh /\ ~ClaimTaken
       THEN Goto(r, "claim")
       ELSE Answer(r, "denied")
    /\ UNCHANGED <<rows, admins, others, fresh, holder, left>>

(* The caller is checked again with the hash read before, and the claim    *)
(* looked for.                                                             *)
RecheckClaimer(r) ==
    /\ At(r, "recheck")
    /\ IF r \in fresh /\ ~ClaimTaken
       THEN Goto(r, "claim") /\ UNCHANGED holder
       ELSE Answer(r, "denied") /\ Release(r)
    /\ UNCHANGED <<rows, admins, others, fresh, left>>

(* The insert and the commit of the claim; the key is returned after it.   *)
(* A commit that the caller sees fail leaves the claim without anybody     *)
(* having the key.                                                         *)
CommitClaim(r) ==
    /\ At(r, "claim")
    /\ Release(r)
    /\ rows' = rows \cup {"claimed"}
    /\ \/ Answer(r, IF ClaimTaken THEN "denied" ELSE "key") /\ UNCHANGED left
       \/ Fault /\ Answer(r, "error")
    /\ UNCHANGED <<admins, others, fresh>>

(* withAdminAuthWrite: the database rolls the transaction back (deadlock,  *)
(* busy), and it is tried again or given up.                               *)
RollBack(r) ==
    /\ req[r].pc \in SetupPCs \cup ClaimPCs
    /\ Fault
    /\ Release(r)
    /\ IF req[r].attempts + 1 < MaxAttempts
       THEN req' = [req EXCEPT ![r].attempts = @ + 1,
                               ![r].pc = IF @ \in SetupPCs THEN "guard" ELSE "lock"]
       ELSE Answer(r, "error")
    /\ UNCHANGED <<rows, admins, others, fresh>>

(* Administrators create and remove ordinary users (a super administrator  *)
(* can be neither removed nor disabled), and the seeding of a restarting   *)
(* instance replaces password hashes.                                      *)
ChangeUsers ==
    /\ left.changes > 0
    /\ left' = [left EXCEPT !.changes = @ - 1]
    /\ admins # {}
    /\ \/ others' = ~others /\ UNCHANGED fresh
       \/ Seeded \in admins /\ fresh # {} /\ fresh' = {} /\ UNCHANGED others
    /\ UNCHANGED <<rows, admins, holder, req>>

(* An empty database, or one with users from the configuration file, among *)
(* which Bootstrap requires a super administrator.                         *)
Init ==
    /\ rows = {}
    /\ \/ admins = {} /\ others = FALSE
       \/ admins = {Seeded} /\ others \in BOOLEAN
    /\ fresh = {}
    /\ holder = {}
    /\ req = [r \in Requests |-> NewRequest]
    /\ left = [faults |-> MaxFaults, changes |-> MaxChanges]

Next ==
    \/ \E r \in Requests :
          \/ BeginSetup(r)
          \/ InsertGuard(r)
          \/ CountUsers(r)
          \/ CommitSetup(r)
          \/ ReadKey(r)
          \/ LockSetupRow(r)
          \/ RecheckClaimer(r)
          \/ CommitClaim(r)
          \/ RollBack(r)
    \/ ChangeUsers

Spec == Init /\ [][Next]_vars

(* The statements of a transaction return; a lock is granted to one that   *)
(* keeps asking.                                                           *)
Progress(r) ==
    InsertGuard(r) \/ CountUsers(r) \/ CommitSetup(r) \/ LockSetupRow(r)
        \/ RecheckClaimer(r) \/ CommitClaim(r)

FairSpec == Spec /\ \A r \in Requests : SF_vars(Progress(r))

-----------------------------------------------------------------------------
\* Every variable holds a value of its type.
TypeOK ==
    /\ rows \in SUBSET {"setup", "claimed"}
    /\ admins \in SUBSET (Requests \cup {Seeded})
    /\ others \in BOOLEAN
    /\ fresh \in SUBSET Requests
    /\ holder \in SUBSET Requests
    /\ req \in [Requests -> [pc : {"new", "done"} \cup SetupPCs \cup ClaimPCs,
                             attempts : 0 .. MaxAttempts - 1,
                             answer : {"none", "created", "already", "error", "key", "denied"}]]

(* However many set-up requests race, are repeated or see an error after   *)
(* the commit, one of them makes one administrator, and none does where    *)
(* users were seeded.                                                      *)
OneInitialAdmin == Cardinality(admins) <= 1

(* A request that is told "already initialized" can rely on it: a super    *)
(* administrator exists, so the instance is not locked.                    *)
GuardMeansAdmin == "setup" \in rows => admins # {}

(* The encryption key is shown once at most, whoever asks at the same      *)
(* time and whatever was rolled back in between.                           *)
KeyShownOnce == Cardinality({r \in Requests : req[r].answer = "key"}) <= 1

(* Nobody waits for ever for the set-up row: a request that is let in gets *)
(* its answer.                                                             *)
EveryRequestAnswered == \A r \in Requests : req[r].pc # "new" ~> req[r].pc = "done"

(* Set-up happens once: one initial administrator, and the key shown to one  *)
(* request.                                                                  *)
OneAdminOneKey == OneInitialAdmin /\ KeyShownOnce
=============================================================================
