----------------------------- MODULE MCDatabases ----------------------------
(*****************************************************************************)
(* Databases: the observers that turn the protocols of PostgreSQL and Redis  *)
(* into audit records, each beside the server it follows.  SQL texts are     *)
(* only compared, so they may be permuted.                                   *)
(*****************************************************************************)
EXTENDS PostgresObserver, TLC

CONSTANTS
    Topics, Categories, Commands, MaxCommands, TopicLimit

VARIABLES
    part,   \* which of the components the behaviour is of
    slots, subs, intent, version, deferred, redisFatal, redisStream, record,
    toServer, toObserver, serverSubs, serverVersion, answer, lookalike, helloMissed,
    sent, pushed

Redis == INSTANCE RedisObserver WITH fatal <- redisFatal, stream <- redisStream,
    PendingLimit <- 3, MaxMessages <- 1

redisVars == <<slots, subs, intent, version, deferred, redisFatal, redisStream, record,
               toServer, toObserver, serverSubs, serverVersion, answer, lookalike, helloMissed,
               sent, pushed>>
all == <<part, vars, redisVars>>

Command(name, cat, args, v) == [op |-> name, cat |-> cat, args |-> args, version |-> v]
MCCommands ==
    {Command("get", "c", <<>>, 2), Command("bad", "c", <<>>, 2)}
    \cup {Command("hello", "c", <<>>, v) : v \in {2, 3}}
    \cup {Command("sub", "c", args, 2) : args \in {<<"t">>, <<"t", "u">>, <<"t", "t">>}}
    \cup {Command("unsub", "c", args, 2) : args \in {<<>>, <<"t">>}}
    \cup {Command("sub", "p", <<"t">>, 2), Command("unsub", "p", <<>>, 2)}

Symmetric == Permutations(Sql)

(* A component that is not looked at stays in one of its initial states. *)
MCInit ==
    /\ part \in {"postgres", "redis"}
    /\ Init /\ Redis!Init
    /\ part # "redis" => serverVersion = 2

PostgresNext == part = "postgres" /\ Next /\ UNCHANGED <<part, redisVars>>
RedisNext == part = "redis" /\ Redis!Next /\ UNCHANGED <<part, vars>>

MCSpec == MCInit /\ [][PostgresNext \/ RedisNext]_all

-----------------------------------------------------------------------------
(* Unless a HELLO was answered by a frame larger than its buffer, the Redis  *)
(* observer books every answer, acknowledgement and pushed message where it  *)
(* belongs, and once all is answered it agrees with the server on the        *)
(* subscriptions, and on the protocol as far as it has seen it.              *)
RedisInStep == part = "redis" => Redis!RedisInStep

(* No record is left open when the Redis observer gives up or has nothing    *)
(* pending.                                                                  *)
RedisRecordsEnd == part = "redis" => Redis!RedisRecordsEnd
=============================================================================
