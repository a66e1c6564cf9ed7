---------------------------- MODULE MCStatements ----------------------------
(*****************************************************************************)
(* Statements on their way to a database: the relay of a client's connection *)
(* under faults, and the browser's SQL console.                              *)
(*****************************************************************************)
EXTENDS DatabaseRelay, TLC

CONSTANTS
    Req, Nobody, MaxFailures, MaxTouches

VARIABLES
    part,   \* which of the components the behaviour is of
    account, sess, mutex, closer, req, aud, effect, failures, lapses

Console == INSTANCE SQLConsole

consoleVars == <<account, sess, mutex, closer, req, aud, effect, failures, lapses>>
all == <<part, vars, consoleVars>>

Symmetric == Permutations(Req)

(* A component that is not looked at stays in one of its initial states. *)
MCInit ==
    /\ part \in {"relay", "console"}
    /\ Init /\ Console!Init
    /\ part # "relay" => kind = [q \in Command |-> "query"]
    /\ \E q \in Command : kind[q] = "query"
    /\ part # "console" => account.rights = {}

RelayNext == part = "relay" /\ Next /\ UNCHANGED <<part, consoleVars>>
ConsoleNext == part = "console" /\ Console!Next /\ UNCHANGED <<part, vars>>

MCSpec == MCInit /\ [][RelayNext \/ ConsoleNext]_all

-----------------------------------------------------------------------------
(* A console statement is permitted, audited and reported as it went, and    *)
(* the connection it used is released.                                       *)
ConsoleAccounted == part = "console" => Console!ConsoleAccounted
=============================================================================
