------------------------- MODULE MCPostgresObserver -------------------------
(***************************************************************************)
(* Instances of PostgresObserver for TLC.  SQL texts are only compared, so *)
(* they may be permuted.                                                   *)
(***************************************************************************)
EXTENDS PostgresObserver, TLC

SqlSymmetry == Permutations(Sql)
=============================================================================
