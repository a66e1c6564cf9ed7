--------------------------- MODULE MCDatabaseRelay ---------------------------
(* The instance of DatabaseRelay under the fairness of its goroutines; the   *)
(* constants are in the .cfg file.                                           *)
EXTENDS DatabaseRelay
=============================================================================
