----------------------- MODULE MCDatabaseProvisioning -----------------------
(* The instances of DatabaseProvisioning for TLC; their constants are in the .cfg files. *)
EXTENDS DatabaseProvisioning
=============================================================================
