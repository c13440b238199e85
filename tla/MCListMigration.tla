-------------------------- MODULE MCListMigration --------------------------
(* ListMigration has numbers for constants only: the bounds.               *)
EXTENDS ListMigration, TLC
=============================================================================
