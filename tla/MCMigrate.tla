----------------------------- MODULE MCMigrate ------------------------------
(***************************************************************************)
(* An instance of Migrate for TLC: a diagram, a snapshot of it and a user. *)
(***************************************************************************)
EXTENDS Migrate, TLC

CONSTANTS d, h, u

MCRows == {d, h, u}
MCTableOf == (d :> "dags") @@ (h :> "dag_history") @@ (u :> "users")
MCParentOf == h :> d
=============================================================================
