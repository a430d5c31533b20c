------------------------------- MODULE Windows -------------------------------
(***************************************************************************)
(* The plugin instances that have the vault open, shared by the models of   *)
(* the write lock and of the lease.                                        *)
(***************************************************************************)
CONSTANTS Window,     \* plugin instances on the vault
          NoWindow
=============================================================================
