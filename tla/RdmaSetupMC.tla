---------------------------- MODULE RdmaSetupMC ----------------------------
(***************************************************************************)
(* Small instances of RdmaSetup for TLC.                                   *)
(***************************************************************************)
EXTENDS RdmaSetup

=============================================================================
