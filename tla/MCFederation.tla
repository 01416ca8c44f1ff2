---------------------------- MODULE MCFederation ----------------------------
(***************************************************************************)
(* Small instances of MeshFederationController.                            *)
(***************************************************************************)
EXTENDS MeshFederationController

=============================================================================
