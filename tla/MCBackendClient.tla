--------------------------- MODULE MCBackendClient ---------------------------
(* Instances of BackendClient for TLC.                                     *)
EXTENDS BackendClient
=============================================================================
