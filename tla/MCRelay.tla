------------------------------ MODULE MCRelay ------------------------------
(***************************************************************************)
(* Small instances of FederatedRelay for TLC.                              *)
(***************************************************************************)
EXTENDS FederatedRelay

Always == {TRUE}
Sometimes == {TRUE, FALSE}
=============================================================================
