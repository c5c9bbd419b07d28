----------------------------- MODULE MCPurposeVault -----------------------------
(***************************************************************************)
(* Policies for PurposeVault: with a floor of a single token after two     *)
(* periods of silence, and one that fails closed.                          *)
(***************************************************************************)
EXTENDS PurposeVault

MCFloor == {<<3, 1, 4>>}
MCNoFloor == {<<3, 0, 0>>}
==============================================================================
