-------------------------- MODULE MCIntegrationOutbox --------------------------
(***************************************************************************)
(* Instances of IntegrationOutbox for TLC.                                 *)
(***************************************************************************)
EXTENDS IntegrationOutbox, TLC

Symmetry == Permutations(Workers)

================================================================================
