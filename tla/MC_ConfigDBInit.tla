-------------------------- MODULE MC_ConfigDBInit ---------------------------
(* Two consumers and two successive `config reload` runs. *)
EXTENDS ConfigDBInit

CONSTANTS c1, c2

MC_Consumers == {c1, c2}
=============================================================================
