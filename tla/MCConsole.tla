----------------------------- MODULE MCConsole -----------------------------
(* The commands of the console's runs. *)
EXTENDS Console

(* The first is ended by a second interrupt, the second by a first one, the *)
(* third ends by itself.                                                    *)
NeedsDefinition == <<2, 1, 0>>
=============================================================================
