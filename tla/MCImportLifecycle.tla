-------------------------- MODULE MCImportLifecycle --------------------------
(* A Kavita, which has no delta channel, and a BookOrbit, which has one; an      *)
(* instance is due one tick after the start of its last full import.            *)
EXTENDS ImportLifecycle

CONSTANTS kavita, bookorbit
==============================================================================
