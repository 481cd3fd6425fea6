------------------------- MODULE MCRuntimeEventRing -------------------------
(***************************************************************************)
(* A ring of two slots with two words each, small enough to be lapped      *)
(* twice while a reader is inside one slot.                                *)
(***************************************************************************)
EXTENDS RuntimeEventRing

CONSTANTS site, payload
=============================================================================
