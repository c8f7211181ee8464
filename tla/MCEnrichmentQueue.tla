-------------------------- MODULE MCEnrichmentQueue --------------------------
(***************************************************************************)
(* An instance of EnrichmentQueue for TLC: items that can be answered and  *)
(* one whose lookup may fail for ever.                                     *)
(***************************************************************************)
EXTENDS EnrichmentQueue

CONSTANTS a, b
=============================================================================
