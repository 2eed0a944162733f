---------------------------- MODULE MC_CatalogCache ----------------------------
(* Instances of CatalogCache for TLC.                                         *)
EXTENDS CatalogCache, TLC
===============================================================================
