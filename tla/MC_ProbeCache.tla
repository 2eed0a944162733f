----------------------------- MODULE MC_ProbeCache -----------------------------
(* Instances of ProbeCache for TLC.                                           *)
EXTENDS ProbeCache, TLC
===============================================================================
