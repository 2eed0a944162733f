-------------------------- MODULE MC_PluginRelease --------------------------
(* Two root files: package.json, which every harness set needs and which    *)
(* carries the version, and a catalog that one of two harness sets needs.   *)
EXTENDS PluginRelease, TLC

CONSTANTS npm, cat, claude, opencode

Harnesses == claude :> {npm, cat} @@ opencode :> {npm}
Versions == 1 .. 2
Rendered == [r \in {npm, cat} \X {claude, opencode} \X Versions |->
    IF r[1] = npm THEN <<npm, r[3]>> ELSE <<cat, r[2]>>]
Symmetry == Permutations(Proc)
MarsBytes == {Rendered[r] : r \in DOMAIN Rendered}
=============================================================================
