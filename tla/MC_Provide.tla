------------------------------ MODULE MC_Provide ------------------------------
(* Instances of Provide for TLC.                                             *)
EXTENDS Provide, TLC

(* Meridian ships two skills, another host one; the names carry the suffix.  *)
Names == {"plan__mer", "run__mer", "note__oth"}
OwnerOf == "plan__mer" :> "mer" @@ "run__mer" :> "mer" @@ "note__oth" :> "oth"

Ships(q, a, b, c) == [provider |-> q,
    skills |-> "plan__mer" :> a @@ "run__mer" :> b @@ "note__oth" :> c]
Mer1 == Ships("mer", "v1", "v1", NoSkill)
Mer2 == Ships("mer", "v2", NoSkill, NoSkill)
Oth1 == Ships("oth", NoSkill, NoSkill, "v1")
Sources == {Mer1, Mer2, Oth1}

(* An old and a new Meridian side by side, and the other host; the old one *)
(* may never come back.                                                     *)
Mixed == "p1" :> {Mer2} @@ "p2" :> {Mer1, Oth1}
Settled == "p1" :> Mer2 @@ "p2" :> Oth1

PackageTakes == {{}, {"plan__mer"}}
===============================================================================
