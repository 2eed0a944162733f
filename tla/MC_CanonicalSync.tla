--------------------------- MODULE MC_CanonicalSync ---------------------------
(* Instances of CanonicalSync for TLC.                                       *)
EXTENDS CanonicalSync, TLC

Item(o, s, i) == [origin |-> o, source |-> s, installed |-> i]
Asks(a, k) == "coder" :> a @@ "plan" :> k

Plain == Strict
Forced == [Strict EXCEPT !.force = TRUE]
Frozen == [Strict EXCEPT !.frozen = TRUE]
Upgrade == [Strict EXCEPT !.recovery = "defer"]
Repair == [Forced EXCEPT !.recovery = "repair"]
AllRequests == {Plain, Forced, Frozen, Upgrade, Repair}

EmptyLock == Nothing
DamagedLocks == {NoLock, CorruptLock, EmptyLock}

(* An agent of a dependency in two versions, a skill of the project.         *)
TwoVersions == {Asks(Item("dep", "v1", "v1"), Item("_self", "v1", "v1")),
                Asks(Item("dep", "v2", "v2"), NoRec)}

(* Renamed items: what is installed is not the source. Two configurations    *)
(* that differ in who provides the skill and in the agent's version.         *)
Renamed == {Asks(Item("dep", "v1", "r1"), Item("dep", "v1", "r1")),
            Asks(Item("dep", "v2", "r2"), Item("alt", "v1", "r1"))}

(* Renamed items among items installed as they come: the agent is renamed    *)
(* in one version, the skill passes from the project to a dependency and     *)
(* then goes.                                                                *)
Mixed == {Asks(Item("dep", "v1", "r1"), Item("_self", "v1", "v1")),
          Asks(Item("dep", "v2", "v2"), Item("alt", "v1", "r1")),
          Asks(Item("dep", "v2", "v2"), NoRec)}
===============================================================================
