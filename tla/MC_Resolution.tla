---------------------------- MODULE MC_Resolution -----------------------------
(* Instances of Resolution for TLC.                                          *)
EXTENDS Resolution

CONSTANT main

Names == {"a", "b", "p"}
(* The repositories of the three, and a fork of p's. b's has no tags.        *)
Repos == {"A", "B", "P", "Fork"}
Shas == {"a1", "a2", "b0", "bh", "p1", "p2", "px", "pm"}
TagsOf == [s \in Repos |->
    CASE s = "A" -> (1 :> "a1" @@ 2 :> "a2")
      [] s = "P" -> (1 :> "p1" @@ 2 :> "p2")
      [] s = "Fork" -> (1 :> "p1")
      [] s = "B" -> << >>]
BranchOf == [s \in Repos |-> [b \in Pin \cup {HEAD} |->
    CASE s = "A" -> "a2" [] s = "B" -> "bh" [] OTHER -> "pm"]]

A(w) == [name |-> "a", source |-> "A", want |-> w]
B(w) == [name |-> "b", source |-> "B", want |-> w]
P(w) == [name |-> "p", source |-> "P", want |-> w]
Forked == [name |-> "p", source |-> "Fork", want |-> Latest]
Renamed == [name |-> "p", source |-> "A", want |-> Latest]

Asking == {Latest, Semver({1}), Semver({2}), Semver({1, 2}), RefPin(main)}
Directs == {<<A(Latest), B(Latest)>>,
            <<A(Semver({1, 2})), B(Latest)>>,
            <<P(Latest), A(Semver({1, 2})), B(Latest)>>}
OfA1 == {<< >>} \cup {<<P(w)>> : w \in {Semver({1}), Semver({2})}}
OfA2 == {<< >>, <<B(RefPin(main))>>}
        \cup {<<P(w)>> : w \in {Latest, Semver({1}), Semver({1, 2})}}
OfB == {<< >>, <<Forked>>, <<Renamed>>}
       \cup {<<P(w)>> : w \in Asking}
       \cup {<<A(w)>> : w \in {Semver({1}), Semver({2})}}
       \cup {<<P(w), A(Semver({1}))>> : w \in {Semver({2}), Latest}}
       \cup {<<A(Semver({1})), P(w)>> : w \in {Semver({2}), RefPin(main)}}
OfP == {<< >>, <<A(Semver({1}))>>, <<B(Latest)>>}

Entry(s, l, c) == [source |-> s, label |-> l, commit |-> c]
NoLock == [q \in Names |-> None]
LockedOld == [NoLock EXCEPT !["p"] = Entry("P", 1, "px")]
LockedAll == [q \in Names |-> CASE q = "a" -> Entry("A", 1, "a1")
    [] q = "b" -> Entry("B", None, "bh") [] q = "p" -> Entry("P", 2, "p2")]
LockedMain == [NoLock EXCEPT !["b"] = Entry("B", main, "b0")]
LockedPin == [LockedAll EXCEPT !["p"] = Entry("P", main, "pm")]

Mars(lk, no, lost, late, fr, up) ==
    [lock |-> lk, refused |-> no, gone |-> lost, unpublished |-> late,
     frozen |-> fr, upgrade |-> up]
Environments == {
    Mars(NoLock, {}, {}, {2}, FALSE, {}),
    Mars(LockedOld, {}, {}, {}, FALSE, {}),
    Mars(LockedOld, {"p2"}, {"px"}, {}, FALSE, {}),
    Mars(LockedAll, {}, {}, {}, FALSE, {}),
    Mars(LockedAll, {"p2", "pm"}, {}, {}, TRUE, {}),
    Mars(LockedPin, {}, {}, {}, TRUE, {}),
    Mars(LockedAll, {"p2"}, {}, {}, FALSE, Names),
    Mars(LockedOld, {}, {}, {}, FALSE, {"a"})}

(* The branch of b's repository has moved since it was locked, and a and p   *)
(* are tagged for the first time after the first sync.                       *)
Moving == {Mars(LockedMain, {}, {}, late, FALSE, {}) : late \in {{}, {1, 2}}}

WorldsOf(directs, environments, ofA1, ofA2, ofB, ofP) ==
    {[direct |-> d, refused |-> e.refused, gone |-> e.gone,
      unpublished |-> e.unpublished,
      lock |-> e.lock, frozen |-> e.frozen, upgrade |-> e.upgrade,
      bump |-> e.upgrade # {},
      manifest |-> [c \in Shas |-> CASE c = "a1" -> a1 [] c = "a2" -> a2
          [] c = "bh" -> b [] c = "p2" -> p2 [] OTHER -> << >>]] :
     d \in directs, e \in environments,
     a1 \in ofA1, a2 \in ofA2, b \in ofB, p2 \in ofP}

AllWorlds ==
    WorldsOf(Directs, Environments, OfA1, OfA2, OfB, OfP)
    \cup WorldsOf({<<B(Latest), A(w)>> : w \in {Latest, Semver({2})}}, Moving,
                  {<< >>}, OfA2, {<< >>}, {<< >>})

PlainWorlds == {w \in AllWorlds : w.lock = LockedOld /\ w.refused = {}
                                  /\ w.upgrade = {}}
===============================================================================
