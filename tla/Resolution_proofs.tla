-------------------------- MODULE Resolution_proofs --------------------------
(***************************************************************************)
(* Theorems about Resolution, for any packages, repositories, tags,        *)
(* manifests, locks and worlds: the types, that the graph a resolution     *)
(* ends with is settled, and that the next sync repeats it from the lock.  *)
(*                                                                         *)
(* The argument. The stack is a path of requests (StackInv), so a request  *)
(* for a package that is still being resolved comes from below it and is   *)
(* exempt (VisitsResolving). A package is settled when it is registered    *)
(* (Registers) and stays so with every request that is found to hold       *)
(* (RevisitsHold): either the selection was made again, or the request is  *)
(* a range that the selected version meets, and then a selection under one *)
(* more range would be the same (RangeKeeps). A restart forgets the graph  *)
(* (FreshStep); later rejections concern a package that is not registered. *)
(*                                                                         *)
(* The next sync. The moments of a sync that was never started over form a *)
(* Trail, in which each is followed by another and passed the checks on    *)
(* the way. Every selection on it comes out the same from the lock it left *)
(* (Reselects), so what followed a moment follows it again                 *)
(* (FollowsReplayed), and as nothing else can follow (FollowsOnce,         *)
(* FollowsNow) the next sync stays on the trail until its end.             *)
(***************************************************************************)
EXTENDS Resolution, FiniteSetTheorems, WellFoundedInduction, TLAPS

-----------------------------------------------------------------------------
(* Types                                                                   *)

Ask == [by : Package \cup {Root}, want : Constraint]
Frame == [pkg : Package \cup {Root}, todo : Seq(Request)]
Node == [source : Source, ref : Ref]
Trial == [request : Request, carried : Ref \cup {None}, rejected : BOOLEAN]
Outcome == {"running", "ok", "identity", "oscillation", "engine", "frozen", "conflict",
            "panic"}
First == [registry : [Package -> Node \cup {None}], overrides : [Package -> Ref \cup {None}],
          moves : BOOLEAN]

CarriedType ==
    /\ overrides \in [Package -> Ref \cup {None}]
    /\ excluded \in [Package -> SUBSET Version]
    /\ history \in [Package -> Seq(Ref)]
ContextType ==
    /\ stack \in Seq(Frame)
    /\ trying \in Trial \cup {None}
    /\ states \in [Package -> {"unseen", "resolving", "resolved"}]
    /\ registry \in [Package -> Node \cup {None}]
    /\ asked \in [Package -> Seq(Ask)]
TypeOK ==
    /\ world \in World
    /\ CarriedType /\ ContextType
    /\ outcome \in Outcome
    /\ first \in First \cup {None}

-----------------------------------------------------------------------------
(* The walk                                                                *)

(* The stack is a path of requests down from mars.toml: each package on it *)
(* is registered and below those that are further out.                     *)
Depth == Len(stack) - 1
InPlace(i) == LET q == stack[i].pkg IN
    /\ states[q] = "resolving" /\ registry[q] # None
    /\ \A k \in DOMAIN stack[i].todo : stack[i].todo[k].name \in Needs(q)
Nested(i, j) == stack[i].pkg # stack[j].pkg /\ stack[i].pkg \in Below(stack[j].pkg)
StackInv ==
    /\ Depth \in Nat
    /\ \A i \in DOMAIN stack : stack[i].pkg = Root <=> i = Depth + 1
    /\ \A i \in 1..Depth : InPlace(i)
    /\ \A i, j \in 1..Depth : i < j => Nested(i, j)

(* A package is being resolved if it is on the stack or tried.             *)
OnStack(p) == \E i \in 1..Depth : stack[i].pkg = p
StatesInv == \A p \in Package :
    /\ states[p] = "unseen" => asked[p] = << >> /\ registry[p] = None
    /\ states[p] = "resolving" => OnStack(p) \/ (trying # None /\ trying.request.name = p)
    /\ states[p] = "resolved" => registry[p] # None

(* The package that is tried has been asked for once, by the innermost     *)
(* package of the stack.                                                   *)
TryingInv == trying # None => LET p == trying.request.name IN
    /\ states[p] = "resolving" /\ registry[p] = None
    /\ Len(asked[p]) = 1
    /\ Top.pkg # Root => p \in Needs(Top.pkg)
    /\ trying.carried # None => overrides[p] # None

-----------------------------------------------------------------------------
(* What requests and refs have to do with one another                      *)

Settled(p) == LET ref == registry[p].ref  src == registry[p].source IN
    IF overrides[p] = None
    THEN Agrees(Select(p, src, asked[p]), ref)
    ELSE Published(src) # {} =>
             \A i \in 2..Len(asked[p]) : Holds(p, src, asked[p][i].want, ref)
SettledInv == \A p \in Resolved : Acyclic(p) => Settled(p)

IInv == TypeOK /\ StackInv /\ StatesInv /\ TryingInv /\ SettledInv

-----------------------------------------------------------------------------
(* The newest version, and the one pin                                     *)

LEMMA LeastOf ==
    ASSUME NEW S, S \subseteq Nat, S # {}
    PROVE  \E x \in S : \A y \in S : x <= y
<1> DEFINE R == {xy \in Nat \X Nat : xy[1] < xy[2]}
<1>1. IsWellFoundedOn(R, Nat)
    BY NatLessThanWellFounded DEF OpToRel
<1>2. PICK x \in S : \A y \in S : ~(<<y, x>> \in R)
    BY <1>1, WFMin
<1>3. \A y \in S : x \in Nat /\ y \in Nat /\ ~(y < x)
    BY <1>2
<1> QED BY <1>3

LEMMA Antisymmetry ==
    ASSUME NEW a \in Nat, NEW b \in Nat, a >= b, b >= a
    PROVE  a = b
OBVIOUS

LEMMA Bounded ==
    ASSUME NEW S, S \subseteq Nat, IsFiniteSet(S)
    PROVE  \E b \in Nat : \A y \in S : y <= b
<1> DEFINE n == Cardinality(S)
<1>1. n \in Nat /\ ExistsBijection(1..n, S)
    BY FS_CardinalityType
<1>2. PICK f \in [1..n -> S] : \A y \in S : \E k \in 1..n : f[k] = y
    BY <1>1 DEF ExistsBijection, Bijection, Surjection
<1> HIDE DEF n
<1> DEFINE Covers(b, k) == \A i \in 1..k : f[i] <= b
           Open(k) == \A b \in Nat : ~Covers(b, k)
           T == {k \in 1..n : Open(k)}
<1>3. T \subseteq Nat
    BY <1>1
<1>4. ASSUME NEW k \in Nat, k + 1 <= n, ~Open(k) PROVE ~Open(k + 1)
    <2>1. PICK b \in Nat : Covers(b, k)
        BY <1>4
    <2>2. PICK c \in Nat : c = f[k + 1]
        <3>1. k + 1 \in 1..n
            BY <1>1, <1>4
        <3> QED BY <1>2, <3>1
    <2>3. PICK d \in Nat : b <= d /\ c <= d
        <3>1. b <= b + c /\ c <= b + c /\ b + c \in Nat
            OBVIOUS
        <3> QED BY <3>1
    <2>4. ASSUME NEW i \in 1..(k + 1) PROVE f[i] <= d
        <3>1. CASE i = k + 1
            BY <2>2, <2>3, <3>1
        <3>2. CASE i # k + 1
            <4>1. i \in 1..k /\ i \in 1..n
                BY <1>1, <1>4, <3>2
            <4>2. PICK e \in Nat : e = f[i]
                BY <1>2, <4>1
            <4>3. e <= b
                BY <2>1, <4>1, <4>2
            <4> HIDE DEF Covers
            <4> QED BY <2>3, <4>2, <4>3
        <3> QED BY <3>1, <3>2
    <2> QED BY <2>4
<1>5. ~Open(0)
    BY 0 \in Nat
<1>6. ASSUME T # {} PROVE FALSE
    <2> HIDE DEF T, Open
    <2>1. PICK k \in T : \A j \in T : k <= j
        BY <1>3, <1>6, LeastOf
    <2>2. k \in 1..n /\ Open(k)
        BY <2>1 DEF T
    <2>3. PICK m \in Nat : k = m + 1
        BY <1>1, <2>2
    <2>4. m \notin T /\ m + 1 <= n
        BY <1>1, <1>3, <2>1, <2>2, <2>3
    <2>5. m \in 1..n \/ m = 0
        BY <1>1, <2>4
    <2>6. ~Open(m)
        BY <1>5, <2>4, <2>5 DEF T
    <2> QED BY <1>4, <2>2, <2>3, <2>4, <2>6
<1>7. n \in 1..n \/ n = 0
    BY <1>1
<1>8. ~Open(n)
    <2> HIDE DEF Open
    <2> QED BY <1>5, <1>6, <1>7
<1> QED BY <1>2, <1>8

LEMMA MaxExists ==
    ASSUME NEW S, S \subseteq Nat, IsFiniteSet(S), S # {}
    PROVE  Max(S) \in S /\ \A y \in S : Max(S) >= y
<1> DEFINE T == {b \in Nat : \A y \in S : y <= b}
<1>1. T # {} /\ T \subseteq Nat
    BY Bounded
<1>2. PICK b \in T : \A c \in T : b <= c
    <2> HIDE DEF T
    <2> QED BY <1>1, LeastOf
<1>3. b \in Nat /\ \A y \in S : y <= b
    BY <1>2
<1>4. ASSUME b \notin S PROVE FALSE
    <2>1. PICK z \in Nat : z \in S
        OBVIOUS
    <2>2. b # 0
        BY <1>3, <1>4, <2>1
    <2>3. PICK c \in Nat : b = c + 1
        <3> HIDE DEF T
        <3> QED BY <1>3, <2>2
    <2>4. ASSUME NEW y \in S PROVE y <= c
        <3> HIDE DEF T
        <3>1. y \in Nat /\ y <= b /\ y # b
            BY <1>3, <1>4
        <3> QED BY <1>3, <2>3, <3>1
    <2>5. c \in T
        BY <2>4
    <2>6. b <= c
        BY <1>2, <2>5
    <2> HIDE DEF T
    <2> QED BY <2>3, <2>6
<1>5. \E x \in S : \A y \in S : x >= y
    <2> HIDE DEF T
    <2>1. \A y \in S : b >= y
        BY <1>3
    <2> QED BY <1>4, <2>1
<1> QED BY <1>5 DEF Max

LEMMA MaxIs ==
    ASSUME NEW S, S \subseteq Nat, IsFiniteSet(S), NEW x \in S, \A y \in S : x >= y
    PROVE  Max(S) = x
<1>1. Max(S) \in S /\ Max(S) >= x /\ x >= Max(S)
    BY MaxExists
<1>2. Max(S) \in Nat /\ x \in Nat
    BY <1>1
<1> QED BY <1>1, <1>2, Antisymmetry, Zenon

(* What one more request adds to what a list of them names.                *)
LEMMA WantsAppend ==
    ASSUME NEW asks \in Seq(Ask), NEW x \in Ask, NEW kind
    PROVE  Wants(Append(asks, x), kind) =
               Wants(asks, kind) \cup (IF x.want.kind = kind THEN {x.want.is} ELSE {})
<1> DEFINE more == Append(asks, x)
<1>1. /\ DOMAIN asks = 1..Len(asks) /\ Len(asks) \in Nat
      /\ DOMAIN more = 1..(Len(asks) + 1)
      /\ \A i \in 1..Len(asks) : more[i] = asks[i]
      /\ more[Len(asks) + 1] = x
    OBVIOUS
<1> HIDE DEF more
<1>2. Wants(more, kind) \subseteq Wants(asks, kind) \cup (IF x.want.kind = kind THEN {x.want.is} ELSE {})
    <2> SUFFICES ASSUME NEW i \in DOMAIN more, more[i].want.kind = kind
                 PROVE  more[i].want.is \in
                            Wants(asks, kind) \cup (IF x.want.kind = kind THEN {x.want.is} ELSE {})
        BY DEF Wants
    <2>1. i \in 1..Len(asks) \/ i = Len(asks) + 1
        BY <1>1
    <2> QED BY <1>1, <2>1 DEF Wants
<1>3. ASSUME NEW i \in DOMAIN asks, asks[i].want.kind = kind
      PROVE  asks[i].want.is \in Wants(more, kind)
    <2>1. i \in DOMAIN more /\ more[i] = asks[i]
        BY <1>1
    <2> QED BY <1>3, <2>1 DEF Wants
<1>4. ASSUME x.want.kind = kind PROVE x.want.is \in Wants(more, kind)
    <2>1. Len(asks) + 1 \in DOMAIN more
        BY <1>1
    <2> QED BY <1>1, <1>4, <2>1 DEF Wants
<1> QED BY <1>2, <1>3, <1>4 DEF Wants, more

LEMMA OnePin ==
    ASSUME NEW asks \in Seq(Ask), Settles(asks), NEW b \in Wants(asks, "pin")
    PROVE  (CHOOSE c \in Wants(asks, "pin") : TRUE) = b
<1> DEFINE W == Wants(asks, "pin")
           J == {j \in DOMAIN asks : asks[j].want.kind = "pin"}
           f == [i \in J |-> asks[i].want.is]
<1>1. IsFiniteSet(J)
    <2>1. Len(asks) \in Int /\ 1 \in Int /\ DOMAIN asks = 1..Len(asks)
        OBVIOUS
    <2>2. IsFiniteSet(DOMAIN asks) /\ J \subseteq DOMAIN asks
        BY <2>1, FS_Interval, Zenon
    <2> QED BY <2>2, FS_Subset, Zenon
<1>2. f \in Surjection(J, W)
    BY DEF Surjection, Wants
<1>3. IsFiniteSet(W)
    BY <1>1, <1>2, FS_Surjection
<1>4. Cardinality(W) <= 1
    BY DEF Settles
<1>5. ASSUME NEW c \in W PROVE c = b
    <2> SUFFICES ASSUME c # b PROVE FALSE
        OBVIOUS
    <2>1. IsFiniteSet({b}) /\ Cardinality({b}) = 1
        BY FS_Singleton
    <2>2. Cardinality({b} \cup {c}) = Cardinality({b}) + 1
        <3>1. c \notin {b}
            OBVIOUS
        <3> QED BY <2>1, <3>1, FS_AddElement, Zenon
    <2>3. {b} \cup {c} \in SUBSET W
        BY <1>5
    <2>4. Cardinality({b} \cup {c}) <= Cardinality(W) /\ Cardinality(W) \in Nat
        BY <1>3, <2>3, FS_Subset, FS_CardinalityType
    <2>5. PICK n : n = Cardinality(W)
        OBVIOUS
    <2>6. PICK k : k = Cardinality({b} \cup {c})
        OBVIOUS
    <2>7. n \in Nat /\ n <= 1 /\ k = 2 /\ k <= n
        <3>1. Cardinality({b}) + 1 = 2
            BY <2>1
        <3> QED BY <1>4, <2>2, <2>4, <2>5, <2>6, <3>1, Zenon
    <2> HIDE DEF W
    <2> QED BY <2>7
<1> QED BY <1>5

-----------------------------------------------------------------------------
(* Selection of a ref                                                      *)

(* Only tags of the version set can be newest.                             *)
Tagged(p, s, asks) == {v \in Published(s) : Allows(p, asks, v)}

LEMMA NewestTagged ==
    ASSUME NEW p, NEW s \in Source, NEW asks, Tagged(p, s, asks) # {}
    PROVE  /\ Tagged(p, s, asks) \subseteq Nat /\ IsFiniteSet(Tagged(p, s, asks))
           /\ Max(Tagged(p, s, asks)) \in Tagged(p, s, asks)
<1>1. Tagged(p, s, asks) \subseteq Version
    BY UpstreamAssumption DEF Tagged, Published
<1>2. IsFiniteSet(Version) /\ Version \subseteq Nat
    BY UpstreamAssumption
<1>3. IsFiniteSet(Tagged(p, s, asks)) /\ Tagged(p, s, asks) \subseteq Nat
    BY <1>1, <1>2, FS_Subset
<1> QED BY <1>3, MaxExists

(* SelectTag in terms of the tags that the requests allow.                 *)
LEMMA TagSelected ==
    ASSUME NEW p, NEW s \in Source, NEW asks, NEW lk,
           SelectTag(p, s, asks, lk).error = None
    PROVE  \E v \in Tagged(p, s, asks) :
               /\ SelectTag(p, s, asks, lk) = At(v, v, Tags[s][v])
               /\ v = IF KeepsLock(p, asks, lk) /\ lk.label \in Tagged(p, s, asks)
                      THEN lk.label ELSE Max(Tagged(p, s, asks))
<1> DEFINE allowed == Tagged(p, s, asks)
           v == IF KeepsLock(p, asks, lk) /\ lk.label \in allowed
                THEN lk.label ELSE Max(allowed)
<1>1. SelectTag(p, s, asks, lk) =
          IF allowed = {} THEN Fails("conflict") ELSE At(v, v, Tags[s][v])
    BY DEF SelectTag, Tagged
<1>2. Fails("conflict").error # None
    BY NoneAssumption DEF Fails
<1> HIDE DEF allowed
<1>3. allowed # {}
    BY <1>1, <1>2
<1>4. Max(allowed) \in allowed
    BY <1>3, NewestTagged DEF allowed
<1>5. v \in allowed
    BY <1>4
<1> HIDE DEF v
<1>6. SelectTag(p, s, asks, lk) = At(v, v, Tags[s][v])
    BY <1>1, <1>3
<1> QED BY <1>5, <1>6 DEF v, allowed

LEMMA LockedType ==
    ASSUME world \in World, NEW p \in Package, NEW s, LockOf(p, s) # None
    PROVE  LockOf(p, s) \in Locked /\ LockOf(p, s).source = s
BY DEF World, LockOf

LEMMA AtFields ==
    ASSUME NEW v, NEW label, NEW c
    PROVE  /\ At(v, label, c).error = None
           /\ At(v, label, c).ref.version = v
           /\ At(v, label, c).ref.commit = c
           /\ v \in Version \cup {None} /\ label \in Version \cup Pin \cup {None}
              /\ c \in Commit => At(v, label, c).ref \in Ref
BY DEF At, Ref

LEMMA FailsFields ==
    ASSUME NEW e \in {"frozen", "conflict"}
    PROVE  Fails(e).error = e /\ Fails(e).error # None
BY NoneAssumption DEF Fails

LEMMA PinsArePins ==
    ASSUME NEW asks \in Seq(Ask)
    PROVE  Wants(asks, "pin") \subseteq Pin
<1> SUFFICES ASSUME NEW i \in DOMAIN asks, asks[i].want.kind = "pin"
             PROVE  asks[i].want.is \in Pin
    BY DEF Wants
<1>1. asks[i] \in Ask
    OBVIOUS
<1>2. asks[i].want \in Constraint
    BY <1>1 DEF Ask
<1> QED BY <1>2 DEF Constraint, Latest, Semver, RefPin

LEMMA PinSelected ==
    ASSUME world \in World, NEW p \in Package, NEW s \in Source, NEW b \in Pin,
           SelectPin(p, s, LockOf(p, s), b).error = None
    PROVE  \E c \in Commit : SelectPin(p, s, LockOf(p, s), b) = At(None, b, c)
<1> DEFINE lk == LockOf(p, s)
           here == lk # None /\ lk.label = b /\ Fetchable(lk)
           c == IF here THEN lk.commit ELSE Branch[s][b]
<1>1. lk # None => lk \in Locked
    BY LockedType
<1>2. Branch[s][b] \in Commit
    BY UpstreamAssumption
<1>3. c \in Commit
    BY <1>1, <1>2 DEF Locked
<1>4. ~(Mode(p) = "frozen" /\ ~here)
    BY FailsFields DEF SelectPin
<1>5. SelectPin(p, s, lk, b) = At(None, b, c)
    BY <1>4 DEF SelectPin
<1> QED BY <1>3, <1>5

LEMMA FrozenSelected ==
    ASSUME world \in World, NEW p \in Package, NEW s \in Source, NEW asks,
           SelectFrozen(p, asks, LockOf(p, s)).error = None
    PROVE  LET lk == LockOf(p, s) IN
           /\ Fetchable(lk) /\ lk \in Locked
           /\ \/ /\ lk.label = None /\ Wants(asks, "semver") = {}
                 /\ SelectFrozen(p, asks, lk) = At(None, None, lk.commit)
              \/ /\ lk.label \in Version /\ Allows(p, asks, lk.label)
                 /\ SelectFrozen(p, asks, lk) = At(lk.label, lk.label, lk.commit)
<1> DEFINE lk == LockOf(p, s)
<1>1. Fetchable(lk)
    BY FailsFields DEF SelectFrozen
<1>2. lk \in Locked
    BY <1>1, LockedType DEF Fetchable
<1>3. \/ lk.label = None /\ Wants(asks, "semver") = {}
      \/ lk.label \in Version /\ Allows(p, asks, lk.label)
    BY <1>1, FailsFields DEF SelectFrozen
<1>4. None \notin Version
    BY UpstreamAssumption
<1> HIDE DEF lk
<1> QED BY <1>1, <1>2, <1>3, <1>4 DEF SelectFrozen, lk

(* What the branches of Select have in common, when a ref is selected.     *)
ByPin(p, s, asks, sel) == \E b \in Wants(asks, "pin"), c \in Commit :
    /\ Wants(asks, "semver") = {}
    /\ sel = SelectPin(p, s, LockOf(p, s), b) /\ sel = At(None, b, c)
ByHead(p, s, asks, sel) == \E c \in Commit :
    /\ Wants(asks, "pin") = {} /\ sel = At(None, None, c)
    /\ Published(s) = {} \/ Wants(asks, "semver") = {}
ByVersion(p, s, asks, sel) == \E v \in Version, c \in Commit :
    /\ Wants(asks, "pin") = {} /\ sel = At(v, v, c) /\ Allows(p, asks, v)

LEMMA Selected ==
    ASSUME world \in World, NEW p \in Package, NEW s \in Source, NEW asks \in Seq(Ask),
           Select(p, s, asks).error = None
    PROVE  /\ Settles(asks)
           /\ ~(Mode(p) = "frozen" /\ world.lock[p] # LockOf(p, s))
           /\ \/ ByPin(p, s, asks, Select(p, s, asks))
              \/ ByHead(p, s, asks, Select(p, s, asks))
              \/ ByVersion(p, s, asks, Select(p, s, asks))
<1> DEFINE lk == LockOf(p, s)
           sel == Select(p, s, asks)
<1>1. ~(Mode(p) = "frozen" /\ world.lock[p] # lk) /\ Settles(asks)
    BY FailsFields DEF Select
<1>2. CASE Wants(asks, "pin") # {}
    <2>1. PICK b \in Wants(asks, "pin") : b = CHOOSE c \in Wants(asks, "pin") : TRUE
        BY <1>2
    <2>2. sel = SelectPin(p, s, lk, b)
        BY <1>1, <1>2, <2>1 DEF Select
    <2>3. b \in Pin
        BY PinsArePins
    <2>4. PICK c \in Commit : SelectPin(p, s, lk, b) = At(None, b, c)
        BY <2>2, <2>3, PinSelected
    <2> QED BY <1>1, <1>2, <2>2, <2>4 DEF ByPin, Settles
<1>3. CASE Wants(asks, "pin") = {} /\ Mode(p) = "frozen"
    <2>1. sel = SelectFrozen(p, asks, lk)
        BY <1>1, <1>3 DEF Select
    <2>2. /\ lk \in Locked
          /\ \/ /\ lk.label = None /\ Wants(asks, "semver") = {}
                /\ sel = At(None, None, lk.commit)
             \/ /\ lk.label \in Version /\ Allows(p, asks, lk.label)
                /\ sel = At(lk.label, lk.label, lk.commit)
        BY <2>1, FrozenSelected
    <2>3. lk.commit \in Commit
        BY <2>2 DEF Locked
    <2> HIDE DEF sel, lk
    <2>4. ByHead(p, s, asks, sel) \/ ByVersion(p, s, asks, sel)
        BY <1>3, <2>2, <2>3 DEF ByHead, ByVersion
    <2> QED BY <1>1, <2>4 DEF sel, lk
<1>4. CASE Wants(asks, "pin") = {} /\ Mode(p) # "frozen" /\ KeepsLock(p, asks, lk) /\ Fetchable(lk)
    <2>1. sel = At(lk.label, lk.label, lk.commit)
        BY <1>1, <1>4 DEF Select
    <2>2. lk \in Locked /\ lk.commit \in Commit
        BY <1>4, LockedType DEF KeepsLock, Locked
    <2>3. lk.label \in Version /\ Allows(p, asks, lk.label)
        BY <1>4 DEF KeepsLock
    <2> HIDE DEF sel, lk
    <2>4. ByVersion(p, s, asks, sel)
        BY <1>4, <2>1, <2>2, <2>3 DEF ByVersion
    <2> QED BY <1>1, <2>4 DEF sel, lk
<1>5. CASE Wants(asks, "pin") = {} /\ Mode(p) # "frozen" /\ ~(KeepsLock(p, asks, lk) /\ Fetchable(lk))
    <2>1. CASE Published(s) = {}
        <3>1. sel = SelectHead(p, s, lk)
            BY <1>1, <1>5, <2>1 DEF Select
        <3>2. PICK c : /\ c = IF Mode(p) = "prefer" /\ Fetchable(lk) THEN lk.commit
                              ELSE Branch[s][HEAD]
                       /\ sel = At(None, None, c)
            BY <3>1 DEF SelectHead
        <3>3. c \in Commit
            BY <3>2, LockedType, UpstreamAssumption DEF Fetchable, Locked
        <3> QED BY <1>1, <1>5, <2>1, <3>2, <3>3 DEF ByHead
    <2>2. CASE Published(s) # {}
        <3>1. sel = SelectTag(p, s, asks, lk)
            BY <1>1, <1>5, <2>2 DEF Select
        <3>2. PICK v \in Tagged(p, s, asks) : sel = At(v, v, Tags[s][v])
            BY <3>1, TagSelected
        <3>3. v \in Version /\ Tags[s][v] \in Commit /\ Allows(p, asks, v)
            BY UpstreamAssumption DEF Tagged, Published
        <3> QED BY <1>1, <1>5, <3>2, <3>3 DEF ByVersion
    <2> QED BY <2>1, <2>2
<1> QED BY <1>2, <1>3, <1>4, <1>5

LEMMA SelectedType ==
    ASSUME world \in World, NEW p \in Package, NEW s \in Source, NEW asks \in Seq(Ask),
           Select(p, s, asks).error = None
    PROVE  Select(p, s, asks).ref \in Ref
<1>1. Wants(asks, "pin") \subseteq Pin
    BY PinsArePins
<1> QED BY <1>1, Selected, AtFields DEF ByPin, ByHead, ByVersion

LEMMA SelectErrors ==
    ASSUME NEW p, NEW s, NEW asks
    PROVE  Select(p, s, asks).error \in {None, "frozen", "conflict"}
<1> DEFINE lk == LockOf(p, s)
           Known(sel) == sel.error \in {None, "frozen", "conflict"}
<1>1. /\ Known(Fails("frozen")) /\ Known(Fails("conflict"))
      /\ \A v, label, c : Known(At(v, label, c))
    BY DEF Fails, At
<1> HIDE DEF Known
<1>2. \A b : Known(SelectPin(p, s, lk, b))
    BY <1>1 DEF SelectPin
<1>3. Known(SelectFrozen(p, asks, lk))
    BY <1>1 DEF SelectFrozen
<1>4. Known(SelectHead(p, s, lk))
    BY <1>1 DEF SelectHead
<1>5. Known(SelectTag(p, s, asks, lk))
    BY <1>1 DEF SelectTag
<1>6. Known(Select(p, s, asks))
    BY <1>1, <1>2, <1>3, <1>4, <1>5 DEF Select
<1> QED BY <1>6 DEF Known

(* A selection holds for every request it was made under.                  *)
LEMMA SelectionHolds ==
    ASSUME world \in World, NEW p \in Package, NEW s \in Source,
           NEW asks \in Seq(Ask), NEW x \in Ask, NEW ref,
           Agrees(Select(p, s, Append(asks, x)), ref), Published(s) # {}
    PROVE  Holds(p, s, x.want, ref)
<1> DEFINE more == Append(asks, x)
           sel == Select(p, s, more)
<1>1. more \in Seq(Ask)
    OBVIOUS
<1>2. \A kind : x.want.kind = kind => x.want.is \in Wants(more, kind)
    BY WantsAppend
<1>3. sel.error = None /\ sel.ref.version = ref.version /\ sel.ref.commit = ref.commit
    BY DEF Agrees, Changes
<1> HIDE DEF more
<1>4. /\ Settles(more)
      /\ ByPin(p, s, more, sel) \/ ByHead(p, s, more, sel) \/ ByVersion(p, s, more, sel)
    BY <1>1, <1>3, Selected
<1>5. x.want \in Constraint
    BY DEF Ask
<1>6. CASE x.want.kind = "latest"
    BY <1>6 DEF Holds
<1>7. CASE x.want.kind = "semver"
    <2>1. x.want.is \in Wants(more, "semver")
        BY <1>2, <1>7
    <2>2. ~ByPin(p, s, more, sel) /\ ~ByHead(p, s, more, sel)
        BY <2>1 DEF ByPin, ByHead
    <2>3. PICK v \in Version, c \in Commit : sel = At(v, v, c) /\ Allows(p, more, v)
        BY <1>4, <2>2 DEF ByVersion
    <2>4. v \in x.want.is
        BY <2>1, <2>3 DEF Allows
    <2>5. ref.version = v
        BY <1>3, <2>3, AtFields
    <2> QED BY <1>7, <2>4, <2>5 DEF Holds
<1>8. CASE x.want.kind = "pin"
    <2>1. x.want.is \in Wants(more, "pin")
        BY <1>2, <1>8
    <2>2. ByPin(p, s, more, sel)
        BY <1>4, <2>1 DEF ByHead, ByVersion
    <2>3. PICK b \in Wants(more, "pin") : sel = SelectPin(p, s, LockOf(p, s), b)
        BY <2>2 DEF ByPin
    <2>4. b = x.want.is
        BY <1>1, <1>4, <2>1, OnePin
    <2>5. Agrees(SelectPin(p, s, LockOf(p, s), x.want.is), ref)
        BY <1>3, <2>3, <2>4 DEF Agrees, Changes
    <2> QED BY <1>8, <2>5 DEF Holds
<1> QED BY <1>5, <1>6, <1>7, <1>8 DEF Constraint, Latest, Semver, RefPin

(* A range that holds for a selection does not change it: CannotChange.    *)
LEMMA RangeKeeps ==
    ASSUME world \in World, NEW p \in Package, NEW s \in Source,
           NEW asks \in Seq(Ask), NEW x \in Ask, x.want.kind = "semver",
           Select(p, s, asks).error = None,
           Select(p, s, asks).ref.version \in x.want.is
    PROVE  Select(p, s, Append(asks, x)) = Select(p, s, asks)
<1> DEFINE more == Append(asks, x)
           lk == LockOf(p, s)
           sel == Select(p, s, asks)
           v == sel.ref.version
<1>1. /\ Wants(more, "pin") = Wants(asks, "pin")
      /\ Wants(more, "latest") = Wants(asks, "latest")
      /\ Wants(more, "semver") = Wants(asks, "semver") \cup {x.want.is}
    <2>1. \A kind : Wants(more, kind) =
              Wants(asks, kind) \cup (IF x.want.kind = kind THEN {x.want.is} ELSE {})
        BY WantsAppend
    <2> HIDE DEF more
    <2> QED BY <2>1
<1>2. x.want.is \subseteq Version /\ None \notin Version
    <2>1. x.want \in Constraint
        BY DEF Ask
    <2>2. PICK S \in SUBSET Version : x.want = Semver(S)
        <3>1. x.want # Latest /\ \A b \in Pin : x.want # RefPin(b)
            BY DEF Latest, RefPin
        <3>2. x.want \in {Semver(S) : S \in SUBSET Version}
            BY <2>1, <3>1 DEF Constraint
        <3> QED BY <3>2
    <2> QED BY <2>2, UpstreamAssumption DEF Semver
<1>3. v \in Version /\ v # None
    BY <1>2
<1> HIDE DEF more
<1>4. /\ Settles(asks) /\ ~(Mode(p) = "frozen" /\ world.lock[p] # lk)
      /\ ByVersion(p, s, asks, sel)
    <2>1. ~ByPin(p, s, asks, sel) /\ ~ByHead(p, s, asks, sel)
        BY <1>3, AtFields DEF ByPin, ByHead
    <2> QED BY <2>1, Selected
<1>5. Wants(asks, "pin") = {} /\ Wants(more, "pin") = {} /\ Settles(more)
    BY <1>1, <1>4 DEF ByVersion, Settles
<1>6. \A u : Allows(p, more, u) <=> Allows(p, asks, u) /\ u \in x.want.is
    BY <1>1 DEF Allows
<1>7. \A k : KeepsLock(p, more, k) <=> KeepsLock(p, asks, k) /\ k.label \in x.want.is
    BY <1>1, <1>6 DEF KeepsLock
<1>8. CASE Mode(p) = "frozen"
    <2>1. sel = SelectFrozen(p, asks, lk) /\ Select(p, s, more) = SelectFrozen(p, more, lk)
        BY <1>4, <1>5, <1>8 DEF Select
    <2>2. /\ Fetchable(lk) /\ lk.label \in Version /\ Allows(p, asks, lk.label)
          /\ sel = At(lk.label, lk.label, lk.commit)
        BY <1>3, <2>1, FrozenSelected, AtFields
    <2>3. v = lk.label
        BY <2>2, AtFields
    <2>4. Allows(p, more, lk.label) /\ lk.label # None
        BY <1>3, <1>6, <2>2, <2>3
    <2>5. SelectFrozen(p, more, lk) = At(lk.label, lk.label, lk.commit)
        BY <2>2, <2>4 DEF SelectFrozen
    <2> QED BY <2>1, <2>2, <2>5 DEF more
<1>9. CASE Mode(p) # "frozen" /\ KeepsLock(p, asks, lk) /\ Fetchable(lk)
    <2>1. sel = At(lk.label, lk.label, lk.commit)
        BY <1>4, <1>5, <1>9 DEF Select
    <2>2. v = lk.label
        BY <2>1, AtFields
    <2>3. KeepsLock(p, more, lk)
        BY <1>7, <1>9, <2>2
    <2>4. Select(p, s, more) = At(lk.label, lk.label, lk.commit)
        BY <1>5, <1>9, <2>3 DEF Select
    <2> QED BY <2>1, <2>4 DEF more
<1>10. CASE Mode(p) # "frozen" /\ ~(KeepsLock(p, asks, lk) /\ Fetchable(lk))
    <2>1. ~(KeepsLock(p, more, lk) /\ Fetchable(lk))
        BY <1>7, <1>10
    <2>2. Published(s) # {}
        <3> SUFFICES ASSUME Published(s) = {} PROVE FALSE
            OBVIOUS
        <3>1. sel = SelectHead(p, s, lk)
            BY <1>4, <1>5, <1>10 DEF Select
        <3>2. v = None
            BY <3>1, AtFields DEF SelectHead
        <3> QED BY <1>3, <3>2
    <2>3. sel = SelectTag(p, s, asks, lk) /\ Select(p, s, more) = SelectTag(p, s, more, lk)
        BY <1>4, <1>5, <1>10, <2>1, <2>2 DEF Select
    <2> DEFINE old == Tagged(p, s, asks)
               new == Tagged(p, s, more)
    <2>4. PICK u \in old :
              /\ sel = At(u, u, Tags[s][u])
              /\ u = IF KeepsLock(p, asks, lk) /\ lk.label \in old
                     THEN lk.label ELSE Max(old)
        BY <2>3, TagSelected
    <2>5. u = v
        BY <2>4, AtFields
    <2>6. new = old \cap x.want.is /\ u \in new
        BY <1>6, <2>4, <2>5 DEF Tagged
    <2>7. u = IF KeepsLock(p, more, lk) /\ lk.label \in new
              THEN lk.label ELSE Max(new)
        <3>1. CASE KeepsLock(p, asks, lk) /\ lk.label \in old
            BY <1>7, <2>4, <2>5, <2>6, <3>1
        <3>2. CASE ~(KeepsLock(p, asks, lk) /\ lk.label \in old)
            <4>1. u = Max(old)
                BY <2>4, <3>2
            <4>2. old \subseteq Nat /\ IsFiniteSet(old) /\ \A y \in old : Max(old) >= y
                BY <2>4, NewestTagged, MaxExists
            <4>3. new \subseteq Nat /\ IsFiniteSet(new) /\ \A y \in new : u >= y
                <5> HIDE DEF old, new
                <5>1. new \subseteq old
                    BY <2>6
                <5> QED BY <4>1, <4>2, <5>1, FS_Subset
            <4>4. Max(new) = u
                <5> HIDE DEF new
                <5> QED BY <2>6, <4>3, MaxIs
            <4>5. ~(KeepsLock(p, more, lk) /\ lk.label \in new)
                BY <1>7, <2>6, <3>2
            <4> QED BY <4>4, <4>5
        <3> QED BY <3>1, <3>2
    <2>8. SelectTag(p, s, more, lk) = At(u, u, Tags[s][u])
        <3>1. SelectTag(p, s, more, lk) =
                  IF new = {} THEN Fails("conflict")
                  ELSE LET w == IF KeepsLock(p, more, lk) /\ lk.label \in new
                                THEN lk.label ELSE Max(new)
                       IN  At(w, w, Tags[s][w])
            BY DEF SelectTag, Tagged
        <3> HIDE DEF new
        <3> QED BY <2>6, <2>7, <3>1
    <2> QED BY <2>3, <2>4, <2>8 DEF more
<1> QED BY <1>8, <1>9, <1>10

-----------------------------------------------------------------------------
(* What is below a package                                                 *)

LEMMA NeedsBelow ==
    ASSUME NEW p, NEW q, NEW x \in Package, x \in Needs(q), q = p \/ q \in Below(p)
    PROVE  x \in Below(p)
BY DEF Below

(* More packages that are registered leave more below each.                *)
LEMMA BelowGrows ==
    ASSUME NEW p, Needs(p) \subseteq Needs(p)',
           \A q \in Package : Needs(q) \subseteq Needs(q)'
    PROVE  Below(p) \subseteq Below(p)'
BY DEF Below

-----------------------------------------------------------------------------
(* A package is selected alike while neither the world nor what the        *)
(* engines refuse of it changes.                                           *)

LEMMA SelectSame ==
    ASSUME world' = world, NEW p, excluded'[p] = excluded[p]
    PROVE  \A s, asks : Select(p, s, asks)' = Select(p, s, asks)
<1>1. Mode(p)' = Mode(p)
    BY DEF Mode
<1>2. \A asks, v : Allows(p, asks, v)' <=> Allows(p, asks, v)
    BY DEF Allows
<1>3. \A s : Published(s)' = Published(s)
    BY DEF Published
<1>4. \A s : LockOf(p, s)' = LockOf(p, s)
    BY <1>1 DEF LockOf
<1>5. \A lk : Fetchable(lk)' <=> Fetchable(lk)
    BY DEF Fetchable
<1>6. \A asks, lk : KeepsLock(p, asks, lk)' <=> KeepsLock(p, asks, lk)
    BY <1>1, <1>2 DEF KeepsLock
<1>7. \A s, lk, b : SelectPin(p, s, lk, b)' = SelectPin(p, s, lk, b)
    BY <1>1, <1>5 DEF SelectPin
<1>8. \A asks, lk : SelectFrozen(p, asks, lk)' = SelectFrozen(p, asks, lk)
    BY <1>2, <1>5 DEF SelectFrozen
<1>9. \A s, lk : SelectHead(p, s, lk)' = SelectHead(p, s, lk)
    BY <1>1, <1>5 DEF SelectHead
<1>10. \A s, asks, lk : SelectTag(p, s, asks, lk)' = SelectTag(p, s, asks, lk)
    <2> SUFFICES ASSUME NEW s, NEW asks, NEW lk
                 PROVE  SelectTag(p, s, asks, lk)' = SelectTag(p, s, asks, lk)
        OBVIOUS
    <2>1. {v \in Published(s)' : Allows(p, asks, v)'} = {v \in Published(s) : Allows(p, asks, v)}
        BY <1>2, <1>3
    <2> QED BY <1>6, <2>1 DEF SelectTag
<1> SUFFICES ASSUME NEW s, NEW asks PROVE Select(p, s, asks)' = Select(p, s, asks)
    OBVIOUS
<1> QED BY <1>1, <1>3, <1>4, <1>5, <1>6, <1>7, <1>8, <1>9, <1>10 DEF Select

LEMMA PinSame ==
    ASSUME world' = world
    PROVE  \A p, s, b : SelectPin(p, s, LockOf(p, s), b)' = SelectPin(p, s, LockOf(p, s), b)
BY DEF SelectPin, LockOf, Fetchable, Mode

LEMMA SettledSame ==
    ASSUME world' = world, NEW p, excluded'[p] = excluded[p],
           registry'[p] = registry[p], overrides'[p] = overrides[p], asked'[p] = asked[p],
           Settled(p)
    PROVE  Settled(p)'
<1>1. \A s, asks, ref : Agrees(Select(p, s, asks), ref)' <=> Agrees(Select(p, s, asks), ref)
    BY SelectSame DEF Agrees, Changes
<1>2. \A s, want, ref : Holds(p, s, want, ref)' <=> Holds(p, s, want, ref)
    BY PinSame DEF Holds, Agrees, Changes
<1>3. \A s : Published(s)' = Published(s)
    BY DEF Published
<1> QED BY <1>1, <1>2, <1>3 DEF Settled

-----------------------------------------------------------------------------
(* The stack                                                               *)

LEMMA TopOfStack ==
    ASSUME TypeOK, StackInv
    PROVE  /\ Len(stack) \in Nat /\ Len(stack) >= 1
           /\ stack # << >> /\ DOMAIN stack = 1..Len(stack) /\ Depth = Len(stack) - 1
           /\ Top = stack[1] /\ Top \in Frame
           /\ Top.todo \in Seq(Request) /\ Top.pkg \in Package \cup {Root}
           /\ Top.pkg = Root <=> Depth = 0
<1>1. /\ stack \in Seq(Frame) /\ Len(stack) \in Nat /\ Depth \in Nat
      /\ Depth = Len(stack) - 1 /\ DOMAIN stack = 1..Len(stack)
    BY DEF TypeOK, ContextType, StackInv, Depth
<1>2. Len(stack) >= 1 /\ stack # << >>
    BY <1>1
<1>3. Top = stack[1] /\ Top \in Frame
    BY <1>1, <1>2 DEF Top
<1>4. Top.pkg = Root <=> 1 = Depth + 1
    BY <1>1, <1>2, <1>3 DEF StackInv
<1> QED BY <1>1, <1>2, <1>3, <1>4 DEF Frame

(* What a step that deals with the first request of a manifest leaves.     *)
LEMMA PoppedStack ==
    ASSUME TypeOK, StackInv, Requested
    PROVE  /\ Pending \in Request /\ Pending = Top.todo[1] /\ 1 \in DOMAIN Top.todo
           /\ Popped \in Seq(Frame) /\ Len(Popped) = Len(stack)
           /\ DOMAIN Popped = DOMAIN stack
           /\ Popped[1] = [pkg |-> Top.pkg, todo |-> Tail(Top.todo)]
           /\ \A i \in 2..Len(stack) : Popped[i] = stack[i]
           /\ \A i \in DOMAIN stack : Popped[i].pkg = stack[i].pkg
           /\ \A k \in DOMAIN Tail(Top.todo) :
                  k + 1 \in DOMAIN Top.todo /\ Tail(Top.todo)[k] = Top.todo[k + 1]
<1>1. /\ stack \in Seq(Frame) /\ stack # << >> /\ Top = stack[1] /\ Top \in Frame
      /\ Len(stack) \in Nat /\ Len(stack) >= 1 /\ DOMAIN stack = 1..Len(stack)
      /\ Top.todo \in Seq(Request) /\ Top.todo # << >>
    BY TopOfStack DEF TypeOK, ContextType, Requested
<1>2. Pending \in Request /\ Pending = Top.todo[1] /\ 1 \in DOMAIN Top.todo
    <2>1. \A todo \in Seq(Request) : todo # << >> =>
              Head(todo) \in Request /\ Head(todo) = todo[1] /\ 1 \in DOMAIN todo
        OBVIOUS
    <2> QED BY <1>1, <2>1 DEF Pending
<1>3. \A k \in DOMAIN Tail(Top.todo) :
          k + 1 \in DOMAIN Top.todo /\ Tail(Top.todo)[k] = Top.todo[k + 1]
    <2>1. \A todo \in Seq(Request) : todo # << >> =>
              \A k \in DOMAIN Tail(todo) : k + 1 \in DOMAIN todo /\ Tail(todo)[k] = todo[k + 1]
        OBVIOUS
    <2> QED BY <1>1, <2>1
<1> DEFINE f == [Top EXCEPT !.todo = Tail(@)]
<1>4. f = [pkg |-> Top.pkg, todo |-> Tail(Top.todo)] /\ f \in Frame
    <2>1. Tail(Top.todo) \in Seq(Request)
        BY <1>1
    <2>2. \A t \in Frame : \A d : [t EXCEPT !.todo = d] = [pkg |-> t.pkg, todo |-> d]
        BY DEF Frame
    <2>3. f = [pkg |-> Top.pkg, todo |-> Tail(Top.todo)]
        BY <1>1, <2>2
    <2>4. Top.pkg \in Package \cup {Root}
        BY <1>1 DEF Frame
    <2> HIDE DEF f
    <2> QED BY <2>1, <2>3, <2>4 DEF Frame
<1>5. Popped = <<f>> \o Tail(stack)
    BY DEF Popped
<1> HIDE DEF f
<1>6. /\ Popped \in Seq(Frame) /\ Len(Popped) = Len(stack)
      /\ Popped[1] = f /\ \A i \in 2..Len(stack) : Popped[i] = stack[i]
    <2>1. /\ Tail(stack) \in Seq(Frame) /\ Len(Tail(stack)) = Len(stack) - 1
          /\ \A i \in 1..(Len(stack) - 1) : Tail(stack)[i] = stack[i + 1]
        BY <1>1
    <2>2. <<f>> \in Seq(Frame) /\ Len(<<f>>) = 1 /\ <<f>>[1] = f
        BY <1>4
    <2>3. /\ Popped \in Seq(Frame) /\ Len(Popped) = 1 + (Len(stack) - 1)
          /\ Popped[1] = f
          /\ \A i \in 2..Len(stack) : Popped[i] = Tail(stack)[i - 1]
        BY <1>1, <1>5, <2>1, <2>2
    <2> QED BY <1>1, <2>1, <2>3
<1>7. \A i \in DOMAIN stack : Popped[i].pkg = stack[i].pkg
    <2>1. \A i \in DOMAIN stack : i = 1 \/ i \in 2..Len(stack)
        BY <1>1
    <2>2. f.pkg = Top.pkg
        BY <1>4
    <2> QED BY <1>1, <1>6, <2>1, <2>2
<1>8. DOMAIN Popped = DOMAIN stack
    BY <1>1, <1>6
<1> QED BY <1>2, <1>3, <1>4, <1>6, <1>7, <1>8

LEMMA BelowSame ==
    ASSUME world' = world, registry' = registry
    PROVE  \A p : Needs(p)' = Needs(p) /\ Below(p)' = Below(p)
<1>1. \A p : Needs(p)' = Needs(p)
    BY DEF Needs
<1> QED BY <1>1 DEF Below

(* Nothing but the outcome changes.                                        *)
LEMMA Unmoved ==
    ASSUME IInv, UNCHANGED <<world, carried, context, first>>, outcome' \in Outcome
    PROVE  IInv'
<1>1. /\ world' = world /\ overrides' = overrides /\ excluded' = excluded
      /\ history' = history /\ stack' = stack /\ trying' = trying /\ states' = states
      /\ registry' = registry /\ asked' = asked /\ first' = first
    BY DEF carried, context
<1>2. TypeOK'
    BY <1>1 DEF IInv, TypeOK, CarriedType, ContextType
<1>3. StackInv'
    BY <1>1, BelowSame DEF IInv, StackInv, Depth, InPlace, Nested
<1>4. StatesInv'
    BY <1>1 DEF IInv, StatesInv, OnStack, Depth
<1>5. TryingInv'
    BY <1>1, BelowSame DEF IInv, TryingInv, Top
<1>6. SettledInv'
    <2> SUFFICES ASSUME NEW p \in Resolved', Acyclic(p)' PROVE Settled(p)'
        BY DEF SettledInv
    <2>1. p \in Resolved /\ Acyclic(p)
        BY <1>1, BelowSame DEF Resolved, Acyclic
    <2>2. Settled(p)
        BY <2>1 DEF IInv, SettledInv
    <2> QED BY <1>1, <2>2, SettledSame
<1> QED BY <1>2, <1>3, <1>4, <1>5, <1>6 DEF IInv

LEMMA PopKeeps ==
    ASSUME TypeOK, StackInv, Requested, world' = world, registry' = registry,
           stack' = Popped,
           \A q \in Package : states[q] = "resolving" => states'[q] = "resolving"
    PROVE  /\ stack' \in Seq(Frame) /\ StackInv'
           /\ \A p : OnStack(p)' <=> OnStack(p)
           /\ Top'.pkg = Top.pkg
<1>1. /\ Depth' = Depth /\ DOMAIN stack' = DOMAIN stack /\ Depth \in Nat
      /\ Depth = Len(stack) - 1 /\ Len(stack) \in Nat /\ DOMAIN stack = 1..Len(stack)
      /\ 1..Depth \subseteq DOMAIN stack
    BY TopOfStack, PoppedStack DEF Depth
<1>2. /\ \A i \in DOMAIN stack : stack'[i].pkg = stack[i].pkg
      /\ \A i \in 2..Len(stack) : stack'[i] = stack[i]
      /\ stack' \in Seq(Frame) /\ stack'[1].todo = Tail(Top.todo) /\ stack'[1].pkg = Top.pkg
    <2>1. stack'[1] = [pkg |-> Top.pkg, todo |-> Tail(Top.todo)]
        BY PoppedStack
    <2>2. stack'[1].todo = Tail(Top.todo) /\ stack'[1].pkg = Top.pkg
        BY <2>1
    <2> QED BY <2>2, PoppedStack
<1>3. /\ stack[1] = Top /\ Top'.pkg = Top.pkg
      /\ \A k \in DOMAIN Tail(Top.todo) :
             k + 1 \in DOMAIN Top.todo /\ Tail(Top.todo)[k] = Top.todo[k + 1]
    <2>1. Top' = stack'[1]
        <3>1. \A s \in Seq(Frame) : s # << >> => Head(s) = s[1]
            OBVIOUS
        <3>2. stack' # << >>
            BY <1>1, <1>2, TopOfStack
        <3> QED BY <1>2, <3>1, <3>2 DEF Top
    <2> QED BY <1>2, <2>1, TopOfStack, PoppedStack
<1>4. \A i \in DOMAIN stack : stack[i].pkg = Root <=> i = Depth + 1
    BY DEF StackInv
<1>5. ASSUME NEW i \in 1..Depth PROVE InPlace(i)'
    <2>1. PICK q : q = stack[i].pkg /\ q = stack'[i].pkg
        BY <1>1, <1>2
    <2>2. i \in DOMAIN stack /\ i \in Nat
        BY <1>1
    <2>3. /\ states[q] = "resolving" /\ registry[q] # None
          /\ \A k \in DOMAIN stack[i].todo : stack[i].todo[k].name \in Needs(q)
        BY <2>1 DEF StackInv, InPlace
    <2>4. q \in Package
        <3>1. stack[i] \in Frame
            BY <2>2 DEF TypeOK, ContextType
        <3>2. i # Depth + 1
            BY <1>1
        <3>3. q # Root
            BY <1>4, <2>1, <2>2, <3>2
        <3> QED BY <2>1, <3>1, <3>3 DEF Frame
    <2>5. \A k \in DOMAIN stack'[i].todo : stack'[i].todo[k].name \in Needs(q)
        <3>1. CASE i = 1
            <4> SUFFICES ASSUME NEW k \in DOMAIN Tail(Top.todo)
                         PROVE  Tail(Top.todo)[k].name \in Needs(q)
                BY <1>2, <3>1
            <4>1. k + 1 \in DOMAIN stack[i].todo /\ Tail(Top.todo)[k] = stack[i].todo[k + 1]
                BY <1>3, <3>1
            <4> QED BY <2>3, <4>1
        <3>2. CASE i # 1
            <4>1. stack'[i] = stack[i]
                BY <1>1, <1>2, <2>2, <3>2
            <4> QED BY <2>3, <4>1
        <3> QED BY <3>1, <3>2
    <2>6. Needs(q)' = Needs(q)
        BY BelowSame
    <2> QED BY <2>1, <2>3, <2>4, <2>5, <2>6 DEF InPlace
<1>6. ASSUME NEW i \in 1..Depth, NEW j \in 1..Depth, i < j PROVE Nested(i, j)'
    <2>1. PICK q : q = stack[j].pkg /\ q = stack'[j].pkg
        BY <1>1, <1>2
    <2>2. Below(q)' = Below(q)
        BY BelowSame
    <2>3. stack[i].pkg # q /\ stack[i].pkg \in Below(q)
        BY <1>6, <2>1 DEF StackInv, Nested
    <2>4. stack'[i].pkg = stack[i].pkg
        BY <1>1, <1>2
    <2> QED BY <2>1, <2>2, <2>3, <2>4 DEF Nested
<1>7. StackInv'
    BY <1>1, <1>2, <1>4, <1>5, <1>6 DEF StackInv
<1>8. \A p : OnStack(p)' <=> OnStack(p)
    BY <1>1, <1>2 DEF OnStack
<1> QED BY <1>2, <1>3, <1>7, <1>8

-----------------------------------------------------------------------------
(* The steps that deal with a request                                      *)

NewAsk == [by |-> Top.pkg, want |-> Pending.want]

LEMMA AskTypes ==
    ASSUME TypeOK, StackInv, Requested
    PROVE  /\ Pending.name \in Package /\ Pending.source \in Source
           /\ NewAsk \in Ask /\ NewAsk.by = Top.pkg /\ NewAsk.want = Pending.want
           /\ asked \in [Package -> Seq(Ask)] /\ asked[Pending.name] \in Seq(Ask)
           /\ Asked(Pending) = Append(asked[Pending.name], NewAsk)
           /\ Asked(Pending) \in Seq(Ask)
<1>1. Pending.name \in Package /\ Pending.source \in Source /\ Pending.want \in Constraint
    BY PoppedStack DEF Request
<1>2. Top.pkg \in Package \cup {Root}
    BY TopOfStack
<1>3. NewAsk \in Ask /\ NewAsk.by = Top.pkg /\ NewAsk.want = Pending.want
    BY <1>1, <1>2 DEF NewAsk, Ask
<1>4. asked \in [Package -> Seq(Ask)] /\ asked[Pending.name] \in Seq(Ask)
    BY <1>1 DEF TypeOK, ContextType
<1>5. Asked(Pending) = Append(asked[Pending.name], NewAsk)
    BY DEF Asked, NewAsk
<1>6. \A asks \in Seq(Ask), x \in Ask : Append(asks, x) \in Seq(Ask)
    OBVIOUS
<1> QED BY <1>1, <1>3, <1>4, <1>5, <1>6

(* The requests of a package grow by one at the end.                       *)
LEMMA AskGrows ==
    ASSUME TypeOK, StackInv, Requested, Asks(Pending)
    PROVE  LET p == Pending.name  n == Len(asked[p]) IN
           /\ asked' \in [Package -> Seq(Ask)]
           /\ asked'[p] = Append(asked[p], NewAsk)
           /\ n \in Nat /\ DOMAIN asked[p] = 1..n /\ Len(asked'[p]) = n + 1
           /\ DOMAIN asked'[p] = 1..(n + 1) /\ asked'[p][n + 1] = NewAsk
           /\ \A i \in 1..n : asked'[p][i] = asked[p][i]
           /\ \A q \in Package \ {p} : asked'[q] = asked[q]
<1> DEFINE p == Pending.name
<1>1. p \in Package /\ asked \in [Package -> Seq(Ask)] /\ asked[p] \in Seq(Ask) /\ NewAsk \in Ask
    BY AskTypes
<1>2. asked' = [asked EXCEPT ![p] = Append(asked[p], NewAsk)]
    BY AskTypes DEF Asks
<1>3. \A asks \in Seq(Ask), x \in Ask :
          /\ Append(asks, x) \in Seq(Ask) /\ Len(asks) \in Nat /\ DOMAIN asks = 1..Len(asks)
          /\ Len(Append(asks, x)) = Len(asks) + 1
          /\ DOMAIN Append(asks, x) = 1..(Len(asks) + 1)
          /\ Append(asks, x)[Len(asks) + 1] = x
          /\ \A i \in 1..Len(asks) : Append(asks, x)[i] = asks[i]
    OBVIOUS
<1>4. /\ asked'[p] = Append(asked[p], NewAsk)
      /\ \A q \in Package \ {p} : asked'[q] = asked[q]
    BY <1>1, <1>2
<1>5. asked' \in [Package -> Seq(Ask)]
    BY <1>1, <1>2, <1>3
<1> HIDE DEF p
<1>6. /\ Len(asked[p]) \in Nat /\ DOMAIN asked[p] = 1..Len(asked[p])
      /\ Len(asked'[p]) = Len(asked[p]) + 1
      /\ DOMAIN asked'[p] = 1..(Len(asked[p]) + 1)
      /\ asked'[p][Len(asked[p]) + 1] = NewAsk
      /\ \A i \in 1..Len(asked[p]) : asked'[p][i] = asked[p][i]
    <2>1. PICK a \in Seq(Ask) : a = asked[p]
        BY <1>1
    <2>2. asked'[p] = Append(a, NewAsk)
        BY <1>4, <2>1
    <2>3. /\ Len(a) \in Nat /\ DOMAIN a = 1..Len(a)
          /\ Len(Append(a, NewAsk)) = Len(a) + 1
          /\ DOMAIN Append(a, NewAsk) = 1..(Len(a) + 1)
          /\ Append(a, NewAsk)[Len(a) + 1] = NewAsk
          /\ \A i \in 1..Len(a) : Append(a, NewAsk)[i] = a[i]
        BY <1>1, <1>3
    <2> QED BY <2>1, <2>2, <2>3
<1> QED BY <1>4, <1>5, <1>6 DEF p

(* What both kinds of visit to a package that was seen before have in      *)
(* common; what is settled is left to show for the package itself.         *)
LEMMA AskSeen ==
    ASSUME IInv, Requested, Asks(Pending), stack' = Popped,
           NEW p, p = Pending.name, states[p] # "unseen",
           UNCHANGED <<world, carried, trying, states, registry, outcome, first>>,
           p \in Resolved' /\ Acyclic(p)' => Settled(p)'
    PROVE  IInv'
<1>1. /\ world' = world /\ overrides' = overrides /\ excluded' = excluded
      /\ history' = history /\ trying' = trying /\ states' = states
      /\ registry' = registry /\ outcome' = outcome /\ first' = first
      /\ TypeOK /\ StackInv /\ trying = None
    BY DEF IInv, carried, Requested, Walking
<1>2. StackInv' /\ stack' \in Seq(Frame) /\ \A q : OnStack(q)' <=> OnStack(q)
    BY <1>1, PopKeeps
<1>3. /\ asked' \in [Package -> Seq(Ask)] /\ p \in Package
      /\ \A q \in Package \ {p} : asked'[q] = asked[q]
    BY <1>1, AskGrows, AskTypes
<1>4. TypeOK'
    BY <1>1, <1>2, <1>3 DEF TypeOK, CarriedType, ContextType
<1>5. StatesInv'
    BY <1>1, <1>2, <1>3 DEF IInv, StatesInv
<1>6. TryingInv'
    BY <1>1 DEF TryingInv
<1>7. SettledInv'
    <2> SUFFICES ASSUME NEW q \in Resolved', Acyclic(q)' PROVE Settled(q)'
        BY DEF SettledInv
    <2>1. CASE q = p
        BY <2>1
    <2>2. CASE q # p
        <3>1. q \in Package /\ q \in Resolved /\ asked'[q] = asked[q]
            BY <1>1, <1>3, <2>2 DEF Resolved
        <3>2. Acyclic(q)
            BY <1>1, <3>1, BelowSame DEF Acyclic
        <3>3. Settled(q)
            BY <3>1, <3>2 DEF IInv, SettledInv
        <3> QED BY <1>1, <3>1, <3>3, SettledSame
    <2> QED BY <2>1, <2>2
<1> QED BY <1>2, <1>4, <1>5, <1>6, <1>7 DEF IInv

LEMMA VisitsResolving ==
    ASSUME IInv, VisitResolving
    PROVE  IInv'
<1> PICK p : p = Pending.name
    OBVIOUS
<1>1. /\ Requested /\ states[p] = "resolving" /\ Asks(Pending) /\ stack' = Popped
      /\ UNCHANGED <<world, carried, trying, states, registry, outcome, first>>
      /\ world' = world /\ registry' = registry /\ trying = None
    BY DEF VisitResolving, Requested, Walking
<1>2. TypeOK /\ StackInv /\ p \in Package
    BY <1>1, AskTypes DEF IInv
<1>3. PICK j \in 1..Depth : stack[j].pkg = p
    BY <1>1, <1>2 DEF IInv, StatesInv, OnStack
<1>4. Top.pkg # Root /\ Top.pkg = stack[1].pkg /\ 1 \in 1..Depth /\ j \in Nat /\ 1 <= j
    BY <1>2, <1>3, TopOfStack DEF StackInv
<1>5. Top.pkg \in Below(p)
    <2>1. CASE j = 1
        <3>1. p = Top.pkg
            BY <1>3, <1>4, <2>1
        <3>2. p \in Needs(Top.pkg)
            <4>1. Pending = stack[1].todo[1] /\ 1 \in DOMAIN stack[1].todo
                BY <1>1, <1>2, PoppedStack, TopOfStack
            <4>2. InPlace(1)
                BY <1>2, <1>4 DEF StackInv
            <4> QED BY <1>4, <4>1, <4>2 DEF InPlace
        <3> QED BY <1>2, <3>1, <3>2, NeedsBelow
    <2>2. CASE j # 1
        <3>1. 1 < j
            BY <1>4, <2>2
        <3>2. Nested(1, j)
            BY <1>2, <1>3, <1>4, <3>1 DEF StackInv
        <3> QED BY <1>3, <1>4, <3>2 DEF Nested
    <2> QED BY <2>1, <2>2
<1>6. ~Acyclic(p)'
    <2> DEFINE n == Len(asked[p])
    <2>1. n \in Nat /\ n + 1 \in DOMAIN asked'[p] /\ asked'[p][n + 1].by = Top.pkg
        <3>1. /\ n \in Nat /\ DOMAIN asked'[p] = 1..(n + 1) /\ asked'[p][n + 1] = NewAsk
              /\ NewAsk.by = Top.pkg
            BY <1>1, <1>2, AskGrows, AskTypes
        <3> QED BY <3>1
    <2>2. PICK t : t = Top.pkg
        OBVIOUS
    <2>3. t \in Below(p)'
        BY <1>1, <1>5, <2>2, BelowSame
    <2>4. Acyclic(p)' => t \notin Below(p)'
        BY <2>1, <2>2 DEF Acyclic
    <2> QED BY <2>3, <2>4
<1> QED BY <1>1, <1>6, AskSeen

LEMMA RevisitsHold ==
    ASSUME IInv, RevisitHolds
    PROVE  IInv'
<1> PICK p : p = Pending.name
    OBVIOUS
<1> DEFINE s == registry[p].source
           ref == registry[p].ref
           x == NewAsk
<1>1. /\ Requested /\ ~Clashes(Pending) /\ states[p] = "resolved"
      /\ Asks(Pending) /\ stack' = Popped
      /\ UNCHANGED <<world, carried, trying, states, registry, outcome, first>>
      /\ world' = world /\ registry' = registry /\ overrides' = overrides
      /\ excluded' = excluded /\ TypeOK /\ StackInv /\ world \in World
    BY DEF RevisitHolds, Revisits, carried, IInv, TypeOK
<1>2. /\ p \in Package /\ x \in Ask /\ x.want = Pending.want
      /\ asked[p] \in Seq(Ask) /\ Asked(Pending) = Append(asked[p], x)
    BY <1>1, AskTypes
<1>3. registry[p] # None /\ s = Pending.source /\ s \in Source
    BY <1>1, <1>2, AskTypes DEF IInv, StatesInv, Clashes
<1>4. \/ Pending.want.kind = "semver" /\ ref.version \in Pending.want.is
      \/ Agrees(Select(p, s, Append(asked[p], x)), ref)
    BY <1>2, <1>3 DEF RevisitHolds, CannotChange, Again, Agrees
<1>5. Acyclic(p)' => Acyclic(p)
    <2>1. \A i \in DOMAIN asked[p] : i \in DOMAIN asked'[p] /\ asked'[p][i] = asked[p][i]
        <3>1. /\ Len(asked[p]) \in Nat /\ DOMAIN asked[p] = 1..Len(asked[p])
              /\ DOMAIN asked'[p] = 1..(Len(asked[p]) + 1)
              /\ \A k \in 1..Len(asked[p]) : asked'[p][k] = asked[p][k]
            BY <1>1, AskGrows
        <3> QED BY <3>1
    <2> QED BY <1>1, <2>1, BelowSame DEF Acyclic
<1>6. CASE overrides[p] = None
    <2>1. ASSUME Acyclic(p)' PROVE Agrees(Select(p, s, Append(asked[p], x)), ref)
        <3>1. Agrees(Select(p, s, asked[p]), ref)
            BY <1>2, <1>3, <1>5, <1>6, <2>1 DEF IInv, SettledInv, Settled, Resolved
        <3>2. CASE Pending.want.kind = "semver" /\ ref.version \in Pending.want.is
            <4>1. /\ Select(p, s, asked[p]).error = None
                  /\ Select(p, s, asked[p]).ref.version = ref.version
                BY <3>1 DEF Agrees, Changes
            <4>2. Select(p, s, Append(asked[p], x)) = Select(p, s, asked[p])
                BY <1>1, <1>2, <1>3, <3>2, <4>1, RangeKeeps
            <4> QED BY <3>1, <4>2
        <3> QED BY <1>4, <3>2
    <2>2. Agrees(Select(p, s, Append(asked[p], x)), ref) => Settled(p)'
        <3>1. \A t, asks, r : Agrees(Select(p, t, asks), r)' <=> Agrees(Select(p, t, asks), r)
            BY <1>1, SelectSame DEF Agrees, Changes
        <3>2. asked'[p] = Append(asked[p], x)
            BY <1>1, <1>2, AskGrows
        <3> QED BY <1>1, <1>6, <3>1, <3>2 DEF Settled
    <2> QED BY <1>1, <2>1, <2>2, AskSeen
<1>7. CASE overrides[p] # None
    <2>1. ASSUME Acyclic(p)', Published(s) # {},
                 NEW i \in 2..Len(asked'[p])
          PROVE  Holds(p, s, asked'[p][i].want, ref)
        <3>1. /\ Len(asked[p]) \in Nat /\ Len(asked'[p]) = Len(asked[p]) + 1
              /\ asked'[p][Len(asked[p]) + 1] = x
              /\ \A k \in 1..Len(asked[p]) : asked'[p][k] = asked[p][k]
            BY <1>1, <1>2, AskGrows
        <3>2. CASE i = Len(asked[p]) + 1
            <4>1. Holds(p, s, x.want, ref)
                <5>1. CASE Pending.want.kind = "semver" /\ ref.version \in Pending.want.is
                    BY <1>2, <5>1 DEF Holds
                <5> QED BY <1>1, <1>2, <1>3, <1>4, <2>1, <5>1, SelectionHolds
            <4> QED BY <3>1, <3>2, <4>1
        <3>3. CASE i # Len(asked[p]) + 1
            <4>1. i \in 2..Len(asked[p]) /\ i \in 1..Len(asked[p])
                BY <3>1, <3>3
            <4>2. Holds(p, s, asked[p][i].want, ref)
                BY <1>2, <1>3, <1>5, <1>7, <2>1, <4>1 DEF IInv, SettledInv, Settled, Resolved
            <4> QED BY <3>1, <4>1, <4>2
        <3> QED BY <3>2, <3>3
    <2>2. Acyclic(p)' => Settled(p)'
        <3>1. \A t, want, r : Holds(p, t, want, r)' <=> Holds(p, t, want, r)
            BY <1>1, PinSame DEF Holds, Agrees, Changes
        <3>2. \A t : Published(t)' = Published(t)
            BY <1>1 DEF Published
        <3> QED BY <1>1, <1>7, <2>1, <3>1, <3>2 DEF Settled
    <2> QED BY <1>1, <2>2, AskSeen
<1> QED BY <1>6, <1>7

LEMMA VisitsUnseen ==
    ASSUME IInv, VisitUnseen
    PROVE  IInv'
<1> PICK p : p = Pending.name
    OBVIOUS
<1>1. /\ Requested /\ states[p] = "unseen" /\ Asks(Pending) /\ stack' = Popped
      /\ states' = [states EXCEPT ![p] = "resolving"]
      /\ trying' = [request |-> Pending, carried |-> Override(p), rejected |-> FALSE]
      /\ world' = world /\ overrides' = overrides /\ excluded' = excluded
      /\ history' = history /\ registry' = registry /\ outcome' = outcome /\ first' = first
      /\ TypeOK /\ StackInv
    BY DEF VisitUnseen, carried, IInv
<1>2. /\ p \in Package /\ Pending \in Request
      /\ asked[p] = << >> /\ registry[p] = None
    BY <1>1, AskTypes, PoppedStack DEF IInv, StatesInv
<1>3. /\ states \in [Package -> {"unseen", "resolving", "resolved"}]
      /\ states' \in [Package -> {"unseen", "resolving", "resolved"}]
      /\ states'[p] = "resolving" /\ \A q \in Package \ {p} : states'[q] = states[q]
    BY <1>1, <1>2 DEF TypeOK, ContextType
<1>4. /\ StackInv' /\ stack' \in Seq(Frame) /\ \A q : OnStack(q)' <=> OnStack(q)
      /\ Top'.pkg = Top.pkg
    BY <1>1, <1>3, PopKeeps
<1>5. /\ asked' \in [Package -> Seq(Ask)] /\ Len(asked'[p]) = 1
      /\ \A q \in Package \ {p} : asked'[q] = asked[q]
    <2>1. Len(asked[p]) = 0
        BY <1>2
    <2> QED BY <1>1, <1>2, <2>1, AskGrows
<1>6. Override(p) \in Ref \cup {None} /\ (Override(p) # None => overrides[p] # None)
    BY <1>1, <1>2 DEF Override, TypeOK, CarriedType
<1>7. trying' \in Trial /\ trying' # None
    <2>1. PICK o \in Ref \cup {None} : o = Override(p)
        BY <1>6
    <2>2. trying' \in Trial
        BY <1>1, <1>2, <2>1 DEF Trial
    <2>3. None \notin Trial
        BY NoneAssumption DEF Trial
    <2> QED BY <2>2, <2>3
<1>8. TypeOK'
    BY <1>1, <1>3, <1>4, <1>5, <1>7 DEF TypeOK, CarriedType, ContextType
<1>9. StatesInv'
    <2>1. trying = None /\ trying'.request.name = p
        BY <1>1 DEF Requested, Walking
    <2> SUFFICES ASSUME NEW q \in Package
                 PROVE  /\ states'[q] = "unseen" => asked'[q] = << >> /\ registry[q] = None
                        /\ states'[q] = "resolving" => OnStack(q) \/ q = p
                        /\ states'[q] = "resolved" => registry[q] # None
        BY <1>1, <1>4, <1>7, <2>1 DEF StatesInv
    <2>2. CASE q = p
        BY <1>3, <2>2
    <2>3. CASE q # p
        <3>1. states'[q] = states[q] /\ asked'[q] = asked[q]
            BY <1>3, <1>5, <2>3
        <3> QED BY <2>1, <3>1 DEF IInv, StatesInv
    <2> QED BY <2>2, <2>3
<1>10. TryingInv'
    <2>1. trying'.request.name = p /\ trying'.carried = Override(p)
        BY <1>1
    <2>2. Top.pkg # Root => p \in Needs(Top.pkg)
        <3>1. Pending = stack[1].todo[1] /\ 1 \in DOMAIN stack[1].todo /\ Top = stack[1]
            BY <1>1, PoppedStack, TopOfStack
        <3>2. ASSUME Top.pkg # Root PROVE InPlace(1)
            <4>1. 1 \in 1..Depth
                BY <1>1, <3>2, TopOfStack DEF StackInv
            <4> QED BY <1>1, <4>1 DEF StackInv
        <3> QED BY <3>1, <3>2 DEF InPlace
    <2>3. Top'.pkg # Root => p \in Needs(Top.pkg)'
        <3>1. PICK t : t = Top.pkg /\ t = Top'.pkg
            BY <1>4
        <3> QED BY <1>1, <2>2, <3>1, BelowSame
    <2> QED BY <1>1, <1>2, <1>3, <1>5, <1>6, <2>1, <2>3 DEF TryingInv
<1>11. SettledInv'
    <2> SUFFICES ASSUME NEW q \in Resolved', Acyclic(q)' PROVE Settled(q)'
        BY DEF SettledInv
    <2>1. q \in Package /\ q \in Resolved /\ q # p /\ asked'[q] = asked[q]
        BY <1>1, <1>2, <1>5 DEF Resolved
    <2>2. Acyclic(q)
        BY <1>1, <2>1, BelowSame DEF Acyclic
    <2>3. Settled(q)
        BY <2>1, <2>2 DEF IInv, SettledInv
    <2> QED BY <1>1, <2>1, <2>3, SettledSame
<1> QED BY <1>4, <1>8, <1>9, <1>10, <1>11 DEF IInv

-----------------------------------------------------------------------------
(* The steps of a package's first selection                                *)

LEMMA TrialTypes ==
    ASSUME IInv, Trying
    PROVE  LET r == trying.request  p == r.name IN
           /\ trying \in Trial /\ r \in Request /\ p \in Package /\ r.source \in Source
           /\ asked[p] \in Seq(Ask) /\ Len(asked[p]) = 1
           /\ registry[p] = None /\ states[p] = "resolving"
           /\ Candidate.error = None => Candidate.ref \in Ref
           /\ Candidate.error \in {None, "frozen", "conflict"}
<1> DEFINE r == trying.request
           p == r.name
<1>1. /\ trying \in Trial /\ trying # None /\ world \in World
      /\ asked \in [Package -> Seq(Ask)]
    BY DEF IInv, TypeOK, ContextType, Trying
<1>2. /\ r \in Request /\ p \in Package /\ r.source \in Source
      /\ trying.carried \in Ref \cup {None}
    BY <1>1 DEF Trial, Request
<1>3. asked[p] \in Seq(Ask) /\ Len(asked[p]) = 1 /\ registry[p] = None /\ states[p] = "resolving"
    BY <1>1, <1>2 DEF IInv, TryingInv
<1>4. CASE trying.carried # None
    <2>1. Candidate = [error |-> None, ref |-> trying.carried]
        BY <1>4 DEF Candidate
    <2> QED BY <1>1, <1>2, <1>3, <1>4, <2>1
<1>5. CASE trying.carried = None
    <2>1. Candidate = Select(p, r.source, asked[p])
        BY <1>5 DEF Candidate
    <2> QED BY <1>1, <1>2, <1>3, <2>1, SelectedType, SelectErrors
<1> QED BY <1>4, <1>5

LEMMA Rejects ==
    ASSUME IInv, RejectCandidate
    PROVE  IInv'
<1> PICK p : p = trying.request.name
    OBVIOUS
<1>1. /\ Trying /\ trying # None /\ Candidate.error = None /\ Candidate.ref.version # None
      /\ excluded' = [excluded EXCEPT ![p] = @ \cup {Candidate.ref.version}]
      /\ trying' = [trying EXCEPT !.carried = None, !.rejected = TRUE]
      /\ world' = world /\ overrides' = overrides /\ history' = history /\ stack' = stack
      /\ states' = states /\ registry' = registry /\ asked' = asked
      /\ outcome' = outcome /\ first' = first
    BY DEF RejectCandidate, Refused, Trying
<1>2. /\ trying \in Trial /\ p \in Package /\ registry[p] = None
      /\ Candidate.ref.version \in Version
    <2>1. Candidate.ref \in Ref
        BY <1>1, TrialTypes
    <2> QED BY <1>1, <2>1, TrialTypes DEF Ref
<1>3. /\ excluded' \in [Package -> SUBSET Version]
      /\ \A q \in Package \ {p} : excluded'[q] = excluded[q]
    BY <1>1, <1>2 DEF IInv, TypeOK, CarriedType
<1>4. /\ trying' \in Trial /\ trying' # None
      /\ trying'.request = trying.request /\ trying'.carried = None
    <2>1. /\ trying' = [request |-> trying.request, carried |-> None, rejected |-> TRUE]
          /\ trying.request \in Request
        BY <1>1, <1>2 DEF Trial
    <2>2. trying' \in Trial
        BY <2>1 DEF Trial
    <2>3. None \notin Trial
        BY NoneAssumption DEF Trial
    <2> QED BY <2>1, <2>2, <2>3
<1>5. TypeOK'
    BY <1>1, <1>3, <1>4 DEF IInv, TypeOK, CarriedType, ContextType
<1>6. StackInv'
    BY <1>1, BelowSame DEF IInv, StackInv, Depth, InPlace, Nested
<1>7. StatesInv'
    BY <1>1, <1>4 DEF IInv, StatesInv, OnStack, Depth
<1>8. TryingInv'
    BY <1>1, <1>4, BelowSame DEF IInv, TryingInv, Top
<1>9. SettledInv'
    <2> SUFFICES ASSUME NEW q \in Resolved', Acyclic(q)' PROVE Settled(q)'
        BY DEF SettledInv
    <2>1. q \in Package /\ q \in Resolved /\ q # p /\ Acyclic(q)
        BY <1>1, <1>2, BelowSame DEF Resolved, Acyclic
    <2>2. Settled(q)
        BY <2>1 DEF IInv, SettledInv
    <2> QED BY <1>1, <1>3, <2>1, <2>2, SettledSame
<1> QED BY <1>5, <1>6, <1>7, <1>8, <1>9 DEF IInv

LEMMA Registers ==
    ASSUME IInv, Register
    PROVE  IInv'
<1> PICK r : r = trying.request
    OBVIOUS
<1> PICK p : p = r.name
    OBVIOUS
<1> PICK ref : ref = Candidate.ref
    OBVIOUS
<1> PICK f : f = [pkg |-> p, todo |-> world.manifest[ref.commit]]
    OBVIOUS
<1>1. /\ Trying /\ Candidate.error = None /\ trying # None
      /\ registry' = [registry EXCEPT ![p] = [source |-> r.source, ref |-> ref]]
      /\ overrides' = IF trying.rejected THEN [overrides EXCEPT ![p] = ref] ELSE overrides
      /\ stack' = <<f>> \o stack /\ trying' = None
      /\ world' = world /\ excluded' = excluded /\ history' = history /\ states' = states
      /\ asked' = asked /\ outcome' = outcome /\ first' = first
      /\ TypeOK /\ StackInv
    BY DEF Register, Trying, IInv
<1>2. /\ p \in Package /\ r.source \in Source /\ ref \in Ref /\ registry[p] = None
      /\ states[p] = "resolving" /\ Len(asked[p]) = 1 /\ asked[p] \in Seq(Ask)
    BY <1>1, TrialTypes
<1>3. /\ [source |-> r.source, ref |-> ref] \in Node
      /\ registry' \in [Package -> Node \cup {None}]
      /\ registry'[p] = [source |-> r.source, ref |-> ref] /\ registry'[p] # None
      /\ \A q \in Package \ {p} : registry'[q] = registry[q]
    <2> DEFINE node == [source |-> r.source, ref |-> ref]
    <2>1. node \in Node /\ None \notin Node
        BY <1>2, NoneAssumption DEF Node
    <2>2. registry \in [Package -> Node \cup {None}] /\ registry' = [registry EXCEPT ![p] = node]
        BY <1>1 DEF TypeOK, ContextType
    <2> HIDE DEF node
    <2>3. /\ registry' \in [Package -> Node \cup {None}] /\ registry'[p] = node
          /\ \A q \in Package \ {p} : registry'[q] = registry[q]
        BY <1>2, <2>1, <2>2
    <2> QED BY <2>1, <2>3 DEF node
<1>4. ref \in Ref /\ ref # None /\ ref.commit \in Commit
    BY <1>2, NoneAssumption DEF Ref
<1>5. /\ overrides' \in [Package -> Ref \cup {None}]
      /\ overrides'[p] = (IF trying.rejected THEN ref ELSE overrides[p])
      /\ \A q \in Package \ {p} : overrides'[q] = overrides[q]
    BY <1>1, <1>2, <1>4 DEF TypeOK, CarriedType
<1>6. f \in Frame /\ f.pkg = p /\ f.todo = world.manifest[ref.commit]
    <2>1. world.manifest[ref.commit] \in Seq(Request)
        BY <1>1, <1>4 DEF TypeOK, World
    <2> QED BY <1>2, <2>1 DEF Frame
<1>7. /\ stack' \in Seq(Frame) /\ Len(stack) \in Nat /\ Len(stack') = Len(stack) + 1
      /\ DOMAIN stack' = 1..(Len(stack) + 1) /\ DOMAIN stack = 1..Len(stack)
      /\ stack'[1] = f /\ Len(stack) >= 1
      /\ \A i \in DOMAIN stack : stack'[i + 1] = stack[i]
      /\ \A i \in DOMAIN stack' : i = 1 \/ (i - 1 \in DOMAIN stack /\ stack'[i] = stack[i - 1])
    <2>1. stack \in Seq(Frame) /\ Len(stack) \in Nat /\ Len(stack) >= 1
        BY <1>1, TopOfStack DEF TypeOK, ContextType
    <2> QED BY <1>1, <1>6, <2>1
<1>8. Depth' = Depth + 1 /\ Depth \in Nat /\ Depth = Len(stack) - 1
    BY <1>1, <1>7 DEF Depth, StackInv
<1>9. \A q : Needs(q) \subseteq Needs(q)'
    <2> SUFFICES ASSUME NEW q, NEW y \in Needs(q) PROVE y \in Needs(q)'
        OBVIOUS
    <2>1. registry[q] # None
        BY DEF Needs
    <2>2. registry'[q] = registry[q]
        <3>1. q # p
            BY <1>2, <2>1
        <3>2. registry \in [Package -> Node \cup {None}]
            BY <1>1 DEF TypeOK, ContextType
        <3> QED BY <1>1, <3>1, <3>2
    <2> QED BY <1>1, <2>1, <2>2 DEF Needs
<1>10. \A q : Below(q) \subseteq Below(q)'
    BY <1>9, BelowGrows
<1>11. \A k \in DOMAIN f.todo : f.todo[k].name \in Needs(p)'
    <2>1. Needs(p)' = {y.name : y \in Range(world.manifest[ref.commit])}
        <3>1. registry'[p] # None /\ registry'[p].ref = ref
            BY <1>3
        <3> QED BY <1>1, <3>1 DEF Needs
    <2>2. \A k \in DOMAIN f.todo : f.todo[k] \in Range(world.manifest[ref.commit])
        BY <1>6 DEF Range
    <2> QED BY <2>1, <2>2
<1>12. \A i \in 1..Depth : i \in DOMAIN stack /\ stack[i].pkg \in Package /\ stack[i].pkg # p
    <2> SUFFICES ASSUME NEW i \in 1..Depth
                 PROVE  i \in DOMAIN stack /\ stack[i].pkg \in Package /\ stack[i].pkg # p
        OBVIOUS
    <2>1. i \in DOMAIN stack /\ i # Depth + 1
        BY <1>7, <1>8
    <2>2. stack[i] \in Frame /\ stack[i].pkg # Root
        BY <1>1, <2>1 DEF StackInv, TypeOK, ContextType
    <2>3. InPlace(i)
        BY <1>1 DEF StackInv
    <2> QED BY <1>2, <2>1, <2>2, <2>3 DEF InPlace, Frame
<1>13. ASSUME NEW i \in DOMAIN stack' PROVE stack'[i].pkg = Root <=> i = Depth' + 1
    <2>1. CASE i = 1
        <3>1. i # Depth' + 1
            BY <1>8, <2>1
        <3>2. p # Root
            BY <1>2, UpstreamAssumption
        <3> QED BY <1>6, <1>7, <2>1, <3>1, <3>2
    <2>2. CASE i # 1
        <3>1. i - 1 \in DOMAIN stack /\ stack'[i] = stack[i - 1] /\ i \in Nat
            BY <1>7, <2>2
        <3>2. stack[i - 1].pkg = Root <=> i - 1 = Depth + 1
            BY <1>1, <3>1 DEF StackInv
        <3>3. i - 1 = Depth + 1 <=> i = Depth' + 1
            BY <1>8, <3>1
        <3> QED BY <3>1, <3>2, <3>3
    <2> QED BY <2>1, <2>2
<1>14. ASSUME NEW i \in 1..(Depth + 1) PROVE InPlace(i)'
    <2>1. CASE i = 1
        <3>1. stack'[i] = f /\ f.pkg = p
            BY <1>6, <1>7, <2>1
        <3>2. states'[p] = "resolving" /\ registry'[p] # None
            BY <1>1, <1>2, <1>3
        <3> QED BY <1>11, <3>1, <3>2 DEF InPlace
    <2>2. CASE i # 1
        <3>1. PICK j \in 1..Depth : i = j + 1 /\ stack'[i] = stack[j]
            <4>1. i - 1 \in 1..Depth /\ i = (i - 1) + 1
                BY <1>8, <2>2
            <4> QED BY <1>7, <1>12, <4>1
        <3>2. PICK q \in Package : q = stack[j].pkg /\ q # p
            BY <1>12
        <3>3. /\ states[q] = "resolving" /\ registry[q] # None
              /\ \A k \in DOMAIN stack[j].todo : stack[j].todo[k].name \in Needs(q)
            BY <1>1, <3>2 DEF StackInv, InPlace
        <3> QED BY <1>1, <1>3, <1>9, <3>1, <3>2, <3>3 DEF InPlace
    <2> QED BY <2>1, <2>2
<1>15. ASSUME NEW i \in 1..(Depth + 1), NEW j \in 1..(Depth + 1), i < j PROVE Nested(i, j)'
    <2>1. PICK l \in 1..Depth : j = l + 1 /\ stack'[j] = stack[l]
        <3>1. j - 1 \in 1..Depth /\ j = (j - 1) + 1
            BY <1>8, <1>15
        <3> QED BY <1>7, <1>12, <3>1
    <2>2. PICK q \in Package : q = stack[l].pkg /\ q # p
        BY <1>12
    <2>3. CASE i = 1
        <3>1. p \in Below(q)
            <4>1. Top = stack[1] /\ Top.pkg # Root /\ 1 \in 1..Depth
                <5>1. Depth # 0 /\ 1 \in 1..Depth
                    BY <1>8
                <5> QED BY <1>1, <5>1, TopOfStack
            <4>2. p \in Needs(Top.pkg)
                BY <1>1, <4>1 DEF IInv, TryingInv
            <4>3. CASE l = 1
                BY <1>2, <2>2, <4>1, <4>2, <4>3, NeedsBelow
            <4>4. CASE l # 1
                <5>1. 1 < l
                    BY <1>8, <4>4
                <5>2. Top.pkg \in Below(q)
                    BY <1>1, <2>2, <4>1, <5>1 DEF StackInv, Nested
                <5> QED BY <1>2, <4>2, <5>2, NeedsBelow
            <4> QED BY <4>3, <4>4
        <3> QED BY <1>6, <1>7, <1>10, <2>1, <2>2, <2>3, <3>1 DEF Nested
    <2>4. CASE i # 1
        <3>1. PICK k \in 1..Depth : i = k + 1 /\ stack'[i] = stack[k]
            <4>1. i - 1 \in 1..Depth /\ i = (i - 1) + 1
                BY <1>8, <2>4
            <4> QED BY <1>7, <1>12, <4>1
        <3>2. k < l
            BY <1>8, <1>15, <2>1, <3>1
        <3>3. stack[k].pkg # q /\ stack[k].pkg \in Below(q)
            BY <1>1, <2>2, <3>2 DEF StackInv, Nested
        <3> QED BY <1>10, <2>1, <2>2, <3>1, <3>3 DEF Nested
    <2> QED BY <2>3, <2>4
<1>16. StackInv'
    BY <1>8, <1>13, <1>14, <1>15 DEF StackInv
<1>17. TypeOK'
    BY <1>1, <1>3, <1>5, <1>7 DEF TypeOK, CarriedType, ContextType
<1>18. StatesInv'
    <2> SUFFICES ASSUME NEW q \in Package
                 PROVE  /\ states[q] = "unseen" => asked[q] = << >> /\ registry'[q] = None
                        /\ states[q] = "resolving" => OnStack(q)'
                        /\ states[q] = "resolved" => registry'[q] # None
        BY <1>1 DEF StatesInv
    <2>1. CASE q = p
        <3>1. 1 \in 1..Depth' /\ stack'[1].pkg = p
            BY <1>6, <1>7, <1>8
        <3> QED BY <1>2, <2>1, <3>1 DEF OnStack
    <2>2. CASE q # p
        <3>1. ASSUME states[q] = "resolving" PROVE OnStack(q)'
            <4>1. PICK i \in 1..Depth : stack[i].pkg = q
                BY <2>2, <3>1 DEF IInv, StatesInv, OnStack
            <4>2. i + 1 \in 1..Depth' /\ stack'[i + 1].pkg = q
                <5>1. i + 1 \in 1..(Depth + 1)
                    BY <1>8
                <5>2. stack'[i + 1] = stack[i]
                    BY <1>7, <1>12
                <5> QED BY <1>8, <4>1, <5>1, <5>2
            <4> QED BY <4>2 DEF OnStack
        <3> QED BY <1>3, <2>2, <3>1 DEF IInv, StatesInv
    <2> QED BY <2>1, <2>2
<1>19. TryingInv'
    BY <1>1 DEF TryingInv
<1>20. Settled(p)'
    <2>1. registry'[p].ref = ref /\ registry'[p].source = r.source /\ asked'[p] = asked[p]
        BY <1>1, <1>3
    <2>2. CASE overrides'[p] # None
        <3>1. 2..Len(asked'[p]) = {}
            <4>1. Len(asked'[p]) = 1
                BY <1>2, <2>1
            <4>2. 2..1 = {}
                OBVIOUS
            <4> QED BY <4>1, <4>2
        <3> QED BY <2>2, <3>1 DEF Settled
    <2>3. CASE overrides'[p] = None
        <3>1. trying.carried = None
            <4>1. overrides[p] = None
                BY <1>4, <1>5, <2>3
            <4>2. trying.carried # None => overrides[p] # None
                BY <1>1 DEF IInv, TryingInv
            <4> QED BY <4>1, <4>2
        <3>2. Candidate = Select(p, r.source, asked[p])
            BY <3>1, Zenon DEF Candidate
        <3>3. Agrees(Select(p, r.source, asked[p]), ref)
            BY <1>1, <3>2 DEF Agrees, Changes
        <3>4. \A t, asks, c : Agrees(Select(p, t, asks), c)' <=> Agrees(Select(p, t, asks), c)
            BY <1>1, SelectSame DEF Agrees, Changes
        <3> QED BY <2>1, <2>3, <3>3, <3>4 DEF Settled
    <2> QED BY <2>2, <2>3
<1>21. SettledInv'
    <2> SUFFICES ASSUME NEW q \in Resolved', Acyclic(q)', q # p PROVE Settled(q)'
        BY <1>20 DEF SettledInv
    <2>1. q \in Package /\ registry'[q] = registry[q] /\ q \in Resolved
        BY <1>3 DEF Resolved
    <2>2. Acyclic(q)
        BY <1>1, <1>10 DEF Acyclic
    <2>3. Settled(q)
        BY <2>1, <2>2 DEF IInv, SettledInv
    <2> QED BY <1>1, <1>5, <2>1, <2>3, SettledSame
<1> QED BY <1>16, <1>17, <1>18, <1>19, <1>21 DEF IInv

LEMMA Returns ==
    ASSUME IInv, Return
    PROVE  IInv'
<1> PICK p : p = Top.pkg
    OBVIOUS
<1>1. /\ p # Root /\ trying = None /\ trying' = None
      /\ states' = [states EXCEPT ![p] = "resolved"] /\ stack' = Tail(stack)
      /\ world' = world /\ overrides' = overrides /\ excluded' = excluded
      /\ history' = history /\ registry' = registry /\ asked' = asked
      /\ outcome' = outcome /\ first' = first
      /\ TypeOK /\ StackInv
    BY DEF Return, Walking, carried, IInv
<1>2. /\ stack \in Seq(Frame) /\ stack # << >> /\ Len(stack) \in Nat
      /\ DOMAIN stack = 1..Len(stack) /\ Depth = Len(stack) - 1 /\ Depth \in Nat
      /\ Depth # 0 /\ p = stack[1].pkg /\ p \in Package
    BY <1>1, TopOfStack DEF TypeOK, ContextType, StackInv
<1>3. /\ stack' \in Seq(Frame) /\ Len(stack') = Len(stack) - 1
      /\ DOMAIN stack' = 1..(Len(stack) - 1)
      /\ \A i \in 1..(Len(stack) - 1) : stack'[i] = stack[i + 1] /\ i + 1 \in DOMAIN stack
    BY <1>1, <1>2
<1>4. Depth' = Depth - 1 /\ Depth' \in Nat
    BY <1>2, <1>3 DEF Depth
<1>5. 1 \in 1..Depth /\ \A i \in 1..Depth' : i + 1 \in 1..Depth /\ i \in 1..(Len(stack) - 1)
    BY <1>2, <1>4
<1>6. /\ states \in [Package -> {"unseen", "resolving", "resolved"}]
      /\ states' \in [Package -> {"unseen", "resolving", "resolved"}]
      /\ states'[p] = "resolved" /\ \A q \in Package \ {p} : states'[q] = states[q]
    BY <1>1, <1>2 DEF TypeOK, ContextType
<1>7. \A i \in 1..Depth' : stack[i + 1].pkg # p
    <2> SUFFICES ASSUME NEW i \in 1..Depth' PROVE stack[i + 1].pkg # p
        OBVIOUS
    <2>1. 1 < i + 1
        BY <1>4
    <2>2. Nested(1, i + 1)
        BY <1>1, <1>5, <2>1 DEF StackInv
    <2> QED BY <1>2, <2>2 DEF Nested
<1>8. TypeOK'
    BY <1>1, <1>3, <1>6 DEF TypeOK, CarriedType, ContextType
<1>9. StackInv'
    <2>1. ASSUME NEW i \in DOMAIN stack' PROVE stack'[i].pkg = Root <=> i = Depth' + 1
        <3>1. stack'[i] = stack[i + 1] /\ i + 1 \in DOMAIN stack /\ i \in Nat
            BY <1>2, <1>3
        <3>2. stack[i + 1].pkg = Root <=> i + 1 = Depth + 1
            BY <1>1, <3>1 DEF StackInv
        <3>3. i + 1 = Depth + 1 <=> i = Depth' + 1
            BY <1>2, <1>4, <3>1
        <3> QED BY <3>1, <3>2, <3>3
    <2>2. ASSUME NEW i \in 1..Depth' PROVE InPlace(i)'
        <3>1. PICK q : q = stack[i + 1].pkg /\ q # p
            BY <1>7
        <3>2. /\ states[q] = "resolving" /\ registry[q] # None
              /\ \A k \in DOMAIN stack[i + 1].todo : stack[i + 1].todo[k].name \in Needs(q)
            BY <1>1, <1>5, <3>1 DEF StackInv, InPlace
        <3>3. q \in Package
            <4>1. stack[i + 1] \in Frame /\ i + 1 # Depth + 1 /\ i + 1 \in DOMAIN stack
                <5>1. PICK m \in 1..Depth : m = i + 1
                    BY <1>5
                <5>2. m # Depth + 1
                    <6>1. Depth \in Nat
                        BY <1>2
                    <6>2. m \in Nat /\ m <= Depth
                        BY <6>1
                    <6> HIDE DEF Depth
                    <6> QED BY <6>1, <6>2
                <5>3. m \in DOMAIN stack
                    BY <1>3, <1>5, <5>1
                <5>4. stack[m] \in Frame
                    BY <1>2, <5>3
                <5> QED BY <5>1, <5>2, <5>3, <5>4
            <4>2. q # Root
                BY <1>1, <3>1, <4>1 DEF StackInv
            <4> QED BY <3>1, <4>1, <4>2 DEF Frame
        <3>4. states'[q] = "resolving" /\ Needs(q)' = Needs(q) /\ stack'[i] = stack[i + 1]
            BY <1>1, <1>3, <1>5, <1>6, <3>1, <3>2, <3>3, BelowSame
        <3> QED BY <1>1, <3>1, <3>2, <3>4 DEF InPlace
    <2>3. ASSUME NEW i \in 1..Depth', NEW j \in 1..Depth', i < j PROVE Nested(i, j)'
        <3>1. PICK q : q = stack[j + 1].pkg
            OBVIOUS
        <3>2. i + 1 < j + 1
            BY <1>4, <2>3
        <3>3. stack[i + 1].pkg # q /\ stack[i + 1].pkg \in Below(q)
            BY <1>1, <1>5, <3>1, <3>2 DEF StackInv, Nested
        <3>4. stack'[i] = stack[i + 1] /\ stack'[j] = stack[j + 1] /\ Below(q)' = Below(q)
            BY <1>1, <1>3, <1>5, BelowSame
        <3> QED BY <3>1, <3>3, <3>4 DEF Nested
    <2> QED BY <1>4, <2>1, <2>2, <2>3 DEF StackInv
<1>10. StatesInv'
    <2> SUFFICES ASSUME NEW q \in Package
                 PROVE  /\ states'[q] = "unseen" => asked[q] = << >> /\ registry[q] = None
                        /\ states'[q] = "resolving" => OnStack(q)'
                        /\ states'[q] = "resolved" => registry[q] # None
        BY <1>1 DEF StatesInv
    <2>1. CASE q = p
        <3>1. InPlace(1)
            BY <1>1, <1>5 DEF StackInv
        <3> QED BY <1>2, <1>6, <2>1, <3>1 DEF InPlace
    <2>2. CASE q # p
        <3>1. ASSUME states[q] = "resolving" PROVE OnStack(q)'
            <4>1. PICK i \in 1..Depth : stack[i].pkg = q
                BY <1>1, <3>1 DEF IInv, StatesInv, OnStack
            <4>2. i # 1
                BY <1>2, <2>2, <4>1
            <4>3. PICK j \in 1..Depth' : i = j + 1
                <5>1. i - 1 \in 1..Depth' /\ i = (i - 1) + 1
                    BY <1>2, <1>4, <4>2
                <5> QED BY <5>1
            <4>4. stack'[j].pkg = q
                BY <1>3, <1>5, <4>1, <4>3
            <4> QED BY <4>4 DEF OnStack
        <3> QED BY <1>6, <2>2, <3>1 DEF IInv, StatesInv
    <2> QED BY <2>1, <2>2
<1>11. TryingInv'
    BY <1>1 DEF TryingInv
<1>12. SettledInv'
    <2> SUFFICES ASSUME NEW q \in Resolved', Acyclic(q)' PROVE Settled(q)'
        BY DEF SettledInv
    <2>1. q \in Resolved /\ Acyclic(q)
        BY <1>1, BelowSame DEF Resolved, Acyclic
    <2>2. Settled(q)
        BY <2>1 DEF IInv, SettledInv
    <2> QED BY <1>1, <2>2, SettledSame
<1> QED BY <1>8, <1>9, <1>10, <1>11, <1>12 DEF IInv

-----------------------------------------------------------------------------
(* The steps that start over                                               *)

LEMMA DirectType ==
    ASSUME NEW w \in World
    PROVE  Direct(w) \in Seq(Request)
<1>1. w.direct \in Seq(Request)
    BY DEF World
<1>2. Latest \in Constraint
    BY DEF Constraint
<1>3. \A r \in Request : [r EXCEPT !.want = Latest] \in Request
    BY <1>2 DEF Request
<1> DEFINE asks(i) == IF w.bump /\ w.direct[i].name \in w.upgrade
                      THEN [w.direct[i] EXCEPT !.want = Latest] ELSE w.direct[i]
<1>4. Len(w.direct) \in Nat /\ DOMAIN w.direct = 1..Len(w.direct)
    BY <1>1
<1>5. \A i \in DOMAIN w.direct : asks(i) \in Request
    <2>1. \A i \in DOMAIN w.direct : w.direct[i] \in Request
        BY <1>1
    <2> QED BY <1>3, <2>1
<1>6. Direct(w) = [i \in DOMAIN w.direct |-> asks(i)]
    BY DEF Direct
<1> HIDE DEF asks
<1> QED BY <1>4, <1>5, <1>6

(* A pass that has just begun knows of no package.                         *)
Begun == \E w \in World :
    /\ stack = <<[pkg |-> Root, todo |-> Direct(w)]>> /\ trying = None
    /\ states = Unseen /\ registry = Nothing /\ asked = [p \in Package |-> << >>]
WalkInv == ContextType /\ StackInv /\ StatesInv /\ TryingInv /\ SettledInv

LEMMA Fresh == Begun => WalkInv
<1> SUFFICES ASSUME Begun PROVE WalkInv
    OBVIOUS
<1> PICK w \in World :
        /\ stack = <<[pkg |-> Root, todo |-> Direct(w)]>> /\ trying = None
        /\ states = Unseen /\ registry = Nothing /\ asked = [p \in Package |-> << >>]
    BY DEF Begun
<1> DEFINE f == [pkg |-> Root, todo |-> Direct(w)]
<1>1. f \in Frame /\ f.pkg = Root
    BY DirectType DEF Frame
<1> HIDE DEF f
<1>2. /\ stack \in Seq(Frame) /\ Len(stack) = 1 /\ DOMAIN stack = {1} /\ stack[1] = f
    BY <1>1 DEF f
<1>3. Depth = 0 /\ 1..Depth = {}
    BY <1>2 DEF Depth
<1>4. ContextType
    BY <1>2 DEF ContextType, Unseen, Nothing
<1>5. StackInv
    BY <1>1, <1>2, <1>3 DEF StackInv
<1>6. StatesInv
    BY DEF StatesInv, Unseen, Nothing
<1>7. TryingInv
    BY DEF TryingInv
<1>8. SettledInv
    <2>1. Resolved = {}
        BY DEF Resolved, Nothing
    <2> QED BY <2>1 DEF SettledInv
<1> QED BY <1>4, <1>5, <1>6, <1>7, <1>8 DEF WalkInv

LEMMA FreshNext == Begun' => WalkInv'
BY Fresh, PTL

LEMMA FreshStep ==
    ASSUME NEW w \in World, FreshContext(w)
    PROVE  WalkInv'
<1>1. Begun'
    BY DEF FreshContext, Begun
<1> QED BY <1>1, FreshNext

LEMMA RestartsOver ==
    ASSUME IInv, Restart
    PROVE  IInv'
<1> PICK p : p = Pending.name
    OBVIOUS
<1> PICK ref : ref = Again(Pending).ref
    OBVIOUS
<1>1. /\ Requested /\ ~Clashes(Pending) /\ states[p] = "resolved"
      /\ Again(Pending).error = None
      /\ history' = [history EXCEPT ![p] = Append(history[p], ref)]
      /\ overrides' = [overrides EXCEPT ![p] = ref]
      /\ FreshContext(world)
      /\ world' = world /\ excluded' = excluded /\ outcome' = outcome /\ first' = first
      /\ TypeOK /\ StackInv /\ world \in World
    BY DEF Restart, Restarts, Revisits, Remembered, IInv, TypeOK
<1>2. /\ p \in Package /\ Pending.source \in Source /\ Asked(Pending) \in Seq(Ask)
    BY <1>1, AskTypes
<1>3. ref \in Ref
    BY <1>1, <1>2, SelectedType DEF Again
<1>4. CarriedType'
    <2>1. history[p] \in Seq(Ref) /\ Append(history[p], ref) \in Seq(Ref)
        BY <1>1, <1>2, <1>3 DEF TypeOK, CarriedType
    <2> QED BY <1>1, <1>2, <1>3, <2>1 DEF TypeOK, CarriedType
<1>5. WalkInv'
    BY <1>1, FreshStep
<1> QED BY <1>1, <1>4, <1>5 DEF IInv, TypeOK, WalkInv

LEMMA WrittenType ==
    ASSUME TypeOK
    PROVE  Written \in [Package -> Locked \cup {None}]
<1> SUFFICES ASSUME NEW p \in Package, registry[p] # None
             PROVE  [source |-> registry[p].source, label |-> registry[p].ref.label,
                     commit |-> registry[p].ref.commit] \in Locked
    BY DEF Written
<1>1. registry[p].source \in Source /\ registry[p].ref \in Ref
    BY DEF TypeOK, ContextType, Node
<1> QED BY <1>1 DEF Ref, Locked

LEMMA ReplaysWritten ==
    ASSUME IInv, Replay
    PROVE  IInv'
<1>1. /\ TypeOK /\ world \in World
      /\ world' = [world EXCEPT !.lock = Written, !.unpublished = {}]
      /\ first' = [registry |-> registry, overrides |-> overrides,
                   moves |-> \E p \in Package :
                       registry[p] # None /\ (Floats(p) \/ Unpinned(p))]
      /\ overrides' = Nothing /\ excluded' = [p \in Package |-> {}]
      /\ history' = [p \in Package |-> << >>] /\ outcome' = "running"
    BY DEF Replay, IInv, TypeOK
<1>2. world' \in World
    BY <1>1, WrittenType DEF World
<1>3. CarriedType'
    BY <1>1 DEF CarriedType, Nothing
<1>4. first' \in First
    <2>1. (\E p \in Package : registry[p] # None /\ (Floats(p) \/ Unpinned(p))) \in BOOLEAN
        OBVIOUS
    <2>2. /\ registry \in [Package -> Node \cup {None}]
          /\ overrides \in [Package -> Ref \cup {None}]
        BY <1>1 DEF TypeOK, CarriedType, ContextType
    <2> QED BY <1>1, <2>1, <2>2 DEF First
<1>5. WalkInv'
    <2>1. Begun'
        BY <1>2 DEF Replay, FreshContext, Begun
    <2> QED BY <2>1, FreshNext
<1> QED BY <1>1, <1>2, <1>3, <1>4, <1>5 DEF IInv, TypeOK, WalkInv, Outcome

(* The steps that end a resolution, with a graph or with an error.         *)
LEMMA Ending ==
    ASSUME IInv,
           \/ RefuseIdentity \/ RevisitFails \/ RefuseOscillation
           \/ NoCandidate \/ RefuseEngine \/ Finish
    PROVE  IInv'
<1>1. \A how : Ends(how) /\ how \in Outcome => IInv'
    BY Unmoved DEF Ends
<1>2. \A p, s, asks : Select(p, s, asks).error # None => Select(p, s, asks).error \in Outcome
    BY SelectErrors DEF Outcome
<1>3. \A p, asks, e : e \in Outcome => Blamed(p, asks, e) \in Outcome
    BY DEF Blamed, Outcome
<1>4. CASE RefuseIdentity
    BY <1>1, <1>4 DEF RefuseIdentity, Outcome
<1>5. CASE RevisitFails
    BY <1>1, <1>2, <1>3, <1>5 DEF RevisitFails, Again
<1>6. CASE RefuseOscillation
    BY <1>1, <1>6 DEF RefuseOscillation, Outcome
<1>7. CASE NoCandidate
    <2>1. Trying /\ Candidate.error # None
        BY <1>7 DEF NoCandidate
    <2>2. Candidate.error \in Outcome
        BY <2>1, TrialTypes DEF Outcome
    <2>3. {"engine", "panic"} \subseteq Outcome
        BY DEF Outcome
    <2> QED BY <1>1, <1>7, <2>2, <2>3 DEF NoCandidate
<1>8. CASE RefuseEngine
    BY <1>1, <1>8 DEF RefuseEngine, Outcome
<1>9. CASE Finish
    BY <1>1, <1>9 DEF Finish, Outcome
<1> QED BY <1>4, <1>5, <1>6, <1>7, <1>8, <1>9

-----------------------------------------------------------------------------
(* The lock that a sync leaves behind: every ref that a plain sync selects *)
(* it selects again from the record of it, unless the package follows      *)
(* tags or has lost its pin.                                               *)

Clean == [p \in Package |-> {}]

(* A ref is known by the tag or the pin that was asked for, or by neither. *)
Labels(ref, asks) ==
    \/ ref.version \in Version /\ ref.label = ref.version
    \/ ref.version = None /\ (ref.label = None \/ ref.label \in Wants(asks, "pin"))

(* The world of the next sync, seen from the end of the first one.         *)
Rewritten ==
    /\ world \in World /\ world.upgrade = {} /\ ~world.frozen
    /\ world' = [world EXCEPT !.lock = Written, !.unpublished = {}]
    /\ excluded = Clean /\ excluded' = Clean

(* What a selection depends on besides the lock and the tags.              *)
LEMMA SelectsLike ==
    ASSUME Rewritten, NEW p \in Package
    PROVE  /\ Mode(p) = "prefer" /\ Mode(p)' = "prefer"
           /\ \A lk : Fetchable(lk)' <=> Fetchable(lk)
           /\ \A asks, v : Allows(p, asks, v)' <=> Allows(p, asks, v)
           /\ \A asks, lk : KeepsLock(p, asks, lk)' <=> KeepsLock(p, asks, lk)
           /\ \A s : Published(s)' = DOMAIN Tags[s]
              /\ Published(s) \subseteq DOMAIN Tags[s]
           /\ \A s : world.unpublished = {} => Published(s)' = Published(s)
           /\ \A s, lk, b : SelectPin(p, s, lk, b)' = SelectPin(p, s, lk, b)
           /\ \A s, lk : SelectHead(p, s, lk)' = SelectHead(p, s, lk)
<1>1. /\ world'.upgrade = {} /\ ~world'.frozen /\ world'.gone = world.gone
      /\ world'.unpublished = {}
    BY DEF Rewritten, World
<1>2. Mode(p) = "prefer" /\ Mode(p)' = "prefer"
    BY <1>1 DEF Rewritten, Mode
<1>3. \A lk : Fetchable(lk)' <=> Fetchable(lk)
    BY <1>1 DEF Fetchable
<1>4. \A asks, v : Allows(p, asks, v)' <=> Allows(p, asks, v)
    BY DEF Rewritten, Allows, Clean
<1>5. \A asks, lk : KeepsLock(p, asks, lk)' <=> KeepsLock(p, asks, lk)
    BY <1>2, <1>4 DEF KeepsLock
<1>6. \A s : Published(s)' = DOMAIN Tags[s] /\ Published(s) \subseteq DOMAIN Tags[s]
    BY <1>1 DEF Published
<1>7. \A s : world.unpublished = {} => Published(s)' = Published(s)
    BY <1>1 DEF Published
<1>8. \A s, lk, b : SelectPin(p, s, lk, b)' = SelectPin(p, s, lk, b)
    BY <1>2, <1>3 DEF SelectPin
<1>9. \A s, lk : SelectHead(p, s, lk)' = SelectHead(p, s, lk)
    BY <1>2, <1>3 DEF SelectHead
<1> QED BY <1>2, <1>3, <1>4, <1>5, <1>6, <1>7, <1>8, <1>9

(* The record that the first sync leaves of a package.                     *)
LEMMA Recorded ==
    ASSUME Rewritten, TypeOK, NEW p \in Package, registry[p] # None,
           NEW s, s = registry[p].source, NEW ref, ref = registry[p].ref
    PROVE  LET lk == [source |-> s, label |-> ref.label, commit |-> ref.commit] IN
           /\ LockOf(p, s)' = lk /\ lk # None
           /\ LockOf(p, s) # None => LockOf(p, s) = world.lock[p]
<1> DEFINE lk == [source |-> s, label |-> ref.label, commit |-> ref.commit]
<1>1. world'.lock = Written
    BY DEF Rewritten, World
<1>2. Written[p] = lk /\ lk \in Locked
    <2>1. s \in Source /\ ref \in Ref
        BY DEF TypeOK, ContextType, Node
    <2> QED BY <2>1 DEF Written, Ref, Locked
<1>3. lk # None /\ lk.source = s
    BY <1>2, NoneAssumption
<1>4. Mode(p)' # "latest"
    BY SelectsLike
<1> HIDE DEF lk
<1>5. world'.lock[p] = lk
    BY <1>1, <1>2
<1>6. LockOf(p, s)' = lk
    BY <1>3, <1>4, <1>5 DEF LockOf
<1>7. LockOf(p, s) # None => LockOf(p, s) = world.lock[p]
    BY DEF LockOf
<1> QED BY <1>3, <1>6, <1>7 DEF lk

(* The same selection from the record of its result. A pin is found in the *)
(* record, or the branch has not moved since it was looked up; a version   *)
(* is kept by the record; HEAD stays HEAD.                                 *)
LEMMA Reselects ==
    ASSUME Rewritten, TypeOK, NEW p \in Package, registry[p] # None,
           NEW asks \in Seq(Ask), NEW s, s = registry[p].source,
           NEW ref, ref = registry[p].ref,
           Agrees(Select(p, s, asks), ref), Labels(ref, asks),
           ~Floats(p), ~Unpinned(p),
           \A kind : Wants(asks, kind) \subseteq Wants(asked[p], kind)
    PROVE  /\ Agrees(Select(p, s, asks)', ref)
           /\ Select(p, s, asks).ref = ref => Select(p, s, asks)'.ref = ref
<1> DEFINE sel == Select(p, s, asks)
           new == Select(p, s, asks)'
           lk == LockOf(p, s)
           nk == [source |-> s, label |-> ref.label, commit |-> ref.commit]
<1>0. s \in Source /\ ref \in Ref /\ None \notin Version \cup Pin
    BY UpstreamAssumption DEF TypeOK, ContextType, Node
<1>1. LockOf(p, s)' = nk /\ nk # None /\ nk.label = ref.label /\ nk.commit = ref.commit
    BY Recorded
<1>2. sel.error = None /\ sel.ref.version = ref.version /\ sel.ref.commit = ref.commit
    BY DEF Agrees, Changes
<1>3. Settles(asks)
    BY <1>0, <1>2, Selected DEF Rewritten
<1>4. Mode(p) # "frozen" /\ Mode(p)' # "frozen" /\ Mode(p) = "prefer"
    BY SelectsLike
<1>5. ref = [version |-> ref.version, label |-> ref.label, commit |-> ref.commit]
    BY <1>0 DEF Ref
<1> SUFFICES new = sel \/ new = At(ref.version, ref.label, ref.commit)
    <2>1. CASE new = sel
        BY <1>2, <2>1 DEF Agrees, Changes
    <2>2. CASE new = At(ref.version, ref.label, ref.commit)
        BY <1>2, <1>5, <2>2 DEF Agrees, Changes, At
    <2> QED BY <2>1, <2>2
<1>6. CASE Wants(asks, "pin") # {}
    <2>1. PICK b \in Wants(asks, "pin") : b = CHOOSE c \in Wants(asks, "pin") : TRUE
        BY <1>6
    <2>2. sel = SelectPin(p, s, lk, b)
        BY <1>3, <1>4, <1>6, <2>1 DEF Select
    <2>3. new = SelectPin(p, s, nk, b)'
        BY <1>1, <1>3, <1>4, <1>6, <2>1 DEF Select
    <2>4. new = SelectPin(p, s, nk, b)
        BY <2>3, SelectsLike
    <2> DEFINE here(k) == k # None /\ k.label = b /\ Fetchable(k)
    <2>5. \A k : SelectPin(p, s, k, b) =
                     At(None, b, IF here(k) THEN k.commit ELSE Branch[s][b])
        BY <1>4 DEF SelectPin
    <2>6. ref.version = None
          /\ ref.commit = IF here(lk) THEN lk.commit ELSE Branch[s][b]
        BY <1>2, <2>2, <2>5, AtFields
    <2>7. ref.label = b \/ ref.label = None
        <3>1. ref.label = None \/ ref.label \in Wants(asks, "pin")
            BY <1>0, <2>6 DEF Labels
        <3> QED BY <1>3, <2>1, <3>1, OnePin
    <2>8. CASE here(nk)
        <3>1. new = At(None, b, ref.commit)
            BY <1>1, <2>4, <2>5, <2>8
        <3> QED BY <1>1, <2>6, <2>8, <3>1
    <2>9. CASE ~here(nk)
        <3>1. new = At(None, b, Branch[s][b])
            BY <2>4, <2>5, <2>9
        <3>2. ref.commit = Branch[s][b]
            <4> SUFFICES ASSUME here(lk) PROVE FALSE
                BY <2>6
            <4>1. lk = world.lock[p] /\ world.lock[p].label \in Wants(asked[p], "pin")
                BY <2>1, Recorded
            <4>2. ref.label = b
                BY <2>7, <4>1 DEF Unpinned
            <4>3. Fetchable(nk)
                BY <1>1, <2>6 DEF Fetchable
            <4> QED BY <1>1, <2>9, <4>2, <4>3
        <3> QED BY <2>2, <2>5, <2>6, <3>1, <3>2
    <2> QED BY <2>8, <2>9
<1>7. CASE Wants(asks, "pin") = {} /\ KeepsLock(p, asks, lk) /\ Fetchable(lk)
    <2>1. sel = At(lk.label, lk.label, lk.commit) /\ lk.label \in Version
        BY <1>3, <1>4, <1>7 DEF Select, KeepsLock
    <2>2. ref.version = lk.label /\ ref.commit = lk.commit /\ ref.label = lk.label
        BY <1>0, <1>2, <2>1, AtFields DEF Labels
    <2>3. KeepsLock(p, asks, nk) /\ Fetchable(nk)
        BY <1>1, <1>7, <2>2 DEF KeepsLock, Fetchable
    <2>4. KeepsLock(p, asks, nk)' /\ Fetchable(nk)'
        BY <2>3, SelectsLike
    <2>5. new = At(nk.label, nk.label, nk.commit)
        BY <1>1, <1>3, <1>4, <1>7, <2>4 DEF Select
    <2> QED BY <1>1, <2>2, <2>5
<1>8. CASE Wants(asks, "pin") = {} /\ ~(KeepsLock(p, asks, lk) /\ Fetchable(lk))
           /\ Published(s) = {}
    <2>1. sel = SelectHead(p, s, lk)
        BY <1>3, <1>4, <1>8 DEF Select
    <2>2. ref.version = None /\ ref.label = None
        <3>1. ref.version = None
            BY <1>2, <2>1, AtFields DEF SelectHead
        <3> QED BY <1>0, <1>8, <3>1 DEF Labels
    <2>3. Published(s)' = {}
        <3>1. DOMAIN Tags[s] = {}
            BY <1>8 DEF Floats
        <3> QED BY <3>1, SelectsLike
    <2>4. ~KeepsLock(p, asks, nk)'
        <3>1. ~KeepsLock(p, asks, nk)
            BY <1>0, <1>1, <2>2 DEF KeepsLock
        <3> QED BY <3>1, SelectsLike
    <2>5. new = SelectHead(p, s, nk)
        <3>1. new = SelectHead(p, s, nk)'
            BY <1>1, <1>3, <1>4, <1>8, <2>3, <2>4 DEF Select
        <3> QED BY <3>1, SelectsLike
    <2>6. ref.commit = IF Fetchable(lk) THEN lk.commit ELSE Branch[s][HEAD]
        BY <1>2, <1>4, <2>1, AtFields DEF SelectHead
    <2>7. CASE Fetchable(nk)
        <3>1. new = At(None, None, ref.commit)
            BY <1>1, <1>4, <2>5, <2>7 DEF SelectHead
        <3> QED BY <2>2, <3>1
    <2>8. CASE ~Fetchable(nk)
        <3>1. ref.commit = Branch[s][HEAD]
            <4> SUFFICES ASSUME Fetchable(lk) PROVE FALSE
                BY <2>6
            <4>1. Fetchable(nk)
                BY <1>1, <2>6 DEF Fetchable
            <4> QED BY <2>8, <4>1
        <3>2. new = At(None, None, ref.commit)
            BY <2>5, <2>8, <3>1 DEF SelectHead
        <3> QED BY <2>2, <3>2
    <2> QED BY <2>7, <2>8
<1>9. CASE Wants(asks, "pin") = {} /\ ~(KeepsLock(p, asks, lk) /\ Fetchable(lk))
           /\ Published(s) # {}
    <2>1. sel = SelectTag(p, s, asks, lk)
        BY <1>3, <1>4, <1>9 DEF Select
    <2>2. PICK v \in Tagged(p, s, asks) :
              /\ sel = At(v, v, Tags[s][v])
              /\ v = IF KeepsLock(p, asks, lk) /\ lk.label \in Tagged(p, s, asks)
                     THEN lk.label ELSE Max(Tagged(p, s, asks))
        BY <1>0, <1>2, <2>1, TagSelected
    <2>3. v \in Published(s) /\ Allows(p, asks, v) /\ v \in Version
        BY <1>0, UpstreamAssumption DEF Tagged, Published
    <2>4. ref.version = v /\ ref.label = v /\ ref.commit = Tags[s][v]
        <3>1. ref.version = v /\ ref.commit = Tags[s][v]
            <4> HIDE DEF sel, new
            <4>1. PICK c : c = Tags[s][v]
                OBVIOUS
            <4> QED BY <1>2, <2>2, <4>1 DEF At
        <3> QED BY <1>0, <2>3, <3>1 DEF Labels
    <2>5. Published(s)' # {} /\ v \in Published(s)'
        BY <2>3, SelectsLike
    <2>6. CASE Wants(asks, "latest") = {}
        <3>1. KeepsLock(p, asks, nk)'
            <4>1. KeepsLock(p, asks, nk)
                BY <1>1, <1>4, <2>3, <2>4, <2>6 DEF KeepsLock
            <4> QED BY <4>1, SelectsLike
        <3>2. CASE Fetchable(nk)
            <4>1. Fetchable(nk)'
                BY <3>2, SelectsLike
            <4>2. new = At(nk.label, nk.label, nk.commit)
                BY <1>1, <1>3, <1>4, <1>9, <3>1, <4>1 DEF Select
            <4> QED BY <1>1, <2>4, <4>2
        <3>3. CASE ~Fetchable(nk)
            <4>1. ~Fetchable(nk)'
                BY <3>3, SelectsLike
            <4>2. new = SelectTag(p, s, asks, nk)'
                BY <1>1, <1>3, <1>4, <1>9, <2>5, <4>1 DEF Select
            <4>3. Allows(p, asks, v)'
                BY <2>3, SelectsLike
            <4>4. nk.label \in {u \in Published(s)' : Allows(p, asks, u)'}
                BY <1>1, <2>4, <2>5, <4>3
            <4>5. new = At(nk.label, nk.label, Tags[s][nk.label])
                BY <3>1, <4>2, <4>4 DEF SelectTag
            <4> QED BY <1>1, <2>4, <4>5
        <3> QED BY <3>2, <3>3
    <2>7. CASE Wants(asks, "latest") # {}
        <3>1. world.unpublished = {}
            <4>1. Wants(asked[p], "latest") # {}
                BY <2>7
            <4> QED BY <1>9, <4>1 DEF Floats
        <3>2. ~KeepsLock(p, asks, lk) /\ ~KeepsLock(p, asks, nk)
              /\ ~KeepsLock(p, asks, nk)'
            <4>1. ~KeepsLock(p, asks, lk) /\ ~KeepsLock(p, asks, nk)
                BY <2>7 DEF KeepsLock
            <4> QED BY <4>1, SelectsLike
        <3>3. Published(s)' = Published(s)
            BY <3>1, SelectsLike
        <3>4. new = SelectTag(p, s, asks, nk)'
            BY <1>1, <1>3, <1>4, <1>9, <2>5, <3>2 DEF Select
        <3>5. {u \in Published(s)' : Allows(p, asks, u)'} = Tagged(p, s, asks)
            BY <3>3, SelectsLike DEF Tagged
        <3>6. new = At(v, v, Tags[s][v])
            BY <2>2, <3>2, <3>4, <3>5 DEF SelectTag
        <3> QED BY <2>2, <3>6
    <2> QED BY <2>6, <2>7
<1> QED BY <1>6, <1>7, <1>8, <1>9

-----------------------------------------------------------------------------
(* The trail of a sync                                                     *)

(* A moment of a pass, and the five ways in which a pass that is not       *)
(* started over goes on to the next.                                       *)
Now == [stack |-> stack, trying |-> trying, states |-> states,
        registry |-> registry, asked |-> asked]
Start == [stack |-> <<[pkg |-> Root, todo |-> Direct(world)]>>, trying |-> None,
          states |-> Unseen, registry |-> Nothing, asked |-> [p \in Package |-> << >>]]

(* Top, Pending, Popped and Asked of that moment.                          *)
Inner(x) == Head(x.stack)
Due(x) == Head(Inner(x).todo)
Rest(x) == <<[Inner(x) EXCEPT !.todo = Tail(@)]>> \o Tail(x.stack)
AsksAt(x) == Append(x.asked[Due(x).name], [by |-> Inner(x).pkg, want |-> Due(x).want])

Meets(x) == LET r == Due(x) IN
    /\ x.trying = None /\ Inner(x).todo # << >>
    /\ ~ \E q \in Package \ {r.name} :
             x.registry[q] # None /\ x.registry[q].source = r.source
    /\ ~(x.registry[r.name] # None /\ x.registry[r.name].source # r.source)
Asking(x, tr, st) ==
    [stack |-> Rest(x), trying |-> tr, states |-> st, registry |-> x.registry,
     asked |-> [x.asked EXCEPT ![Due(x).name] = AsksAt(x)]]

(* VisitUnseen, VisitResolving, RevisitHolds, Register and Return, with    *)
(* the checks that they pass: only Keeps and Takes look at the world.      *)
Opens(x, y) == LET r == Due(x) IN
    /\ Meets(x) /\ x.states[r.name] = "unseen"
    /\ y = Asking(x, [request |-> r, carried |-> None, rejected |-> FALSE],
                  [x.states EXCEPT ![r.name] = "resolving"])
Cuts(x, y) ==
    /\ Meets(x) /\ x.states[Due(x).name] = "resolving"
    /\ y = Asking(x, None, x.states)
Keeps(x, y) == LET r == Due(x)  node == x.registry[r.name] IN
    /\ Meets(x) /\ x.states[r.name] = "resolved"
    /\ \/ r.want.kind = "semver" /\ node.ref.version \in r.want.is
       \/ Agrees(Select(r.name, r.source, AsksAt(x)), node.ref)
    /\ y = Asking(x, None, x.states)
    /\ r.name \in Package /\ node # None /\ AsksAt(x) \in Seq(Ask)
    /\ y.asked[r.name] = AsksAt(x)
Takes(x, y) == LET r == x.trying.request
                   sel == Select(r.name, r.source, x.asked[r.name])
                   node == [source |-> r.source, ref |-> sel.ref] IN
    /\ x.trying # None /\ x.trying.carried = None /\ ~x.trying.rejected
    /\ sel.error = None /\ sel.ref.commit \notin world.refused
    /\ y = [stack |-> <<[pkg |-> r.name, todo |-> world.manifest[sel.ref.commit]]>>
                      \o x.stack,
            trying |-> None, states |-> x.states,
            registry |-> [x.registry EXCEPT ![r.name] = node], asked |-> x.asked]
    /\ r.name \in Package /\ x.asked[r.name] \in Seq(Ask)
    /\ node # None /\ y.registry[r.name] = node
Leaves(x, y) ==
    /\ x.trying = None /\ Inner(x).todo = << >> /\ Inner(x).pkg # Root
    /\ y = [stack |-> Tail(x.stack), trying |-> None,
            states |-> [x.states EXCEPT ![Inner(x).pkg] = "resolved"],
            registry |-> x.registry, asked |-> x.asked]

Follows(x, y) == Opens(x, y) \/ Cuts(x, y) \/ Keeps(x, y) \/ Takes(x, y) \/ Leaves(x, y)
Done(x) == x.trying = None /\ Inner(x).todo = << >> /\ Inner(x).pkg = Root

(* A pass that neither a restart nor a rejection has touched so far.       *)
Straight == overrides = Nothing /\ (trying # None => ~trying.rejected)

(* What was registered stays, with what was asked for it.                  *)
Before(x) == \A p \in Package :
    /\ x.registry[p] # None =>
           /\ x.registry[p] = registry[p]
           /\ Labels(registry[p].ref, x.asked[p])
    /\ \A kind : Wants(x.asked[p], kind) \subseteq Wants(asked[p], kind)

(* The moments of the sync so far: each but the last has been followed.    *)
Trail(H) ==
    /\ Start \in H /\ Now \in H
    /\ \A x \in H : Before(x)
    /\ \A x \in H : x = Now \/ \E y \in H : Follows(x, y)
TrailInv ==
    /\ outcome = "ok" => Done(Now)
    /\ first = None /\ Straight => excluded = Clean /\ \E H : Trail(H)

LEMMA NowFields ==
    /\ Now.stack = stack /\ Now.trying = trying /\ Now.states = states
    /\ Now.registry = registry /\ Now.asked = asked
    /\ Inner(Now) = Top /\ Due(Now) = Pending /\ Rest(Now) = Popped
    /\ AsksAt(Now) = Asked(Pending)
    /\ Meets(Now) <=> trying = None /\ Top.todo # << >> /\ ~Clashes(Pending)
<1>1. /\ Now.stack = stack /\ Now.trying = trying /\ Now.states = states
      /\ Now.registry = registry /\ Now.asked = asked
    BY DEF Now
<1>2. Inner(Now) = Top
    BY <1>1 DEF Inner, Top
<1>3. Due(Now) = Pending
    BY <1>2 DEF Due, Pending
<1>4. Rest(Now) = Popped
    BY <1>1, <1>2 DEF Rest, Popped
<1>5. AsksAt(Now) = Asked(Pending)
    BY <1>1, <1>2, <1>3 DEF AsksAt, Asked
<1>6. Meets(Now) <=> trying = None /\ Top.todo # << >> /\ ~Clashes(Pending)
    BY <1>1, <1>2, <1>3 DEF Meets, Clashes
<1> QED BY <1>1, <1>2, <1>3, <1>4, <1>5, <1>6

LEMMA NowNext ==
    Now' = [stack |-> stack', trying |-> trying', states |-> states',
            registry |-> registry', asked |-> asked']
BY DEF Now

(* A restart marks the sync for good, a rejection until the next ref is    *)
(* registered, which marks it for good.                                    *)
LEMMA Straightens ==
    ASSUME IInv, Step, Straight'
    PROVE  /\ Straight /\ overrides' = overrides /\ ~Restart /\ ~RejectCandidate
<1>1. TypeOK /\ StackInv /\ None \notin Ref
    BY NoneAssumption DEF IInv
<1>2. CASE Restart
    <2>1. PICK p : p = Pending.name
        OBVIOUS
    <2>2. PICK ref : ref = Again(Pending).ref
        OBVIOUS
    <2>3. Requested /\ overrides' = [overrides EXCEPT ![p] = ref]
          /\ Again(Pending).error = None
        BY <1>2, <2>1, <2>2 DEF Restart, Restarts, Revisits
    <2>4. p \in Package /\ Pending.source \in Source /\ Asked(Pending) \in Seq(Ask)
        BY <1>1, <2>1, <2>3, AskTypes
    <2>5. ref \in Ref
        BY <1>1, <2>1, <2>2, <2>3, <2>4, SelectedType DEF Again, TypeOK
    <2>6. overrides'[p] = ref
        BY <1>1, <2>3, <2>4 DEF TypeOK, CarriedType
    <2>7. overrides'[p] = None
        BY <2>4 DEF Straight, Nothing
    <2> QED BY <1>1, <2>5, <2>6, <2>7
<1>3. CASE RejectCandidate
    <2>1. Trying /\ trying' = [trying EXCEPT !.carried = None, !.rejected = TRUE]
        BY <1>3 DEF RejectCandidate, Refused
    <2>2. trying \in Trial
        BY <2>1 DEF IInv, TypeOK, ContextType, Trying
    <2>3. /\ trying' = [request |-> trying.request, carried |-> None, rejected |-> TRUE]
          /\ trying' \in Trial
        BY <2>1, <2>2 DEF Trial
    <2>4. trying' # None /\ trying'.rejected
        BY <2>3, NoneAssumption DEF Trial
    <2> QED BY <2>4 DEF Straight
<1>4. CASE Register
    <2>1. PICK p : p = trying.request.name
        OBVIOUS
    <2>2. PICK ref : ref = Candidate.ref
        OBVIOUS
    <2>3. /\ Trying /\ Candidate.error = None /\ trying # None
          /\ overrides' = IF trying.rejected THEN [overrides EXCEPT ![p] = ref]
                          ELSE overrides
        BY <1>4, <2>1, <2>2 DEF Register, Trying
    <2>4. p \in Package /\ ref \in Ref
        BY <2>1, <2>2, <2>3, TrialTypes
    <2>5. ~trying.rejected
        <3> SUFFICES ASSUME trying.rejected PROVE FALSE
            OBVIOUS
        <3>1. overrides'[p] = ref
            BY <1>1, <2>3, <2>4 DEF TypeOK, CarriedType
        <3>2. overrides'[p] = None
            BY <2>4 DEF Straight, Nothing
        <3> QED BY <1>1, <2>4, <3>1, <3>2
    <2>6. overrides' = overrides /\ overrides' = Nothing
        BY <2>3, <2>5 DEF Straight
    <2>7. ~Restart /\ ~RejectCandidate
        BY <2>3, <1>2, <1>3, <1>4 DEF Restart, Restarts, Revisits, Requested,
           Walking, RejectCandidate, Refused, Register
    <2> QED BY <2>5, <2>6, <2>7 DEF Straight
<1>5. CASE ~Restart /\ ~RejectCandidate /\ ~Register
    <2>1. overrides' = overrides /\ (trying = None \/ trying' = trying)
        <3>1. CASE RefuseIdentity \/ RevisitFails \/ RefuseOscillation
                   \/ NoCandidate \/ RefuseEngine \/ Finish
            <4>1. \A how : Ends(how) => overrides' = overrides /\ trying' = trying
                BY DEF Ends, carried, context
            <4> QED BY <3>1, <4>1 DEF RefuseIdentity, RevisitFails,
                       RefuseOscillation, NoCandidate, RefuseEngine, Finish
        <3>2. CASE VisitResolving
            BY <3>2 DEF VisitResolving, carried
        <3>3. CASE RevisitHolds
            BY <3>3 DEF RevisitHolds, carried
        <3>4. CASE VisitUnseen
            BY <3>4 DEF VisitUnseen, carried, Requested, Walking
        <3>5. CASE Return
            BY <3>5 DEF Return, carried
        <3> QED BY <1>5, <3>1, <3>2, <3>3, <3>4, <3>5 DEF Step
    <2> QED BY <1>5, <2>1 DEF Straight
<1> QED BY <1>2, <1>3, <1>4, <1>5

(* The steps that go on.                                                   *)
Goes == VisitUnseen \/ VisitResolving \/ RevisitHolds \/ Register \/ Return

LEMMA Advances ==
    ASSUME IInv, Straight, Goes
    PROVE  Follows(Now, Now')
<1>1. TypeOK /\ StackInv
    BY DEF IInv
<1>2. CASE VisitUnseen
    <2>1. /\ Requested /\ ~Clashes(Pending) /\ states[Pending.name] = "unseen"
          /\ asked' = [asked EXCEPT ![Pending.name] = Asked(Pending)] /\ stack' = Popped
          /\ states' = [states EXCEPT ![Pending.name] = "resolving"]
          /\ trying' = [request |-> Pending, carried |-> Override(Pending.name),
                        rejected |-> FALSE]
          /\ registry' = registry
        BY <1>2 DEF VisitUnseen, Asks
    <2>2. Override(Pending.name) = None
        <3>1. Pending.name \in Package
            BY <1>1, <2>1, AskTypes
        <3> QED BY <3>1 DEF Override, Straight, Nothing
    <2>3. Now' = Asking(Now,
                        [request |-> Due(Now), carried |-> None, rejected |-> FALSE],
                        [Now.states EXCEPT ![Due(Now).name] = "resolving"])
        BY <2>1, <2>2, NowFields, NowNext DEF Asking
    <2>4. Opens(Now, Now')
        BY <2>1, <2>3, NowFields DEF Opens, Requested, Walking
    <2> QED BY <2>4 DEF Follows
<1>3. CASE VisitResolving
    <2>1. /\ Requested /\ ~Clashes(Pending) /\ states[Pending.name] = "resolving"
          /\ asked' = [asked EXCEPT ![Pending.name] = Asked(Pending)] /\ stack' = Popped
          /\ states' = states /\ trying' = trying /\ registry' = registry
             /\ trying = None
        BY <1>3 DEF VisitResolving, Asks, Requested, Walking
    <2>2. Now' = Asking(Now, None, Now.states)
        BY <2>1, NowFields, NowNext DEF Asking
    <2>3. Cuts(Now, Now')
        BY <2>1, <2>2, NowFields DEF Cuts, Requested, Walking
    <2> QED BY <2>3 DEF Follows
<1>4. CASE RevisitHolds
    <2> PICK r : r = Pending
        OBVIOUS
    <2>1. /\ Requested /\ ~Clashes(r) /\ states[r.name] = "resolved"
          /\ \/ CannotChange(r)
             \/ Agrees(Select(r.name, r.source, Asked(r)), registry[r.name].ref)
          /\ asked' = [asked EXCEPT ![r.name] = Asked(r)] /\ stack' = Popped
          /\ states' = states /\ trying' = trying /\ registry' = registry
             /\ trying = None
        BY <1>4 DEF RevisitHolds, Revisits, Again, Agrees, Asks, Requested, Walking
    <2>2. Now' = Asking(Now, None, Now.states)
        BY <2>1, NowFields, NowNext DEF Asking
    <2>3. /\ r.name \in Package /\ Asked(r) \in Seq(Ask) /\ asked'[r.name] = Asked(r)
          /\ registry[r.name] # None
        <3>1. r.name \in Package /\ Asked(r) \in Seq(Ask)
              /\ asked \in [Package -> Seq(Ask)]
            BY <1>1, <2>1, AskTypes
        <3>2. registry[r.name] # None
            BY <2>1, <3>1 DEF IInv, StatesInv
        <3> QED BY <2>1, <3>1, <3>2
    <2>4. Now'.asked = asked'
        BY NowNext
    <2>5. Keeps(Now, Now')
        BY <2>1, <2>2, <2>3, <2>4, NowFields DEF Keeps, CannotChange, Requested, Walking
    <2> QED BY <2>5 DEF Follows
<1>5. CASE Register
    <2> PICK r : r = trying.request
        OBVIOUS
    <2> PICK sel : sel = Select(r.name, r.source, asked[r.name])
        OBVIOUS
    <2>1. /\ Trying /\ trying # None
          /\ r.name \in Package /\ asked[r.name] \in Seq(Ask) /\ trying \in Trial
          /\ r.source \in Source
        BY <1>5, TrialTypes DEF Register, Trying
    <2>2. trying.carried = None /\ ~trying.rejected
        BY <2>1 DEF Straight, Nothing, IInv, TryingInv
    <2>3. Candidate = sel
        BY <2>2 DEF Candidate
    <2> DEFINE node == [source |-> r.source, ref |-> sel.ref]
    <2>4. /\ sel.error = None /\ sel.ref.commit \notin world.refused
          /\ registry' = [registry EXCEPT ![r.name] = node]
          /\ stack' = <<[pkg |-> r.name, todo |-> world.manifest[sel.ref.commit]]>>
                      \o stack
          /\ trying' = None /\ states' = states /\ asked' = asked
        BY <1>5, <2>3 DEF Register, Refused, Trying
    <2>5. sel.ref \in Ref
        BY <1>1, <2>1, <2>4, SelectedType DEF TypeOK
    <2>6. node \in Node /\ node # None
        BY <2>1, <2>5, NoneAssumption DEF Node
    <2>7. registry'[r.name] = node
        <3>1. registry \in [Package -> Node \cup {None}]
            BY <1>1 DEF TypeOK, ContextType
        <3> QED BY <2>1, <2>4, <3>1
    <2>8. Now' = [stack |-> <<[pkg |-> r.name,
                               todo |-> world.manifest[sel.ref.commit]]>> \o Now.stack,
                  trying |-> None, states |-> Now.states,
                  registry |-> [Now.registry EXCEPT ![r.name] = node],
                  asked |-> Now.asked]
        BY <2>4, NowFields, NowNext
    <2>9. Now'.registry = registry'
        BY NowNext
    <2>10. Takes(Now, Now')
        BY <2>1, <2>2, <2>4, <2>6, <2>7, <2>8, <2>9, NowFields DEF Takes
    <2> QED BY <2>10 DEF Follows
<1>6. CASE Return
    <2>1. /\ trying = None /\ Top.todo = << >> /\ Top.pkg # Root
          /\ states' = [states EXCEPT ![Top.pkg] = "resolved"] /\ stack' = Tail(stack)
          /\ trying' = trying /\ registry' = registry /\ asked' = asked
        BY <1>6 DEF Return, Walking
    <2>2. Leaves(Now, Now')
        BY <2>1, NowFields, NowNext DEF Leaves
    <2> QED BY <2>2 DEF Follows
<1> QED BY <1>2, <1>3, <1>4, <1>5, <1>6 DEF Goes

LEMMA GoesOn ==
    ASSUME IInv, Goes
    PROVE  /\ \A p \in Package : registry[p] # None => registry'[p] = registry[p]
           /\ \A p \in Package : \A kind :
                  Wants(asked[p], kind) \subseteq Wants(asked'[p], kind)
           /\ world' = world /\ excluded' = excluded /\ first' = first
              /\ outcome' = outcome
           /\ Register \/ registry' = registry
<1>1. TypeOK /\ StackInv
    BY DEF IInv
<1>2. world' = world /\ excluded' = excluded /\ first' = first /\ outcome' = outcome
    BY DEF Goes, VisitUnseen, VisitResolving, RevisitHolds, Register, Return, carried
<1>3. Register \/ registry' = registry
    BY DEF Goes, VisitUnseen, VisitResolving, RevisitHolds, Return
<1>4. ASSUME NEW p \in Package, registry[p] # None PROVE registry'[p] = registry[p]
    <2>1. CASE Register
        <3>1. Trying
            BY <2>1 DEF Register
        <3>2. trying.request.name # p
            BY <1>4, <3>1, TrialTypes
        <3>3. PICK node : registry' = [registry EXCEPT ![trying.request.name] = node]
            BY <2>1 DEF Register
        <3> QED BY <1>1, <3>2, <3>3 DEF TypeOK, ContextType
    <2> QED BY <1>3, <2>1
<1>5. ASSUME NEW p \in Package, NEW kind
      PROVE Wants(asked[p], kind) \subseteq Wants(asked'[p], kind)
    <2>1. CASE Requested /\ Asks(Pending)
        <3>1. /\ asked'[Pending.name] = Append(asked[Pending.name], NewAsk)
              /\ \A q \in Package \ {Pending.name} : asked'[q] = asked[q]
            BY <1>1, <2>1, AskGrows
        <3>2. NewAsk \in Ask /\ asked[Pending.name] \in Seq(Ask)
            BY <1>1, <2>1, AskTypes
        <3>3. Wants(asked[Pending.name],
        kind) \subseteq Wants(asked'[Pending.name], kind)
            BY <3>1, <3>2, WantsAppend
        <3> QED BY <3>1, <3>3
    <2>2. (Requested /\ Asks(Pending)) \/ asked' = asked
        BY DEF Goes, VisitUnseen, VisitResolving, RevisitHolds, Revisits, Register,
           Return
    <2> QED BY <2>1, <2>2
<1> QED BY <1>2, <1>3, <1>4, <1>5

(* The ref that a selection registers is known by the tag or pin it was    *)
(* selected by.                                                            *)
LEMMA SelectedLabels ==
    ASSUME world \in World, NEW p \in Package, NEW s \in Source, NEW asks \in Seq(Ask),
           Select(p, s, asks).error = None
    PROVE  Labels(Select(p, s, asks).ref, asks)
<1>1. PICK sel : sel = Select(p, s, asks)
    OBVIOUS
<1>2. ByPin(p, s, asks, sel) \/ ByHead(p, s, asks, sel) \/ ByVersion(p, s, asks, sel)
    BY <1>1, Selected
<1>3. Labels(sel.ref, asks)
    BY <1>2 DEF ByPin, ByHead, ByVersion, At, Labels
<1> QED BY <1>1, <1>3

LEMMA BeforeGoes ==
    ASSUME IInv, Straight, Goes, Before(Now)
    PROVE  /\ \A x : Before(x) => Before(x)'
           /\ \A y : y = Now' => Before(y)'
<1>1. ASSUME NEW x, Before(x) PROVE Before(x)'
    BY <1>1, GoesOn DEF Before, Labels
<1>2. ASSUME NEW y, y = Now' PROVE Before(y)'
    <2>1. y.registry = registry' /\ y.asked = asked'
        BY <1>2, NowNext
    <2> SUFFICES ASSUME NEW p \in Package, registry'[p] # None
                 PROVE  Labels(registry'[p].ref, asked'[p])
        BY <2>1 DEF Before
    <2>2. CASE registry[p] # None
        <3>1. Labels(registry[p].ref, asked[p])
            BY <2>2, NowFields DEF Before
        <3>2. registry'[p] = registry[p]
              /\ Wants(asked[p], "pin") \subseteq Wants(asked'[p], "pin")
            BY <2>2, GoesOn
        <3> QED BY <3>1, <3>2 DEF Labels
    <2>3. CASE registry[p] = None
        <3>1. Register
            BY <2>3, GoesOn
        <3>2. Trying /\ trying # None /\ Candidate.error = None /\ asked' = asked
              /\ registry' = [registry EXCEPT ![trying.request.name] =
                                  [source |-> trying.request.source,
                                  ref |-> Candidate.ref]]
            BY <3>1 DEF Register, Trying
        <3>3. p = trying.request.name
            BY <2>3, <3>2 DEF IInv, TypeOK, ContextType
        <3>4. trying.request.source \in Source /\ asked[p] \in Seq(Ask)
            BY <3>2, <3>3, TrialTypes
        <3>5. trying.carried = None
            BY <3>2, <3>3 DEF Straight, Nothing, IInv, TryingInv
        <3>6. Candidate = Select(p, trying.request.source, asked[p])
            BY <3>3, <3>5 DEF Candidate
        <3>7. Labels(Candidate.ref, asked[p])
            BY <3>2, <3>4, <3>6, SelectedLabels DEF IInv, TypeOK
        <3>8. registry'[p].ref = Candidate.ref
            BY <3>2, <3>3 DEF IInv, TypeOK, ContextType
        <3> QED BY <3>2, <3>7, <3>8
    <2> QED BY <2>2, <2>3
<1> QED BY <1>1, <1>2

-----------------------------------------------------------------------------
(* What follows a moment                                                   *)

LEMMA FollowsSame ==
    ASSUME world' = world, excluded' = excluded, NEW x, NEW y, Follows(x, y)
    PROVE  Follows(x, y)'
<1>1. CASE Opens(x, y)
    BY <1>1 DEF Follows, Opens, Meets, Asking, Rest, Due, Inner, AsksAt
<1>2. CASE Cuts(x, y)
    BY <1>2 DEF Follows, Cuts, Meets, Asking, Rest, Due, Inner, AsksAt
<1>3. CASE Keeps(x, y)
    <2> PICK r : r = Due(x)
        OBVIOUS
    <2>1. Select(r.name, r.source, AsksAt(x))' = Select(r.name, r.source, AsksAt(x))
        <3> PICK p : p = r.name
            OBVIOUS
        <3>1. excluded'[p] = excluded[p]
            OBVIOUS
        <3>2. \A s, asks : Select(p, s, asks)' = Select(p, s, asks)
            BY <3>1, SelectSame
        <3> QED BY <3>2 DEF AsksAt, Due, Inner
    <2>2. Keeps(x, y)'
        BY <1>3, <2>1 DEF Keeps, Agrees, Changes, Meets, Asking, Rest, Due, Inner,
           AsksAt
    <2> QED BY <2>2 DEF Follows
<1>4. CASE Takes(x, y)
    <2> PICK r : r = x.trying.request
        OBVIOUS
    <2>1. Select(r.name, r.source, x.asked[r.name])' =
              Select(r.name, r.source, x.asked[r.name])
        <3> PICK p : p = r.name
            OBVIOUS
        <3>1. excluded'[p] = excluded[p]
            OBVIOUS
        <3>2. \A s, asks : Select(p, s, asks)' = Select(p, s, asks)
            BY <3>1, SelectSame
        <3> QED BY <3>2
    <2>2. Takes(x, y)'
        BY <1>4, <2>1 DEF Takes
    <2> QED BY <2>2 DEF Follows
<1>5. CASE Leaves(x, y)
    BY <1>5 DEF Follows, Leaves, Inner
<1> QED BY <1>1, <1>2, <1>3, <1>4, <1>5 DEF Follows

(* The resolver has no choice: one moment follows another.                 *)
LEMMA FollowsOnce ==
    ASSUME NEW x, NEW y, NEW z, Follows(x, y), Follows(x, z)
    PROVE  y = z
<1>1. CASE Opens(x, y)
    BY <1>1 DEF Follows, Opens, Cuts, Keeps, Takes, Leaves, Meets
<1>2. CASE Cuts(x, y)
    BY <1>2 DEF Follows, Opens, Cuts, Keeps, Takes, Leaves, Meets
<1>3. CASE Keeps(x, y)
    BY <1>3 DEF Follows, Opens, Cuts, Keeps, Takes, Leaves, Meets
<1>4. CASE Takes(x, y)
    BY <1>4 DEF Follows, Opens, Cuts, Keeps, Takes, Leaves, Meets
<1>5. CASE Leaves(x, y)
    BY <1>5 DEF Follows, Opens, Cuts, Keeps, Takes, Leaves, Meets
<1> QED BY <1>1, <1>2, <1>3, <1>4, <1>5 DEF Follows

LEMMA SameRef ==
    ASSUME Rewritten, TypeOK, NEW p \in Package, NEW s, NEW asks \in Seq(Ask),
           NEW sel, sel = Select(p, s, asks), sel.error = None,
           Labels(registry[p].ref, asks),
           registry[p] = [source |-> s, ref |-> sel.ref], registry[p] # None,
           ~Floats(p), ~Unpinned(p),
           \A kind : Wants(asks, kind) \subseteq Wants(asked[p], kind)
    PROVE  Select(p, s, asks)'.error = None /\ Select(p, s, asks)'.ref = sel.ref
<1> PICK ref : ref = sel.ref
    OBVIOUS
<1>1. s = registry[p].source /\ ref = registry[p].ref
    OBVIOUS
<1>2. Agrees(sel, ref)
    BY DEF Agrees, Changes
<1>3. Agrees(Select(p, s, asks)', ref) /\ Select(p, s, asks)'.ref = ref
    BY <1>1, <1>2, Reselects
<1> QED BY <1>3 DEF Agrees

(* What followed in the first sync follows in the next one.                *)
LEMMA FollowsReplayed ==
    ASSUME IInv, Rewritten, NEW x, NEW y, Before(x), Before(y), Follows(x, y),
           \A p \in Package : registry[p] # None => ~Floats(p) /\ ~Unpinned(p)
    PROVE  Follows(x, y)'
<1>1. CASE Opens(x, y)
    BY <1>1 DEF Follows, Opens, Meets, Asking, Rest, Due, Inner, AsksAt
<1>2. CASE Cuts(x, y)
    BY <1>2 DEF Follows, Cuts, Meets, Asking, Rest, Due, Inner, AsksAt
<1>3. CASE Keeps(x, y)
    <2> PICK r : r = Due(x)
        OBVIOUS
    <2> PICK p : p = r.name
        OBVIOUS
    <2> PICK s : s = r.source
        OBVIOUS
    <2> PICK asks : asks = AsksAt(x)
        OBVIOUS
    <2>1. /\ p \in Package /\ asks \in Seq(Ask) /\ asks = y.asked[p]
          /\ x.registry[p] # None /\ x.registry[p].source = s /\ y.registry = x.registry
        BY <1>3 DEF Keeps, Meets, Asking
    <2>2. /\ registry[p] = x.registry[p] /\ Labels(registry[p].ref, asks)
          /\ \A kind : Wants(asks, kind) \subseteq Wants(asked[p], kind)
        BY <2>1 DEF Before
    <2>3. PICK ref : ref = registry[p].ref
        OBVIOUS
    <2>4. Agrees(Select(p, s, asks), ref) => Agrees(Select(p, s, asks)', ref)
        BY <2>1, <2>2, <2>3, Reselects DEF IInv
    <2>5. \/ r.want.kind = "semver" /\ ref.version \in r.want.is
          \/ Agrees(Select(p, s, asks), ref)
        BY <1>3, <2>2, <2>3 DEF Keeps
    <2>6. \/ r.want.kind = "semver" /\ x.registry[p].ref.version \in r.want.is
          \/ Agrees(Select(p, s, asks), x.registry[p].ref)'
        BY <2>2, <2>3, <2>4, <2>5 DEF Agrees, Changes
    <2>7. Keeps(x, y)'
        BY <1>3, <2>6 DEF Keeps, Agrees, Changes, Meets, Asking, Rest, Due, Inner,
           AsksAt
    <2> QED BY <2>7 DEF Follows
<1>4. CASE Takes(x, y)
    <2>1. PICK r, p, s, asks, sel :
              /\ r = x.trying.request /\ p = r.name /\ s = r.source /\ asks = x.asked[p]
              /\ sel = Select(p, s, asks)
        OBVIOUS
    <2>2. sel = Select(p, s, asks)
        BY <2>1
    <2>3. /\ p \in Package /\ asks \in Seq(Ask) /\ asks = y.asked[p]
          /\ y.registry[p] = [source |-> s, ref |-> sel.ref] /\ y.registry[p] # None
          /\ sel.error = None
        BY <1>4, <2>1 DEF Takes
    <2>4. /\ registry[p] = [source |-> s, ref |-> sel.ref] /\ registry[p] # None
          /\ Labels(registry[p].ref, asks)
          /\ \A kind : Wants(asks, kind) \subseteq Wants(asked[p], kind)
        BY <2>3 DEF Before
    <2>5. TypeOK /\ ~Floats(p) /\ ~Unpinned(p)
        BY <2>3, <2>4 DEF IInv
    <2>6. Select(p, s, asks)'.error = None /\ Select(p, s, asks)'.ref = sel.ref
        BY <2>2, <2>3, <2>4, <2>5, SameRef
    <2>7. world'.refused = world.refused /\ world'.manifest = world.manifest
        BY DEF Rewritten, World
    <2>8. Takes(x, y)'
        BY <1>4, <2>1, <2>6, <2>7 DEF Takes
    <2> QED BY <2>8 DEF Follows
<1>5. CASE Leaves(x, y)
    BY <1>5 DEF Follows, Leaves, Inner
<1> QED BY <1>1, <1>2, <1>3, <1>4, <1>5 DEF Follows

-----------------------------------------------------------------------------
(* The first sync leaves a trail                                           *)

LEMMA StepCases ==
    ASSUME IInv, Step
    PROVE  /\ outcome = "running"
           /\ \/ Goes
              \/ Restart \/ RejectCandidate
              \/ /\ RefuseIdentity \/ RevisitFails \/ RefuseOscillation
                    \/ NoCandidate \/ RefuseEngine
                 /\ \E how \in Outcome \ {"ok", "running"} : Ends(how)
              \/ Finish
<1>1. outcome = "running"
    BY DEF Step, RefuseIdentity, VisitResolving, RevisitHolds, RevisitFails,
       Restart, RefuseOscillation, Restarts, Revisits, VisitUnseen, NoCandidate,
       RejectCandidate, RefuseEngine, Refused, Register, Return, Finish,
       Requested, Walking, Trying
<1>2. ASSUME RevisitFails PROVE \E how \in Outcome \ {"ok", "running"} : Ends(how)
    <2> PICK r : r = Pending
        OBVIOUS
    <2>1. Again(r).error # None /\ Ends(Blamed(r.name, Asked(r), Again(r).error))
        BY <1>2 DEF RevisitFails
    <2>2. Again(r).error \in {"frozen", "conflict"}
        BY <2>1, SelectErrors DEF Again
    <2>3. Blamed(r.name, Asked(r), Again(r).error) \in {"frozen", "conflict", "engine"}
        BY <2>2 DEF Blamed
    <2> QED BY <2>1, <2>3 DEF Outcome
<1>3. ASSUME NoCandidate PROVE \E how \in Outcome \ {"ok", "running"} : Ends(how)
    <2>1. Trying /\ Candidate.error # None
        BY <1>3 DEF NoCandidate
    <2>2. Candidate.error \in {"frozen", "conflict"}
        BY <2>1, TrialTypes
    <2> QED BY <1>3, <2>2 DEF NoCandidate, Outcome
<1>4. RefuseIdentity \/ RefuseOscillation \/ RefuseEngine =>
          \E how \in Outcome \ {"ok", "running"} : Ends(how)
    BY DEF RefuseIdentity, RefuseOscillation, RefuseEngine, Outcome
<1> QED BY <1>1, <1>2, <1>3, <1>4 DEF Step, Goes

LEMMA TrailBegins ==
    ASSUME outcome = "running", Now = Start, registry = Nothing,
           asked = [p \in Package |-> << >>], excluded = Clean
    PROVE  TrailInv
<1>1. Before(Now)
    <2>1. Now.registry = registry /\ Now.asked = asked
          /\ \A p \in Package : registry[p] = None
        BY NowFields DEF Nothing
    <2> QED BY <2>1 DEF Before
<1>2. Trail({Now})
    BY <1>1 DEF Trail
<1> QED BY <1>2 DEF TrailInv

LEMMA TrailBeginsNext ==
    outcome' = "running" /\ Now' = Start' /\ registry' = Nothing
    /\ asked' = [p \in Package |-> << >>] /\ excluded' = Clean => TrailInv'
<1>1. outcome = "running" /\ Now = Start /\ registry = Nothing
      /\ asked = [p \in Package |-> << >>] /\ excluded = Clean => TrailInv
    BY TrailBegins
<1>2. (outcome = "running" /\ Now = Start /\ registry = Nothing
      /\ asked = [p \in Package |-> << >>] /\ excluded = Clean => TrailInv)'
    BY <1>1, PTL
<1> QED BY <1>2 DEF Nothing, Clean

LEMMA Resting ==
    ASSUME world' = world, UNCHANGED context
    PROVE  /\ Now' = Now /\ Start' = Start
           /\ \A x : Before(x)' <=> Before(x)
           /\ \A x : Done(x)' <=> Done(x)
<1>1. stack' = stack /\ trying' = trying /\ states' = states
      /\ registry' = registry /\ asked' = asked
    BY DEF context
<1> QED BY <1>1 DEF Now, Start, Before, Labels, Done, Inner

LEMMA TrailSteps ==
    ASSUME IInv, TrailInv, Step
    PROVE  TrailInv'
<1>1. CASE Goes
    <2>1. outcome' = "running"
        BY <1>1, GoesOn, StepCases
    <2> SUFFICES ASSUME first' = None, Straight'
                 PROVE excluded' = Clean /\ \E H : Trail(H)'
        BY <2>1 DEF TrailInv, Clean
    <2>2. first = None /\ Straight /\ world' = world /\ excluded' = excluded
        BY <1>1, GoesOn, Straightens
    <2>3. PICK H : excluded = Clean /\ Trail(H)
        BY <2>2 DEF TrailInv
    <2>4. PICK y : y = Now'
        OBVIOUS
    <2>5. Follows(Now, y)
        BY <1>1, <2>2, <2>4, Advances
    <2> DEFINE K == H \cup {y}
    <2>6. Start' \in K /\ Now' \in K
        BY <2>2, <2>3, <2>4 DEF Trail, Start, Direct
    <2>7. \A x \in K : Before(x)'
        BY <1>1, <2>2, <2>3, <2>4, BeforeGoes DEF Trail
    <2>8. ASSUME NEW x \in K PROVE x = Now' \/ \E z \in K : Follows(x, z)'
        <3>1. CASE x = y
            BY <2>4, <3>1
        <3>2. CASE x # y
            <4>1. PICK z \in K : Follows(x, z)
                BY <2>3, <2>5, <3>2 DEF Trail
            <4> QED BY <2>2, <4>1, FollowsSame
        <3> QED BY <3>1, <3>2
    <2>9. Trail(K)'
        BY <2>6, <2>7, <2>8 DEF Trail
    <2> QED BY <2>2, <2>3, <2>9
<1>2. CASE Restart \/ RejectCandidate
    <2>1. outcome' = "running"
        BY <1>2, StepCases DEF Restart, RejectCandidate
    <2>2. ~Straight'
        BY <1>2, Straightens
    <2> QED BY <2>1, <2>2 DEF TrailInv
<1>3. CASE Finish \/ \E how \in Outcome \ {"ok", "running"} : Ends(how)
    <2>1. world' = world /\ UNCHANGED context /\ overrides' = overrides
          /\ excluded' = excluded
          /\ trying' = trying /\ first' = first
        BY <1>3 DEF Finish, Ends, carried, context
    <2>2. outcome' = "ok" => Done(Now)
        BY <1>3, NowFields DEF Finish, Ends, Walking, Done
    <2>3. outcome' = "ok" => Done(Now)'
        BY <2>1, <2>2, Resting
    <2> SUFFICES ASSUME first = None, Straight
                 PROVE excluded = Clean /\ \E H : Trail(H)'
        BY <2>1, <2>3 DEF TrailInv, Straight, Clean, Nothing
    <2>4. PICK H : excluded = Clean /\ Trail(H)
        BY DEF TrailInv
    <2>5. Trail(H)'
        BY <2>1, <2>4, Resting, FollowsSame DEF Trail
    <2> QED BY <2>4, <2>5
<1> QED BY <1>1, <1>2, <1>3, StepCases

LEMMA TrailReplays ==
    ASSUME IInv, Replay
    PROVE  TrailInv'
<1>1. /\ outcome' = "running" /\ excluded' = Clean /\ FreshContext(world')
    BY DEF Replay, Clean
<1>2. Now' = Start' /\ registry' = Nothing /\ asked' = [p \in Package |-> << >>]
    BY <1>1 DEF FreshContext, Now, Start, Nothing, Unseen, Direct
<1> QED BY <1>1, <1>2, TrailBeginsNext

LEMMA TrailInvariant == IInv /\ TrailInv /\ [Next]_vars => TrailInv'
<1> SUFFICES ASSUME IInv, TrailInv, [Next]_vars PROVE TrailInv'
    OBVIOUS
<1>1. CASE UNCHANGED vars
    <2>1. world' = world /\ UNCHANGED context /\ overrides' = overrides
          /\ excluded' = excluded
          /\ trying' = trying /\ first' = first /\ outcome' = outcome
        BY <1>1 DEF vars, context
    <2>2. outcome' = "ok" => Done(Now)'
        BY <2>1, Resting DEF TrailInv
    <2> SUFFICES ASSUME first = None, Straight
                 PROVE excluded = Clean /\ \E H : Trail(H)'
        BY <2>1, <2>2 DEF TrailInv, Straight, Clean, Nothing
    <2>3. PICK H : excluded = Clean /\ Trail(H)
        BY DEF TrailInv
    <2>4. Trail(H)'
        BY <2>1, <2>3, Resting, FollowsSame DEF Trail
    <2> QED BY <2>3, <2>4
<1> QED BY <1>1, TrailSteps, TrailReplays DEF Next

-----------------------------------------------------------------------------
(* The next sync walks along it                                            *)

Guided == first # None /\ first.overrides = Nothing /\ ~first.moves

(* The moments of the first sync, and among them the present one of the    *)
(* next sync: one that nothing follows is the end of the first sync.       *)
Guide(H) ==
    /\ Now \in H
    /\ \A x \in H : \/ Done(x) /\ x.registry = first.registry
                    \/ \E y \in H : Follows(x, y)
GuideInv == Guided =>
    /\ overrides = Nothing /\ excluded = Clean
    /\ outcome # "running" => outcome = "ok" /\ registry = first.registry
    /\ \E H : Guide(H)

LEMMA GuideReplays ==
    ASSUME IInv, TrailInv, Replay
    PROVE  GuideInv'
<1>1. /\ outcome = "ok" /\ first = None /\ ~world.frozen /\ world.upgrade = {}
      /\ world' = [world EXCEPT !.lock = Written, !.unpublished = {}]
      /\ first' = [registry |-> registry, overrides |-> overrides,
                   moves |-> \E p \in Package :
                       registry[p] # None /\ (Floats(p) \/ Unpinned(p))]
      /\ overrides' = Nothing /\ excluded' = Clean /\ outcome' = "running"
      /\ FreshContext(world') /\ world \in World
    BY DEF Replay, Clean, IInv, TypeOK
<1> SUFFICES ASSUME Guided' PROVE \E H : Guide(H)'
    BY <1>1 DEF GuideInv, Nothing, Clean
<1>2. /\ overrides = Nothing
      /\ \A p \in Package : registry[p] # None => ~Floats(p) /\ ~Unpinned(p)
    <2>1. first'.overrides = Nothing /\ ~first'.moves
        BY DEF Guided, Nothing
    <2> QED BY <1>1, <2>1
<1>3. Done(Now) /\ Straight
    BY <1>1, <1>2, NowFields DEF TrailInv, Done, Straight
<1>4. PICK H : excluded = Clean /\ Trail(H)
    BY <1>1, <1>3 DEF TrailInv
<1>5. Rewritten
    BY <1>1, <1>4 DEF Rewritten, Clean
<1>6. Now' = Start
    <2>1. Direct(world') = Direct(world)
        <3>1. world'.direct = world.direct /\ world'.upgrade = {}
            BY <1>1 DEF World
        <3> QED BY <1>1, <3>1 DEF Direct
    <2> QED BY <1>1, <2>1 DEF FreshContext, Now, Start, Nothing, Unseen
<1>7. ASSUME NEW x \in H
      PROVE  (Done(x) /\ x.registry = first.registry)' \/ \E y \in H : Follows(x, y)'
    <2>1. CASE x = Now
        <3>1. Done(x) /\ x.registry = registry
            BY <1>3, <2>1, NowFields
        <3>2. Done(x)' /\ x.registry = first'.registry
            BY <1>1, <3>1 DEF Done, Inner
        <3> QED BY <3>2
    <2>2. CASE x # Now
        <3>1. PICK y \in H : Follows(x, y)
            BY <1>4, <2>2 DEF Trail
        <3>2. Before(x) /\ Before(y)
            BY <1>4 DEF Trail
        <3> QED BY <1>2, <1>5, <3>1, <3>2, FollowsReplayed
    <2> QED BY <2>1, <2>2
<1>8. Now' \in H
    BY <1>4, <1>6 DEF Trail
<1>9. Guide(H)'
    BY <1>7, <1>8 DEF Guide
<1> QED BY <1>9

(* A step that has a follower is the step to it.                           *)
LEMMA FollowsNow ==
    ASSUME IInv, Step, overrides = Nothing, NEW y, Follows(Now, y)
    PROVE  Goes /\ Now' = y /\ overrides' = Nothing
<1>1. Straight
    <2>1. trying # None => ~trying.rejected
        BY NowFields DEF Follows, Opens, Cuts, Keeps, Takes, Leaves, Meets
    <2> QED BY <2>1 DEF Straight
<1>2. Goes
    <2>1. CASE Opens(Now, y) \/ Cuts(Now, y)
        <3>1. /\ trying = None /\ Top.todo # << >> /\ ~Clashes(Pending)
              /\ states[Pending.name] \in {"unseen", "resolving"}
            BY <2>1, NowFields DEF Opens, Cuts
        <3> QED BY <3>1 DEF Step, Goes, RefuseIdentity, RevisitFails, Restart,
                   RefuseOscillation, Restarts, Revisits, NoCandidate,
                   RejectCandidate, RefuseEngine, Refused, Trying, Finish
    <2>2. CASE Keeps(Now, y)
        <3> PICK r : r = Pending
            OBVIOUS
        <3>1. /\ trying = None /\ Top.todo # << >> /\ ~Clashes(Pending)
              /\ \/ CannotChange(r)
                 \/ Again(r).error = None
                    /\ ~Changes(Again(r).ref, registry[r.name].ref)
            BY <2>2, NowFields DEF Keeps, Agrees, Again, CannotChange
        <3> QED BY <3>1 DEF Step, Goes, RefuseIdentity, RevisitFails, Restart,
                   RefuseOscillation, Restarts, NoCandidate, RejectCandidate,
                   RefuseEngine, Refused, Trying, Finish
    <2>3. CASE Takes(Now, y)
        <3> PICK r : r = trying.request
            OBVIOUS
        <3> PICK sel : sel = Select(r.name, r.source, asked[r.name])
            OBVIOUS
        <3>1. trying # None /\ trying.carried = None /\ sel.error = None
              /\ sel.ref.commit \notin world.refused
            BY <2>3, NowFields DEF Takes
        <3>2. Candidate = sel
            BY <3>1 DEF Candidate
        <3>3. ~Refused /\ Candidate.error = None
            BY <3>1, <3>2 DEF Refused
        <3> QED BY <3>1, <3>3 DEF Step, Goes, RefuseIdentity, RevisitFails,
                   Restart, RefuseOscillation, Restarts, Revisits, Requested,
                   Walking, NoCandidate, RejectCandidate, RefuseEngine, Finish
    <2>4. CASE Leaves(Now, y)
        <3>1. trying = None /\ Top.todo = << >> /\ Top.pkg # Root
            BY <2>4, NowFields DEF Leaves
        <3> QED BY <3>1 DEF Step, Goes, RefuseIdentity, RevisitFails, Restart,
                   RefuseOscillation, Restarts, Revisits, Requested, NoCandidate,
                   RejectCandidate, RefuseEngine, Refused, Trying, Finish
    <2> QED BY <2>1, <2>2, <2>3, <2>4 DEF Follows
<1>3. Now' = y
    <2>1. PICK z : z = Now'
        OBVIOUS
    <2>2. Follows(Now, z)
        BY <1>1, <1>2, <2>1, Advances
    <2>3. PICK x : x = Now
        OBVIOUS
    <2> QED BY <2>1, <2>2, <2>3, FollowsOnce
<1>4. overrides' = Nothing
    <2>1. trying # None => ~trying.rejected
        BY <1>1 DEF Straight
    <2> QED BY <1>2, <2>1 DEF Goes, VisitUnseen, VisitResolving, RevisitHolds,
               Register, Trying, Return, carried
<1> QED BY <1>2, <1>3, <1>4

LEMMA GuideSteps ==
    ASSUME IInv, GuideInv, Step
    PROVE  GuideInv'
<1>1. first' = first
    BY GoesOn, StepCases DEF Restart, RejectCandidate, Ends, Finish
<1> SUFFICES ASSUME Guided PROVE GuideInv'
    BY <1>1 DEF GuideInv, Guided, Nothing
<1>2. PICK H : /\ overrides = Nothing /\ excluded = Clean /\ Guide(H)
    BY DEF GuideInv
<1>3. CASE Done(Now) /\ registry = first.registry
    <2>1. trying = None /\ Top.todo = << >> /\ Top.pkg = Root
        BY <1>3, NowFields DEF Done
    <2>2. Finish
        BY <2>1 DEF Step, RefuseIdentity, VisitResolving, RevisitHolds,
           RevisitFails, Restart, RefuseOscillation, Restarts, Revisits,
           VisitUnseen, NoCandidate, RejectCandidate, RefuseEngine, Refused,
           Register, Return, Requested, Trying
    <2>3. world' = world /\ UNCHANGED context /\ overrides' = overrides
          /\ excluded' = excluded
          /\ outcome' = "ok" /\ registry' = registry
        BY <2>2 DEF Finish, Ends, carried, context
    <2>4. Guide(H)'
        BY <1>1, <1>2, <2>3, Resting, FollowsSame DEF Guide
    <2> QED BY <1>1, <1>2, <1>3, <2>3, <2>4 DEF GuideInv, Nothing, Clean
<1>4. CASE ~(Done(Now) /\ registry = first.registry)
    <2>1. PICK y \in H : Follows(Now, y)
        BY <1>2, <1>4, NowFields DEF Guide
    <2>2. Goes /\ Now' = y /\ overrides' = Nothing
        BY <1>2, <2>1, FollowsNow
    <2>3. world' = world /\ excluded' = excluded /\ outcome' = "running"
        BY <2>2, GoesOn, StepCases
    <2>4. ASSUME NEW x \in H
          PROVE  (Done(x) /\ x.registry = first.registry)'
          \/ \E z \in H : Follows(x, z)'
        <3>1. CASE Done(x) /\ x.registry = first.registry
            BY <1>1, <3>1 DEF Done, Inner
        <3>2. CASE ~(Done(x) /\ x.registry = first.registry)
            <4>1. PICK z \in H : Follows(x, z)
                BY <1>2, <3>2 DEF Guide
            <4> QED BY <2>3, <4>1, FollowsSame
        <3> QED BY <3>1, <3>2
    <2>5. Guide(H)'
        BY <2>2, <2>4 DEF Guide
    <2> QED BY <1>2, <2>2, <2>3, <2>5 DEF GuideInv, Nothing, Clean
<1> QED BY <1>3, <1>4

LEMMA GuideInvariant == IInv /\ TrailInv /\ GuideInv /\ [Next]_vars => GuideInv'
<1> SUFFICES ASSUME IInv, TrailInv, GuideInv, [Next]_vars PROVE GuideInv'
    OBVIOUS
<1>1. CASE UNCHANGED vars
    <2>1. world' = world /\ UNCHANGED context /\ overrides' = overrides
          /\ excluded' = excluded
          /\ registry' = registry /\ first' = first /\ outcome' = outcome
        BY <1>1 DEF vars, context
    <2> SUFFICES ASSUME Guided PROVE GuideInv'
        BY <2>1 DEF GuideInv, Guided, Nothing
    <2>2. PICK H : Guide(H)
        BY DEF GuideInv
    <2>3. Guide(H)'
        BY <2>1, <2>2, Resting, FollowsSame DEF Guide
    <2> QED BY <2>1, <2>3 DEF GuideInv, Nothing, Clean
<1> QED BY <1>1, GuideSteps, GuideReplays DEF Next

LEMMA ReplayInitially == Init => TrailInv /\ GuideInv
<1> SUFFICES ASSUME Init PROVE TrailInv /\ GuideInv
    OBVIOUS
<1>1. Now = Start /\ outcome = "running" /\ excluded = Clean /\ first = None
      /\ registry = Nothing /\ asked = [p \in Package |-> << >>]
    BY DEF Init, Now, Start, Clean
<1> QED BY <1>1, TrailBegins DEF GuideInv, Guided

-----------------------------------------------------------------------------
(* The theorems                                                            *)

LEMMA Initially == Init => IInv
<1> SUFFICES ASSUME Init PROVE IInv
    OBVIOUS
<1>1. world \in World
    BY WorldAssumption DEF Init
<1>2. WalkInv
    <2>1. Begun
        BY <1>1 DEF Init, Begun
    <2> QED BY <2>1, Fresh
<1>3. CarriedType
    BY DEF Init, CarriedType, Nothing
<1>4. outcome \in Outcome /\ first = None
    BY DEF Init, Outcome
<1> QED BY <1>1, <1>2, <1>3, <1>4 DEF IInv, TypeOK, WalkInv

LEMMA Inductive == IInv /\ [Next]_vars => IInv'
<1> SUFFICES ASSUME IInv, [Next]_vars PROVE IInv'
    OBVIOUS
<1>1. CASE UNCHANGED vars
    <2>1. UNCHANGED <<world, carried, context, first>> /\ outcome' = outcome
        BY <1>1 DEF vars, carried, context
    <2> QED BY <2>1, Unmoved DEF IInv, TypeOK
<1>2. CASE Step
    BY <1>2, Ending, VisitsResolving, RevisitsHold, RestartsOver, VisitsUnseen,
       Rejects, Registers, Returns DEF Step
<1>3. CASE Replay
    BY <1>3, ReplaysWritten
<1> QED BY <1>1, <1>2, <1>3 DEF Next

LEMMA Invariant == Spec => []IInv
BY Initially, Inductive, PTL DEF Spec

(* Every variable keeps its type: the walk of resolve/mod.rs only ever     *)
(* registers refs that its repositories have or its lock records, and a    *)
(* trial, a stack of manifests and the lists of requests hold packages and *)
(* requests of the world that is being resolved.                           *)
THEOREM TypeCorrect == Spec => []TypeOK
<1>1. IInv => TypeOK
    BY DEF IInv
<1> QED BY <1>1, Invariant, PTL

(* The graph that resolve/mod.rs settles on is the one that its selection  *)
(* rule picks: of a package that no restart carried over, the ref that all *)
(* requests for it together select, though each request was looked at when *)
(* it came; of one that was carried over, a ref that every request but the *)
(* first allows. This is what lets CannotChange skip a selection, and what *)
(* makes the order of the requests immaterial.                             *)
THEOREM GraphSettled == Spec => []SettledGraph
<1>1. IInv => SettledGraph
    BY DEF IInv, SettledInv, Settled, SettledGraph
<1> QED BY <1>1, Invariant, PTL

(* `mars sync` after `mars sync`: the resolver of resolve/mod.rs, given    *)
(* the lock that lock/mod.rs wrote, ends where it ended before, with the   *)
(* same packages at the same refs, whatever versions were published and    *)
(* wherever branches have moved since, unless the first sync was started   *)
(* over, a package follows the tags, or the lock has lost a pin.           *)
THEOREM SyncReplays == Spec => []Replays
<1>1. Init => IInv /\ TrailInv /\ GuideInv
    BY Initially, ReplayInitially
<1>2. IInv /\ TrailInv /\ GuideInv /\ [Next]_vars => (IInv /\ TrailInv /\ GuideInv)'
    BY Inductive, TrailInvariant, GuideInvariant
<1>3. GuideInv => Replays
    BY DEF GuideInv, Guided, Replays
<1> QED BY <1>1, <1>2, <1>3, PTL DEF Spec
==============================================================================
