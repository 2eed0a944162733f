------------------------- MODULE ConfigEntries_proofs -------------------------
(***************************************************************************)
(* Theorems about ConfigEntries, for any number of hooks and servers, any  *)
(* sources, and any edits, failures and killed sessions. The sequences are *)
(* of any length: a fold goes through as many steps as its sequence has    *)
(* members (FoldSteps), and what holds of every step is proved by          *)
(* induction on sets of numbers (Inductive).                               *)
(***************************************************************************)
EXTENDS ConfigEntries, FiniteSetTheorems, FunctionTheorems, SequenceTheorems,
        WellFoundedInduction, TLAPS

-----------------------------------------------------------------------------
(* Numbers                                                                 *)

(* A set of numbers has a least member.                                    *)
LEMMA LeastOf ==
    ASSUME NEW S, S \subseteq Nat, S # {}
    PROVE  \E x \in S : \A y \in S : x <= y
<1> DEFINE R == {xy \in Nat \X Nat : xy[1] < xy[2]}
<1>1. IsWellFoundedOn(R, Nat)
    BY NatLessThanWellFounded DEF OpToRel
<1>2. PICK x \in S : \A y \in S : ~(<<y, x>> \in R)
    BY <1>1, WFMin
<1>3. \A y \in S : x \in Nat /\ y \in Nat /\ ~(y < x)
    BY <1>2
<1> QED BY <1>3

(* Induction over the numbers, for a property given as a set.              *)
LEMMA Inductive ==
    ASSUME NEW S, 0 \in S, \A n \in Nat : n \in S => n + 1 \in S
    PROVE  Nat \subseteq S
<1> SUFFICES ASSUME Nat \ S # {} PROVE FALSE
    OBVIOUS
<1>1. PICK x \in Nat \ S : \A y \in Nat \ S : x <= y
    BY LeastOf
<1>2. x # 0 /\ x - 1 \in Nat
    BY <1>1
<1>3. x - 1 \in S
    BY <1>1, <1>2
<1>4. (x - 1) + 1 \in S
    BY <1>2, <1>3
<1> QED BY <1>1, <1>4

LEMMA Antisymmetry ==
    ASSUME NEW a \in Nat, NEW b \in Nat, a >= b, b >= a
    PROVE  a = b
OBVIOUS

(* The largest position of a prefix, as the folds take it.                 *)
LEMMA MaxIs ==
    ASSUME NEW k \in Nat, NEW s \in SUBSET (1..(k + 1)), k + 1 \in s
    PROVE  Max(s) = k + 1
<1>1. \A y \in s : y \in Int /\ k + 1 >= y
    OBVIOUS
<1>2. \E x \in s : \A y \in s : x >= y
    BY <1>1
<1>3. Max(s) \in s /\ \A y \in s : Max(s) >= y
    BY <1>2 DEF Max
<1>4. PICK m : m = Max(s)
    OBVIOUS
<1>5. m \in s /\ m >= k + 1
    BY <1>3, <1>4
<1>6. m \in Nat /\ k + 1 \in Nat /\ k + 1 >= m
    BY <1>1, <1>5
<1> QED BY <1>4, <1>5, <1>6, Antisymmetry

LEMMA UpTo ==
    ASSUME NEW k \in Nat
    PROVE  /\ 1..(k + 1) # {} /\ Max(1..(k + 1)) = k + 1
           /\ (1..(k + 1)) \ {k + 1} = 1..k
<1>1. k + 1 \in 1..(k + 1)
    OBVIOUS
<1>2. \A x : (x \in 1..(k + 1) /\ x # k + 1) <=> (x \in 1..k)
    OBVIOUS
<1>3. (1..(k + 1)) \ {k + 1} = 1..k
    BY <1>2
<1> QED BY <1>1, <1>3, MaxIs

LEMMA MaxType ==
    ASSUME NEW n \in Nat, NEW s \in SUBSET (1..n), s # {}
    PROVE  Max(s) \in s
<1> DEFINE S == {n - x : x \in s}
<1>0. \A x \in s : x \in Nat /\ x <= n /\ n - x \in Nat
    OBVIOUS
<1>1. S \subseteq Nat /\ S # {}
    BY <1>0
<1>2. PICK z \in S : \A y \in S : z <= y
    BY <1>1, LeastOf
<1>3. PICK x \in s : z = n - x
    BY <1>2
<1>4. ASSUME NEW y \in s PROVE x >= y
    <2>1. z <= n - y
        BY <1>2
    <2> QED BY <1>0, <1>3, <2>1
<1> QED BY <1>3, <1>4 DEF Max

(* The function of a fold from the left, on the sets of positions, and the *)
(* values the fold goes through.                                           *)
HasFold(V, T, F, base, seq) ==
    \E g \in [SUBSET DOMAIN seq -> V] : \A s \in SUBSET DOMAIN seq :
        IF s = {} THEN g[s] = base
        ELSE /\ g[s \ {Max(s)}] \in V /\ seq[Max(s)] \in T
             /\ g[s] = F[<<g[s \ {Max(s)}], seq[Max(s)]>>]
HasSteps(V, T, F, base, seq, result) ==
    \E h \in [0..Len(seq) -> V] :
        /\ h[0] = base /\ h[Len(seq)] = result
        /\ \A k \in 0..(Len(seq) - 1) : /\ h[k] \in V /\ seq[k + 1] \in T
                                       /\ h[k + 1] = F[<<h[k], seq[k + 1]>>]

(* A function that takes the sets of positions one by one from the largest *)
(* exists: what FoldLeft chooses is not arbitrary.                         *)
LEMMA FoldExists ==
    ASSUME NEW V, NEW T, NEW F \in [V \X T -> V], NEW base \in V, NEW seq \in Seq(T)
    PROVE  HasFold(V, T, F, base, seq)
<1> DEFINE Folds(g, k) ==
        /\ g \in [SUBSET (1..k) -> V]
        /\ \A s \in SUBSET (1..k) :
               g[s] = IF s = {} THEN base ELSE F[<<g[s \ {Max(s)}], seq[Max(s)]>>]
           Folded(k) == \E g : Folds(g, k)
           S == {k \in Nat : k <= Len(seq) => Folded(k)}
<1>0. Len(seq) \in Nat /\ DOMAIN seq = 1..Len(seq)
    BY LenProperties
<1>1. 0 \in S
    <2>1. Folds([s \in SUBSET (1..0) |-> base], 0)
        OBVIOUS
    <2> QED BY <2>1
<1>2. ASSUME NEW k \in Nat, k \in S PROVE k + 1 \in S
    <2> HIDE DEF Folded
    <2> SUFFICES ASSUME k + 1 <= Len(seq) PROVE Folded(k + 1)
        OBVIOUS
    <2>0. Folded(k)
        BY <1>0, <1>2
    <2>1. PICK g : Folds(g, k)
        BY <2>0 DEF Folded
    <2>2. seq[k + 1] \in T
        BY LenProperties, ElementOfSeq
    <2> DEFINE h == [s \in SUBSET (1..(k + 1)) |->
                        IF k + 1 \in s THEN F[<<g[s \ {k + 1}], seq[k + 1]>>] ELSE g[s]]
    <2>3. ASSUME NEW s \in SUBSET (1..(k + 1)), k + 1 \in s
          PROVE  /\ s \ {k + 1} \in SUBSET (1..k) /\ h[s] \in V /\ s # {}
                 /\ h[s] = F[<<h[s \ {Max(s)}], seq[Max(s)]>>]
        <3>1. s \ {k + 1} \in SUBSET (1..k)
            OBVIOUS
        <3>2. h[s \ {k + 1}] = g[s \ {k + 1}] /\ g[s \ {k + 1}] \in V
            BY <2>1, <3>1
        <3>3. h[s] = F[<<g[s \ {k + 1}], seq[k + 1]>>]
            BY <2>3
        <3> QED BY <2>2, <2>3, <3>1, <3>2, <3>3, MaxIs
    <2>4. ASSUME NEW s \in SUBSET (1..(k + 1)), k + 1 \notin s
          PROVE  /\ h[s] \in V
                 /\ h[s] = IF s = {} THEN base ELSE F[<<h[s \ {Max(s)}], seq[Max(s)]>>]
        <3>0. \A x : x \in 1..(k + 1) /\ x # k + 1 => x \in 1..k
            OBVIOUS
        <3>1. s \in SUBSET (1..k) /\ s \ {Max(s)} \in SUBSET (1..k) /\ k + 1 \notin s \ {Max(s)}
            BY <2>4, <3>0
        <3>2. h[s] = g[s] /\ h[s \ {Max(s)}] = g[s \ {Max(s)}]
            BY <2>4, <3>1
        <3>3. /\ g[s] \in V
              /\ g[s] = IF s = {} THEN base ELSE F[<<g[s \ {Max(s)}], seq[Max(s)]>>]
            BY <2>1, <3>1
        <3> QED BY <3>2, <3>3
    <2>5. h \in [SUBSET (1..(k + 1)) -> V]
        BY <2>3, <2>4
    <2> HIDE DEF h
    <2>6. Folds(h, k + 1)
        BY <2>3, <2>4, <2>5
    <2> QED BY <2>6 DEF Folded
<1> HIDE DEF S
<1>3. Len(seq) \in S
    BY <1>0, <1>1, <1>2, Inductive
<1> HIDE DEF Folded
<1>4. Folded(Len(seq))
    BY <1>0, <1>3 DEF S
<1>5. PICK g : Folds(g, Len(seq))
    BY <1>4 DEF Folded
<1>6. ASSUME NEW s \in SUBSET (1..Len(seq)), s # {}
      PROVE  g[s \ {Max(s)}] \in V /\ seq[Max(s)] \in T
    <2>1. Max(s) \in 1..Len(seq)
        BY <1>0, <1>6, MaxType
    <2>2. seq[Max(s)] \in T
        BY <2>1, ElementOfSeq
    <2> QED BY <1>5, <2>2
<1> QED BY <1>0, <1>5, <1>6 DEF HasFold

(* So what FoldLeft returns is reached from the base in one step for each  *)
(* member of the sequence.                                                 *)
LEMMA FoldSteps ==
    ASSUME NEW V, NEW T, NEW F \in [V \X T -> V], NEW base \in V, NEW seq \in Seq(T),
           NEW c, c[{}] = base,
           \A s \in SUBSET DOMAIN seq : s # {} /\ c[s \ {Max(s)}] \in V /\ seq[Max(s)] \in T
               => c[s] = F[<<c[s \ {Max(s)}], seq[Max(s)]>>]
    PROVE  HasSteps(V, T, F, base, seq, c[DOMAIN seq])
<1> DEFINE S == {k \in Nat : k <= Len(seq) => c[1..k] \in V}
<1>0. Len(seq) \in Nat /\ DOMAIN seq = 1..Len(seq) /\ 1..0 = {}
    BY LenProperties
<1>a. ASSUME NEW k \in Nat, k + 1 <= Len(seq), c[1..k] \in V
      PROVE  seq[k + 1] \in T /\ c[1..(k + 1)] = F[<<c[1..k], seq[k + 1]>>]
    <2>1. 1..(k + 1) \in SUBSET DOMAIN seq
        BY <1>0, <1>a
    <2>2. seq[k + 1] \in T
        BY <1>0, <1>a, ElementOfSeq
    <2> QED BY <1>a, <2>1, <2>2, UpTo
<1>1. 0 \in S
    BY <1>0
<1>2. ASSUME NEW k \in Nat, k \in S PROVE k + 1 \in S
    <2> SUFFICES ASSUME k + 1 <= Len(seq) PROVE c[1..(k + 1)] \in V
        OBVIOUS
    <2>1. c[1..k] \in V
        BY <1>0, <1>2
    <2> QED BY <1>a, <2>1
<1> HIDE DEF S
<1>3. Nat \subseteq S
    BY <1>1, <1>2, Inductive
<1>4. \A k \in 0..Len(seq) : c[1..k] \in V
    BY <1>0, <1>3 DEF S
<1> DEFINE h == [k \in 0..Len(seq) |-> c[1..k]]
<1>5. h \in [0..Len(seq) -> V]
    BY <1>4
<1>6. h[0] = base /\ h[Len(seq)] = c[DOMAIN seq]
    BY <1>0
<1>7. ASSUME NEW k \in 0..(Len(seq) - 1)
      PROVE  h[k] \in V /\ seq[k + 1] \in T /\ h[k + 1] = F[<<h[k], seq[k + 1]>>]
    BY <1>0, <1>4, <1>a
<1> HIDE DEF h
<1> QED BY <1>5, <1>6, <1>7 DEF HasSteps

(* The steps of each fold and each concatenation that the model makes.     *)
LEMMA RemoveAtIs ==
    ASSUME NEW T, NEW s \in Seq(T), NEW i \in 1..Len(s)
    PROVE  /\ SubSeq(s, 1, i - 1) \in Seq(T) /\ SubSeq(s, i + 1, Len(s)) \in Seq(T)
           /\ <<s[i]>> \in Seq(T) /\ s[i] \in T
           /\ s = (SubSeq(s, 1, i - 1) \o <<s[i]>>) \o SubSeq(s, i + 1, Len(s))
           /\ RemoveAt(s, i) = SubSeq(s, 1, i - 1) \o SubSeq(s, i + 1, Len(s))
           /\ RemoveAt(s, i) \in Seq(T)
<1>0. Len(s) \in Nat /\ \A j \in 1..Len(s) : s[j] \in T
    BY LenProperties, ElementOfSeq
<1>1. SubSeq(s, 1, i - 1) \in Seq(T)
    <2>1. \A j \in 1..(i - 1) : s[j] \in T
        BY <1>0
    <2> QED BY <1>0, <2>1, SubSeqProperties
<1>2. SubSeq(s, i + 1, Len(s)) \in Seq(T)
    <2>1. \A j \in (i + 1)..Len(s) : s[j] \in T
        BY <1>0
    <2> QED BY <1>0, <2>1, SubSeqProperties
<1>3. SubSeq(s, 1, i) = SubSeq(s, 1, i - 1) \o <<s[i]>>
    BY <1>0, SubSeqRecursiveSecond
<1>4. SubSeq(s, 1, i) \o SubSeq(s, i + 1, Len(s)) = SubSeq(s, 1, Len(s))
    BY <1>0, ConcatAdjacentSubSeq
<1>5. SubSeq(s, 1, Len(s)) = s
    BY SubSeqFull
<1>6. RemoveAt(s, i) = SubSeq(s, 1, i - 1) \o SubSeq(s, i + 1, Len(s))
    BY DEF RemoveAt
<1>7. RemoveAt(s, i) \in Seq(T)
    BY <1>1, <1>2, <1>6, ConcatProperties
<1>8. <<s[i]>> \in Seq(T) /\ s[i] \in T
    BY <1>0
<1> QED BY <1>1, <1>2, <1>3, <1>4, <1>5, <1>6, <1>7, <1>8

(* The first member that equals e goes, if there is one.                   *)
LEMMA RemoveFirstIs ==
    ASSUME NEW T, NEW s \in Seq(T), NEW e
    PROVE  /\ RemoveFirst(s, e) \in Seq(T)
           /\ \/ RemoveFirst(s, e) = s /\ \A i \in 1..Len(s) : s[i] # e
              \/ \E i \in 1..Len(s) : s[i] = e /\ RemoveFirst(s, e) = RemoveAt(s, i)
<1>1. CASE \E i \in 1..Len(s) : s[i] = e
    <2> DEFINE I == {i \in 1..Len(s) : s[i] = e}
    <2>1. I # {} /\ I \subseteq Nat
        BY <1>1
    <2>2. PICK m \in I : \A y \in I : m <= y
        BY <2>1, LeastOf
    <2>3. Min(I) \in I
        BY <2>2 DEF Min
    <2>4. SelectInSeq(s, LAMBDA v : v = e) = Min(I)
        BY <2>1 DEF SelectInSeq
    <2>5. RemoveFirst(s, e) = RemoveAt(s, Min(I))
        BY <1>1, <2>4 DEF RemoveFirst
    <2>6. PICK i \in 1..Len(s) : s[i] = e /\ RemoveFirst(s, e) = RemoveAt(s, i)
        BY <2>3, <2>5
    <2>7. RemoveAt(s, i) \in Seq(T)
        BY RemoveAtIs
    <2> QED BY <2>6, <2>7
<1>2. CASE ~\E i \in 1..Len(s) : s[i] = e
    BY <1>2 DEF RemoveFirst
<1> QED BY <1>1, <1>2

LEMMA RemoveSteps ==
    ASSUME NEW T, NEW file \in Seq(T), NEW es \in Seq(T)
    PROVE  \E h \in [0..Len(es) -> Seq(T)] :
               /\ h[0] = file /\ h[Len(es)] = RemoveEntries(file, es)
               /\ \A k \in 0..(Len(es) - 1) : h[k + 1] = RemoveFirst(h[k], es[k + 1])
<1> DEFINE V == Seq(T)
           F == [x \in V \X T |-> RemoveFirst(x[1], x[2])]
           Step(c, s) == IF s = {} THEN file ELSE RemoveFirst(c[s \ {Max(s)}], es[Max(s)])
           Eq(c) == c = [s \in SUBSET DOMAIN es |-> Step(c, s)]
           iter == CHOOSE c : Eq(c)
<1>1. F \in [V \X T -> V] /\ file \in V
    BY RemoveFirstIs
<1>2. HasFold(V, T, F, file, es)
    <2> HIDE DEF F, V
    <2> QED BY <1>1, FoldExists
<1>3. \E c : Eq(c)
    BY <1>2 DEF HasFold
<1>4. Eq(iter)
    BY <1>3
<1>5. RemoveEntries(file, es) = iter[DOMAIN es]
    BY DEF RemoveEntries, FoldLeft, MapThenFoldSet
<1> HIDE DEF iter
<1>6. /\ iter[{}] = file
      /\ \A s \in SUBSET DOMAIN es : s # {} /\ iter[s \ {Max(s)}] \in V /\ es[Max(s)] \in T
             => iter[s] = F[<<iter[s \ {Max(s)}], es[Max(s)]>>]
    BY <1>4
<1>7. HasSteps(V, T, F, file, es, iter[DOMAIN es])
    <2> HIDE DEF F, V
    <2> QED BY <1>1, <1>6, FoldSteps
<1> QED BY <1>5, <1>7 DEF HasSteps

LEMMA UserSteps ==
    ASSUME NEW T, NEW file \in Seq(T)
    PROVE  \E h \in [0..Len(file) -> Seq(UserEntry)] :
               /\ h[0] = << >> /\ h[Len(file)] = UserHooks(file)
               /\ \A k \in 0..(Len(file) - 1) :
                      h[k + 1] = IF file[k + 1] \in UserEntry THEN Append(h[k], file[k + 1])
                                 ELSE h[k]
<1> DEFINE V == Seq(UserEntry)
           Keep(us, e) == IF e \in UserEntry THEN Append(us, e) ELSE us
           F == [x \in V \X T |-> Keep(x[1], x[2])]
           Step(c, s) == IF s = {} THEN << >> ELSE Keep(c[s \ {Max(s)}], file[Max(s)])
           Eq(c) == c = [s \in SUBSET DOMAIN file |-> Step(c, s)]
           iter == CHOOSE c : Eq(c)
<1>1. F \in [V \X T -> V] /\ << >> \in V
    OBVIOUS
<1>2. HasFold(V, T, F, << >>, file)
    <2> HIDE DEF F, V
    <2> QED BY <1>1, FoldExists
<1>3. \E c : Eq(c)
    <2>1. \A us \in V, e \in T : F[<<us, e>>] = Keep(us, e)
        OBVIOUS
    <2> HIDE DEF F, V, Keep
    <2>2. PICK g \in [SUBSET DOMAIN file -> V] : \A s \in SUBSET DOMAIN file :
              IF s = {} THEN g[s] = << >>
              ELSE /\ g[s \ {Max(s)}] \in V /\ file[Max(s)] \in T
                   /\ g[s] = F[<<g[s \ {Max(s)}], file[Max(s)]>>]
        BY <1>2 DEF HasFold
    <2>3. ASSUME NEW s \in SUBSET DOMAIN file PROVE g[s] = Step(g, s)
        <3>1. CASE s = {}
            BY <2>2, <3>1
        <3>2. CASE s # {}
            <4>1. /\ g[s \ {Max(s)}] \in V /\ file[Max(s)] \in T
                  /\ g[s] = F[<<g[s \ {Max(s)}], file[Max(s)]>>]
                BY <2>2, <3>2
            <4> QED BY <2>1, <3>2, <4>1
        <3> QED BY <3>1, <3>2
    <2>4. g = [s \in SUBSET DOMAIN file |-> Step(g, s)]
        <3> HIDE DEF Step
        <3> QED BY <2>3
    <2> QED BY <2>4
<1>4. Eq(iter)
    BY <1>3
<1>5. UserHooks(file) = iter[DOMAIN file]
    BY DEF UserHooks, FoldLeft, MapThenFoldSet
<1> HIDE DEF iter
<1>6. /\ iter[{}] = << >>
      /\ \A s \in SUBSET DOMAIN file :
             s # {} /\ iter[s \ {Max(s)}] \in V /\ file[Max(s)] \in T
                 => iter[s] = F[<<iter[s \ {Max(s)}], file[Max(s)]>>]
    BY <1>4
<1>7. HasSteps(V, T, F, << >>, file, iter[DOMAIN file])
    <2> HIDE DEF F, V
    <2> QED BY <1>1, <1>6, FoldSteps
<1> QED BY <1>5, <1>7 DEF HasSteps

(* The hooks a sync wants are emitted one by one.                          *)
Emission == [name : Hook, entries : Seq(Entry)]
Content(k) == IF k.entries # None THEN k.entries ELSE lockFile.hooks[k.name]
HasEmissions(hooks, withheld, result) ==
    \E h \in [0..Len(hooks) -> Seq(Emission)] :
        /\ h[0] = << >> /\ h[Len(hooks)] = result
        /\ \A k \in 0..(Len(hooks) - 1) : LET r == hooks[k + 1] IN
               h[k + 1] = IF r.name \in withheld \/ Content(r) = None THEN h[k]
                          ELSE Append(h[k], [name |-> r.name, entries |-> Content(r)])
LEMMA WantSteps ==
    ASSUME NEW c, c.hooks \in Seq(Ranked), NEW withheld,
           lockFile.hooks \in [Hook -> Seq(Entry) \cup {None}]
    PROVE  IF ~c.managed THEN Wants(c, withheld) = << >>
           ELSE HasEmissions(c.hooks, withheld, Wants(c, withheld))
<1>a. CASE ~c.managed
    BY <1>a DEF Wants
<1>b. CASE c.managed
    <2> DEFINE V == Seq(Emission)
               Emit(hooks, k) ==
                   IF k.name \in withheld \/ Content(k) = None THEN hooks
                   ELSE Append(hooks, [name |-> k.name, entries |-> Content(k)])
               F == [x \in V \X Ranked |-> Emit(x[1], x[2])]
               hs == c.hooks
               Step(d, s) == IF s = {} THEN << >> ELSE Emit(d[s \ {Max(s)}], hs[Max(s)])
               Eq(d) == d = [s \in SUBSET DOMAIN hs |-> Step(d, s)]
               iter == CHOOSE d : Eq(d)
    <2>0. hs \in Seq(Ranked)
        OBVIOUS
    <2>1. F \in [V \X Ranked -> V] /\ << >> \in V
        <3>1. \A k \in Ranked : Content(k) \in Seq(Entry) \cup {None}
            BY DEF Ranked, Content
        <3>2. ASSUME NEW x \in V, NEW k \in Ranked PROVE Emit(x, k) \in V
            <4>1. Content(k) # None =>
                      [name |-> k.name, entries |-> Content(k)] \in Emission
                BY <3>1 DEF Ranked, Emission
            <4> HIDE DEF Emission
            <4> QED BY <4>1
        <3> QED BY <3>2
    <2>2. HasFold(V, Ranked, F, << >>, hs)
        <3> HIDE DEF F, V, hs
        <3> QED BY <2>0, <2>1, FoldExists
    <2>3. \E d : Eq(d)
        <3>1. \A x \in V, k \in Ranked : F[<<x, k>>] = Emit(x, k)
            OBVIOUS
        <3> HIDE DEF F, V, Emit, hs
        <3>2. PICK g \in [SUBSET DOMAIN hs -> V] : \A s \in SUBSET DOMAIN hs :
                  IF s = {} THEN g[s] = << >>
                  ELSE /\ g[s \ {Max(s)}] \in V /\ hs[Max(s)] \in Ranked
                       /\ g[s] = F[<<g[s \ {Max(s)}], hs[Max(s)]>>]
            BY <2>2 DEF HasFold
        <3>3. ASSUME NEW s \in SUBSET DOMAIN hs PROVE g[s] = Step(g, s)
            <4>1. CASE s = {}
                BY <3>2, <4>1
            <4>2. CASE s # {}
                <5>1. /\ g[s \ {Max(s)}] \in V /\ hs[Max(s)] \in Ranked
                      /\ g[s] = F[<<g[s \ {Max(s)}], hs[Max(s)]>>]
                    BY <3>2, <4>2
                <5> QED BY <3>1, <4>2, <5>1
            <4> QED BY <4>1, <4>2
        <3>4. g = [s \in SUBSET DOMAIN hs |-> Step(g, s)]
            <4> HIDE DEF Step
            <4> QED BY <3>3
        <3> QED BY <3>4
    <2>4. Eq(iter)
        BY <2>3
    <2>5. Wants(c, withheld) = iter[DOMAIN hs]
        BY <1>b DEF Wants, FoldLeft, MapThenFoldSet, Content
    <2> HIDE DEF iter
    <2>6. /\ iter[{}] = << >>
          /\ \A s \in SUBSET DOMAIN hs :
                 s # {} /\ iter[s \ {Max(s)}] \in V /\ hs[Max(s)] \in Ranked
                     => iter[s] = F[<<iter[s \ {Max(s)}], hs[Max(s)]>>]
        BY <2>4
    <2>7. HasSteps(V, Ranked, F, << >>, hs, iter[DOMAIN hs])
        <3> HIDE DEF F, V, hs
        <3> QED BY <2>0, <2>1, <2>6, FoldSteps
    <2> QED BY <1>b, <2>5, <2>7 DEF HasSteps, HasEmissions
<1> QED BY <1>a, <1>b

(* FlattenSeq concatenates the members one by one.                         *)
LEMMA FlattenSteps ==
    ASSUME NEW T, NEW seqs \in Seq(Seq(T))
    PROVE  \E h \in [0..Len(seqs) -> Seq(T)] :
               /\ h[0] = << >> /\ h[Len(seqs)] = FlattenSeq(seqs)
               /\ \A k \in 0..(Len(seqs) - 1) : h[k + 1] = h[k] \o seqs[k + 1]
<1> DEFINE n == Len(seqs)
           V == Seq(T)
           F == [x \in V \X V |-> x[1] \o x[2]]
           Eq(f) == f = [i \in 1..n |-> IF i = 1 THEN seqs[i] ELSE f[i - 1] \o seqs[i]]
           flatten == CHOOSE f : Eq(f)
<1>0. n \in Nat /\ DOMAIN seqs = 1..n /\ \A i \in 1..n : seqs[i] \in Seq(T)
    BY LenProperties, ElementOfSeq
<1>1. F \in [V \X V -> V] /\ << >> \in V
    OBVIOUS
<1>3. CASE n = 0
    <2>1. seqs = << >>
        BY <1>3
    <2>2. FlattenSeq(seqs) = << >>
        BY <1>3, <2>1 DEF FlattenSeq
    <2> DEFINE h == [k \in 0..0 |-> << >>]
    <2>3. h \in [0..n -> Seq(T)] /\ h[0] = << >> /\ h[n] = FlattenSeq(seqs)
        BY <1>3, <2>2
    <2>4. \A k \in 0..(n - 1) : h[k + 1] = h[k] \o seqs[k + 1]
        BY <1>3
    <2> QED BY <2>3, <2>4
<1>4. CASE n # 0
    <2>1. \E c : /\ c[{}] = << >>
                /\ \A s \in SUBSET DOMAIN seqs :
                       s # {} /\ c[s \ {Max(s)}] \in V /\ seqs[Max(s)] \in V
                           => c[s] = F[<<c[s \ {Max(s)}], seqs[Max(s)]>>]
        <3>1. HasFold(V, V, F, << >>, seqs)
            <4>1. seqs \in Seq(V)
                OBVIOUS
            <4> HIDE DEF F, V
            <4> QED BY <1>1, <4>1, FoldExists
        <3> HIDE DEF F
        <3> QED BY <3>1 DEF HasFold
    <2>2. PICK c : /\ c[{}] = << >>
                  /\ \A s \in SUBSET DOMAIN seqs :
                         s # {} /\ c[s \ {Max(s)}] \in V /\ seqs[Max(s)] \in V
                             => c[s] = F[<<c[s \ {Max(s)}], seqs[Max(s)]>>]
        BY <2>1
    <2>3. HasSteps(V, V, F, << >>, seqs, c[DOMAIN seqs])
        <3>1. seqs \in Seq(V)
            OBVIOUS
        <3> HIDE DEF F, V
        <3> QED BY <1>1, <2>2, <3>1, FoldSteps
    <2>4. PICK h \in [0..n -> V] :
              /\ h[0] = << >>
              /\ \A k \in 0..(n - 1) : h[k + 1] = h[k] \o seqs[k + 1]
        BY <2>3 DEF HasSteps
    <2>5. \E f : Eq(f)
        <3> DEFINE f == [i \in 1..n |-> h[i]]
        <3>1. ASSUME NEW i \in 1..n
              PROVE  f[i] = IF i = 1 THEN seqs[i] ELSE f[i - 1] \o seqs[i]
            <4>1. i - 1 \in 0..(n - 1) /\ (i - 1) + 1 = i
                BY <1>0
            <4>2. h[i] = h[i - 1] \o seqs[i]
                BY <2>4, <4>1
            <4>3. CASE i = 1
                <5>1. h[i] = << >> \o seqs[i] /\ seqs[i] \in Seq(T)
                    BY <1>0, <2>4, <4>2, <4>3
                <5>2. h[i] = seqs[i]
                    BY <5>1, ConcatEmptySeq
                <5> QED BY <4>3, <5>2
            <4>4. CASE i # 1
                <5>1. i - 1 \in 1..n
                    BY <4>1, <4>4
                <5> QED BY <4>2, <4>4, <5>1
            <4> QED BY <4>3, <4>4
        <3>2. Eq(f)
            BY <3>1
        <3> QED BY <3>2
    <2>6. Eq(flatten)
        BY <2>5
    <2>7. FlattenSeq(seqs) = flatten[n]
        BY <1>4 DEF FlattenSeq
    <2> HIDE DEF flatten
    <2> DEFINE S == {k \in Nat : k + 1 <= n => flatten[k + 1] = h[k + 1]}
    <2>8. 0 \in S
        <3>1. flatten[1] = seqs[1]
            BY <1>0, <1>4, <2>6
        <3>2. h[1] = << >> \o seqs[1] /\ seqs[1] \in Seq(T)
            <4>1. 0 \in 0..(n - 1) /\ 0 + 1 = 1 /\ 1 \in 1..n
                BY <1>0, <1>4
            <4> QED BY <1>0, <2>4, <4>1
        <3> QED BY <3>1, <3>2
    <2>9. ASSUME NEW k \in Nat, k \in S PROVE k + 1 \in S
        <3> SUFFICES ASSUME (k + 1) + 1 <= n PROVE flatten[(k + 1) + 1] = h[(k + 1) + 1]
            OBVIOUS
        <3>1. k + 1 \in 0..(n - 1) /\ (k + 1) + 1 \in 1..n /\ (k + 1) + 1 # 1
            BY <1>0
        <3>2. flatten[(k + 1) + 1] = flatten[k + 1] \o seqs[(k + 1) + 1]
            <4>1. PICK i \in 1..n : i = (k + 1) + 1
                BY <3>1
            <4>2. i # 1 /\ i - 1 = k + 1
                BY <4>1
            <4>3. flatten[i] = flatten[i - 1] \o seqs[i]
                BY <2>6, <4>2
            <4> QED BY <4>1, <4>2, <4>3
        <3>3. flatten[k + 1] = h[k + 1]
            BY <1>0, <2>9
        <3> QED BY <2>4, <3>1, <3>2, <3>3
    <2> HIDE DEF S
    <2>10. n - 1 \in Nat /\ Nat \subseteq S
        <3>1. Nat \subseteq S
            BY <2>8, <2>9, Inductive
        <3> QED BY <1>0, <1>4, <3>1
    <2>11. flatten[n] = h[n]
        <3>1. PICK m \in Nat : m + 1 = n /\ m \in S
            <4>1. (n - 1) + 1 = n /\ n - 1 \in Nat /\ n - 1 \in S
                BY <1>0, <1>4, <2>10
            <4> QED BY <4>1
        <3>2. m + 1 <= n => flatten[m + 1] = h[m + 1]
            BY <3>1 DEF S
        <3>3. m + 1 <= n
            BY <1>0, <3>1
        <3> QED BY <3>1, <3>2, <3>3
    <2> QED BY <2>4, <2>7, <2>11
<1> QED BY <1>3, <1>4

(* The search of HoldsRecorded goes from hit to hit.                       *)
AfterHit(file, at, e) ==
    LET hits == {i \in (at + 1)..Len(file) : file[i] = e}
    IN  IF hits = {} THEN Len(file) + 1 ELSE Min(hits)
HasHits(file, es) ==
    \E h \in [0..Len(es) -> Nat] :
        /\ h[0] = 0 /\ (HoldsRecorded(file, es) <=> h[Len(es)] <= Len(file))
        /\ \A k \in 0..(Len(es) - 1) : h[k + 1] = AfterHit(file, h[k], es[k + 1])
LEMMA HoldsSteps ==
    ASSUME NEW T, NEW U, NEW file \in Seq(T), NEW es \in Seq(U)
    PROVE  HasHits(file, es)
<1> DEFINE V == Nat
           F == [x \in V \X U |-> AfterHit(file, x[1], x[2])]
           none == 0
           Step(c, s) == IF s = {} THEN none ELSE AfterHit(file, c[s \ {Max(s)}], es[Max(s)])
           Eq(c) == c = [s \in SUBSET DOMAIN es |-> Step(c, s)]
           iter == CHOOSE c : Eq(c)
<1>1. F \in [V \X U -> V] /\ none \in V
    <2>1. ASSUME NEW at \in Nat, NEW e PROVE AfterHit(file, at, e) \in Nat
        <3> DEFINE hits == {i \in (at + 1)..Len(file) : file[i] = e}
        <3>1. Len(file) \in Nat /\ hits \subseteq Nat
            BY LenProperties
        <3>2. CASE hits # {}
            <4>1. PICK m \in hits : \A y \in hits : m <= y
                BY <3>1, <3>2, LeastOf
            <4>2. Min(hits) \in hits
                BY <4>1 DEF Min
            <4> QED BY <3>1, <3>2, <4>2 DEF AfterHit
        <3>3. CASE hits = {}
            BY <3>1, <3>3 DEF AfterHit
        <3> QED BY <3>2, <3>3
    <2> QED BY <2>1
<1>2. HasFold(V, U, F, none, es)
    <2> HIDE DEF F, V, none
    <2> QED BY <1>1, FoldExists
<1>3. \E c : Eq(c)
    <2>1. \A at \in V, e \in U : F[<<at, e>>] = AfterHit(file, at, e)
        OBVIOUS
    <2> HIDE DEF F, V, none
    <2>2. PICK g \in [SUBSET DOMAIN es -> V] : \A s \in SUBSET DOMAIN es :
              IF s = {} THEN g[s] = none
              ELSE /\ g[s \ {Max(s)}] \in V /\ es[Max(s)] \in U
                   /\ g[s] = F[<<g[s \ {Max(s)}], es[Max(s)]>>]
        BY <1>2 DEF HasFold
    <2>3. ASSUME NEW s \in SUBSET DOMAIN es PROVE g[s] = Step(g, s)
        <3>1. CASE s = {}
            BY <2>2, <3>1
        <3>2. CASE s # {}
            <4>1. /\ g[s \ {Max(s)}] \in V /\ es[Max(s)] \in U
                  /\ g[s] = F[<<g[s \ {Max(s)}], es[Max(s)]>>]
                BY <2>2, <3>2
            <4> QED BY <2>1, <3>2, <4>1
        <3> QED BY <3>1, <3>2
    <2>4. g = [s \in SUBSET DOMAIN es |-> Step(g, s)]
        <3> HIDE DEF Step
        <3> QED BY <2>3
    <2> QED BY <2>4
<1>4. Eq(iter)
    BY <1>3
<1>5. HoldsRecorded(file, es) <=> iter[DOMAIN es] <= Len(file)
    BY DEF HoldsRecorded, FoldLeft, MapThenFoldSet, AfterHit
<1> HIDE DEF iter
<1>6. /\ iter[{}] = 0
      /\ \A s \in SUBSET DOMAIN es : s # {} /\ iter[s \ {Max(s)}] \in V /\ es[Max(s)] \in U
             => iter[s] = F[<<iter[s \ {Max(s)}], es[Max(s)]>>]
    BY <1>4
<1>7. HasSteps(V, U, F, 0, es, iter[DOMAIN es])
    <2> HIDE DEF F, V
    <2> QED BY <1>1, <1>6, FoldSteps
<1> QED BY <1>5, <1>7 DEF HasSteps, HasHits

-----------------------------------------------------------------------------
(* Counting                                                                *)

LEMMA CountType ==
    ASSUME NEW T, NEW s \in Seq(T), NEW e
    PROVE  /\ Count(s, e) \in Nat /\ IsFiniteSet({i \in DOMAIN s : s[i] = e})
           /\ (\A i \in 1..Len(s) : s[i] # e) => Count(s, e) = 0
<1>0. Len(s) \in Nat /\ DOMAIN s = 1..Len(s)
    BY LenProperties
<1>1. IsFiniteSet(1..Len(s))
    BY <1>0, FS_Interval
<1>2. {i \in DOMAIN s : s[i] = e} \in SUBSET (1..Len(s))
    BY <1>0
<1>3. IsFiniteSet({i \in DOMAIN s : s[i] = e})
    BY <1>1, <1>2, FS_Subset
<1>4. Count(s, e) \in Nat
    BY <1>3, FS_CardinalityType DEF Count
<1>5. ASSUME \A i \in 1..Len(s) : s[i] # e PROVE Count(s, e) = 0
    <2>1. {i \in DOMAIN s : s[i] = e} = {}
        BY <1>0, <1>5
    <2> QED BY <2>1, FS_EmptySet DEF Count
<1> QED BY <1>3, <1>4, <1>5

LEMMA CountConcat ==
    ASSUME NEW T, NEW s \in Seq(T), NEW t \in Seq(T), NEW e
    PROVE  Count(s \o t, e) = Count(s, e) + Count(t, e)
<1> DEFINE A == {i \in DOMAIN s : s[i] = e}
           B == {i \in DOMAIN t : t[i] = e}
           C == {i \in DOMAIN (s \o t) : (s \o t)[i] = e}
           D == {i \in C : i > Len(s)}
           f == [i \in B |-> i + Len(s)]
<1>0. /\ Len(s) \in Nat /\ Len(t) \in Nat /\ DOMAIN s = 1..Len(s) /\ DOMAIN t = 1..Len(t)
      /\ DOMAIN (s \o t) = 1..(Len(s) + Len(t))
      /\ \A i \in 1..Len(s) : (s \o t)[i] = s[i]
      /\ \A i \in 1..Len(t) : (s \o t)[i + Len(s)] = t[i]
    OBVIOUS
<1>1. IsFiniteSet(A) /\ IsFiniteSet(B)
    BY CountType
<1>2. f \in Bijection(B, D)
    <2>1. \A i \in B : f[i] \in D
        BY <1>0
    <2>2. \A i, j \in B : f[i] = f[j] => i = j
        BY <1>0
    <2>4. f \in [B -> D]
        BY <2>1
    <2>3. ASSUME NEW d \in D PROVE \E i \in B : f[i] = d
        <3>1. d - Len(s) \in 1..Len(t) /\ (d - Len(s)) + Len(s) = d
            BY <1>0
        <3>2. d - Len(s) \in B
            BY <1>0, <3>1
        <3> QED BY <3>1, <3>2
    <2> HIDE DEF f, B, D
    <2> QED BY <2>1, <2>2, <2>3, <2>4, Fun_IsBij
<1>3. IsFiniteSet(D) /\ Cardinality(D) = Cardinality(B)
    <2>1. ExistsBijection(B, D)
        BY <1>2 DEF ExistsBijection
    <2> QED BY <1>1, <2>1, FS_Bijection
<1>4. C = A \cup D /\ A \cap D = {}
    BY <1>0
<1>5. Cardinality(C) = Cardinality(A) + Cardinality(D) - Cardinality(A \cap D)
    BY <1>1, <1>3, <1>4, FS_Union
<1>6. Cardinality(A) \in Nat /\ Cardinality(D) \in Nat
    BY <1>1, <1>3, FS_CardinalityType
<1>7. Cardinality(A \cap D) = 0
    BY <1>4, FS_EmptySet
<1>8. Cardinality(C) = Cardinality(A) + Cardinality(B)
    <2> HIDE DEF A, B, C, D
    <2> QED BY <1>3, <1>5, <1>6, <1>7
<1> QED BY <1>8 DEF Count

LEMMA CountOne ==
    ASSUME NEW x, NEW e
    PROVE  Count(<<x>>, e) = IF x = e THEN 1 ELSE 0
<1>1. DOMAIN <<x>> = {1} /\ <<x>>[1] = x
    OBVIOUS
<1>2. {i \in DOMAIN <<x>> : <<x>>[i] = e} = IF x = e THEN {1} ELSE {}
    BY <1>1
<1> QED BY <1>2, FS_EmptySet, FS_Singleton DEF Count

LEMMA CountRemoveAt ==
    ASSUME NEW T, NEW s \in Seq(T), NEW i \in 1..Len(s), NEW e
    PROVE  Count(s, e) = Count(RemoveAt(s, i), e) + IF s[i] = e THEN 1 ELSE 0
<1> DEFINE a == SubSeq(s, 1, i - 1)  b == SubSeq(s, i + 1, Len(s))
<1>0. a \in Seq(T) /\ b \in Seq(T) /\ <<s[i]>> \in Seq(T)
    BY RemoveAtIs
<1>1. /\ s = (a \o <<s[i]>>) \o b /\ RemoveAt(s, i) = a \o b
    BY RemoveAtIs
<1> HIDE DEF a, b
<1>2. Count(s, e) = Count(a \o <<s[i]>>, e) + Count(b, e)
    <2>1. a \o <<s[i]>> \in Seq(T)
        BY <1>0, ConcatProperties
    <2>2. Count((a \o <<s[i]>>) \o b, e) = Count(a \o <<s[i]>>, e) + Count(b, e)
        BY <1>0, <2>1, CountConcat
    <2> QED BY <1>1, <2>2
<1>3. Count(a \o <<s[i]>>, e) = Count(a, e) + Count(<<s[i]>>, e)
    BY <1>0, CountConcat
<1>4. Count(a \o b, e) = Count(a, e) + Count(b, e)
    BY <1>0, CountConcat
<1>5. Count(a, e) \in Nat /\ Count(b, e) \in Nat
    BY <1>0, CountType
<1> QED BY <1>1, <1>2, <1>3, <1>4, <1>5, CountOne

LEMMA RemoveFirstCount ==
    ASSUME NEW T, NEW s \in Seq(T), NEW x, NEW e
    PROVE  /\ x # e => Count(RemoveFirst(s, x), e) = Count(s, e)
           /\ x = e => \/ Count(RemoveFirst(s, x), e) = 0
                       \/ Count(RemoveFirst(s, x), e) + 1 = Count(s, e)
<1>1. CASE RemoveFirst(s, x) = s /\ \A i \in 1..Len(s) : s[i] # x
    BY <1>1, CountType
<1>2. ASSUME NEW i \in 1..Len(s), s[i] = x, RemoveFirst(s, x) = RemoveAt(s, i)
      PROVE  /\ x # e => Count(RemoveFirst(s, x), e) = Count(s, e)
             /\ x = e => Count(RemoveFirst(s, x), e) + 1 = Count(s, e)
    <2>1. Count(s, e) = Count(RemoveAt(s, i), e) + IF s[i] = e THEN 1 ELSE 0
        BY CountRemoveAt
    <2>2. Count(RemoveAt(s, i), e) \in Nat
        BY RemoveAtIs, CountType
    <2> QED BY <1>2, <2>1, <2>2
<1> QED BY <1>1, <1>2, RemoveFirstIs

(* A prefix grows by one member.                                           *)
LEMMA Prefix ==
    ASSUME NEW T, NEW s \in Seq(T), NEW k \in Nat, k + 1 <= Len(s)
    PROVE  /\ SubSeq(s, 1, k) \in Seq(T) /\ s[k + 1] \in T
           /\ SubSeq(s, 1, k + 1) = SubSeq(s, 1, k) \o <<s[k + 1]>>
<1>1. Len(s) \in Nat /\ \A j \in 1..Len(s) : s[j] \in T
    BY LenProperties, ElementOfSeq
<1>2. \A j \in 1..k : s[j] \in T
    BY <1>1
<1>3. SubSeq(s, 1, k) \in Seq(T)
    BY <1>2, SubSeqProperties
<1>4. SubSeq(s, 1, k + 1) = SubSeq(s, 1, (k + 1) - 1) \o <<s[k + 1]>>
    BY <1>1, SubSeqRecursiveSecond
<1>5. (k + 1) - 1 = k /\ k + 1 \in 1..Len(s)
    BY <1>1
<1> QED BY <1>1, <1>3, <1>4, <1>5

(* What the records count is gone from the file, as often as it was there. *)
LEMMA RemoveEntriesCount ==
    ASSUME NEW T, NEW file \in Seq(T), NEW es \in Seq(T), NEW e
    PROVE  /\ RemoveEntries(file, es) \in Seq(T)
           /\ \/ Count(RemoveEntries(file, es), e) = 0
              \/ Count(RemoveEntries(file, es), e) + Count(es, e) <= Count(file, e)
<1>1. PICK h \in [0..Len(es) -> Seq(T)] :
          /\ h[0] = file /\ h[Len(es)] = RemoveEntries(file, es)
          /\ \A k \in 0..(Len(es) - 1) : h[k + 1] = RemoveFirst(h[k], es[k + 1])
    BY RemoveSteps
<1>2. Len(es) \in Nat /\ \A k \in 0..Len(es) : h[k] \in Seq(T) /\ Count(h[k], e) \in Nat
    BY LenProperties, CountType
<1> DEFINE Left(k) == \/ Count(h[k], e) = 0
                      \/ Count(h[k], e) + Count(SubSeq(es, 1, k), e) <= Count(file, e)
           S == {k \in Nat : k <= Len(es) => Left(k)}
<1>3. 0 \in S
    <2>1. SubSeq(es, 1, 0) = << >> /\ << >> \in Seq(T) /\ Len(<< >>) = 0
        BY SubSeqEmpty
    <2>2. Count(SubSeq(es, 1, 0), e) = 0
        BY <2>1, CountType
    <2> QED BY <1>1, <1>2, <2>2
<1>4. ASSUME NEW k \in Nat, k \in S PROVE k + 1 \in S
    <2> SUFFICES ASSUME k + 1 <= Len(es) PROVE Left(k + 1)
        OBVIOUS
    <2>1. Left(k) /\ k \in 0..Len(es) /\ k \in 0..(Len(es) - 1)
        BY <1>2, <1>4
    <2>2. h[k] \in Seq(T) /\ h[k + 1] \in Seq(T) /\ h[k + 1] = RemoveFirst(h[k], es[k + 1])
        BY <1>1, <1>2, <2>1
    <2>3. /\ SubSeq(es, 1, k) \in Seq(T) /\ es[k + 1] \in T
          /\ SubSeq(es, 1, k + 1) = SubSeq(es, 1, k) \o <<es[k + 1]>>
        BY Prefix
    <2>4. /\ Count(SubSeq(es, 1, k + 1), e)
                 = Count(SubSeq(es, 1, k), e) + Count(<<es[k + 1]>>, e)
          /\ Count(SubSeq(es, 1, k), e) \in Nat
        <3> DEFINE p == SubSeq(es, 1, k)  x == <<es[k + 1]>>
        <3>1. p \in Seq(T) /\ x \in Seq(T) /\ SubSeq(es, 1, k + 1) = p \o x
            BY <2>3
        <3> HIDE DEF p, x
        <3>2. Count(p \o x, e) = Count(p, e) + Count(x, e)
            BY <3>1, CountConcat
        <3>3. Count(p, e) \in Nat
            BY <3>1, CountType
        <3> QED BY <3>1, <3>2, <3>3 DEF p, x
    <2>5. /\ es[k + 1] # e => Count(h[k + 1], e) = Count(h[k], e)
          /\ es[k + 1] = e => \/ Count(h[k + 1], e) = 0
                              \/ Count(h[k + 1], e) + 1 = Count(h[k], e)
        BY <2>2, RemoveFirstCount
    <2>6. Count(<<es[k + 1]>>, e) = IF es[k + 1] = e THEN 1 ELSE 0
        BY CountOne
    <2>7. Count(h[k], e) \in Nat /\ Count(h[k + 1], e) \in Nat /\ Count(file, e) \in Nat
        BY <2>2, CountType
    <2> QED BY <2>1, <2>4, <2>5, <2>6, <2>7
<1> HIDE DEF S
<1>5. Len(es) \in S
    BY <1>2, <1>3, <1>4, Inductive
<1>6. Left(Len(es)) /\ SubSeq(es, 1, Len(es)) = es /\ Len(es) \in 0..Len(es)
    BY <1>2, <1>5, SubSeqFull DEF S
<1>7. h[Len(es)] \in Seq(T)
    BY <1>2, <1>6
<1> QED BY <1>1, <1>6, <1>7

-----------------------------------------------------------------------------
(* The user's hooks in a file                                              *)

LEMMA UserType ==
    ASSUME NEW T, NEW file \in Seq(T)
    PROVE  UserHooks(file) \in Seq(UserEntry)
<1>1. PICK h \in [0..Len(file) -> Seq(UserEntry)] : h[Len(file)] = UserHooks(file)
    BY UserSteps
<1>2. Len(file) \in 0..Len(file)
    BY LenProperties
<1> QED BY <1>1, <1>2

LEMMA AppendConcat ==
    \A us, vs \in Seq(UserEntry), y \in UserEntry : Append(us \o vs, y) = us \o Append(vs, y)
OBVIOUS

(* An entry counts among the user's exactly if the user wrote it.          *)
LEMMA UserAppend ==
    ASSUME NEW T, NEW file \in Seq(T), NEW x \in T
    PROVE  /\ UserHooks(file) \in Seq(UserEntry)
           /\ UserHooks(Append(file, x)) = IF x \in UserEntry THEN Append(UserHooks(file), x)
                                           ELSE UserHooks(file)
<1> DEFINE V == Seq(UserEntry)
           n == Len(file)
           more == Append(file, x)
<1>0. /\ n \in Nat /\ more \in Seq(T) /\ Len(more) = n + 1
      /\ \A k \in 1..n : file[k] = more[k] /\ file[k] \in T
      /\ more[n + 1] = x
    BY LenProperties, AppendProperties, ElementOfSeq
<1>1. PICK g \in [0..n -> V] :
          /\ g[0] = << >> /\ g[n] = UserHooks(file)
          /\ \A k \in 0..(n - 1) :
                 g[k + 1] = IF file[k + 1] \in UserEntry THEN Append(g[k], file[k + 1]) ELSE g[k]
    BY UserSteps
<1>2. PICK h \in [0..Len(more) -> V] :
          /\ h[0] = << >> /\ h[Len(more)] = UserHooks(more)
          /\ \A k \in 0..(Len(more) - 1) :
                 h[k + 1] = IF more[k + 1] \in UserEntry THEN Append(h[k], more[k + 1]) ELSE h[k]
    <2> HIDE DEF more
    <2> QED BY <1>0, UserSteps
<1> HIDE DEF more
<1> DEFINE S == {k \in Nat : k <= n => g[k] = h[k]}
<1>3. 0 \in S
    BY <1>1, <1>2
<1>4. ASSUME NEW k \in Nat, k \in S PROVE k + 1 \in S
    <2> SUFFICES ASSUME k + 1 <= n PROVE g[k + 1] = h[k + 1]
        OBVIOUS
    <2>1. k \in 0..(n - 1) /\ k \in 0..(Len(more) - 1) /\ k + 1 \in 1..n /\ g[k] = h[k]
        BY <1>0, <1>4
    <2>2. file[k + 1] = more[k + 1]
        BY <1>0, <2>1
    <2> QED BY <1>1, <1>2, <2>1, <2>2
<1> HIDE DEF S
<1>5. g[n] = h[n]
    <2>1. n \in S
        BY <1>0, <1>3, <1>4, Inductive
    <2> QED BY <1>0, <2>1 DEF S
<1>6. h[n + 1] = IF x \in UserEntry THEN Append(h[n], x) ELSE h[n]
    <2>1. n \in 0..(Len(more) - 1)
        BY <1>0
    <2> QED BY <1>0, <1>2, <2>1
<1>7. g[n] \in V
    BY <1>0, <1>1
<1> QED BY <1>0, <1>1, <1>2, <1>5, <1>6, <1>7 DEF more

LEMMA UserConcat ==
    ASSUME NEW T, NEW a \in Seq(T), NEW b \in Seq(T)
    PROVE  UserHooks(a \o b) = UserHooks(a) \o UserHooks(b)
<1> DEFINE S == {k \in Nat : k <= Len(b) =>
                    UserHooks(a \o SubSeq(b, 1, k)) = UserHooks(a) \o UserHooks(SubSeq(b, 1, k))}
<1>0. UserHooks(a) \in Seq(UserEntry) /\ Len(b) \in Nat
    BY UserType, LenProperties
<1>1. UserHooks(<< >>) = << >>
    <2>1. << >> \in Seq(T) /\ Len(<< >>) = 0
        OBVIOUS
    <2> QED BY <2>1, UserSteps
<1>2. 0 \in S
    <2>1. SubSeq(b, 1, 0) = << >> /\ a \o << >> = a /\ UserHooks(a) \o << >> = UserHooks(a)
        BY <1>0, SubSeqEmpty, ConcatEmptySeq
    <2> QED BY <1>1, <2>1
<1>3. ASSUME NEW k \in Nat, k \in S PROVE k + 1 \in S
    <2> SUFFICES ASSUME k + 1 <= Len(b)
                 PROVE  UserHooks(a \o SubSeq(b, 1, k + 1))
                            = UserHooks(a) \o UserHooks(SubSeq(b, 1, k + 1))
        OBVIOUS
    <2> DEFINE p == SubSeq(b, 1, k)  x == b[k + 1]
    <2>1. p \in Seq(T) /\ x \in T /\ SubSeq(b, 1, k + 1) = p \o <<x>>
        BY Prefix
    <2>2. UserHooks(a \o p) = UserHooks(a) \o UserHooks(p)
        BY <1>0, <1>3
    <2> HIDE DEF p, x
    <2>3. SubSeq(b, 1, k + 1) = Append(p, x) /\ a \o Append(p, x) = Append(a \o p, x)
        BY <2>1
    <2>4. a \o p \in Seq(T)
        BY <2>1
    <2>5. UserHooks(p) \in Seq(UserEntry)
          /\ UserHooks(Append(p, x)) = IF x \in UserEntry THEN Append(UserHooks(p), x)
                                       ELSE UserHooks(p)
        BY <2>1, UserAppend
    <2>6. UserHooks(Append(a \o p, x)) = IF x \in UserEntry THEN Append(UserHooks(a \o p), x)
                                         ELSE UserHooks(a \o p)
        BY <2>1, <2>4, UserAppend
    <2>7. x \in UserEntry => Append(UserHooks(a) \o UserHooks(p), x)
                                 = UserHooks(a) \o Append(UserHooks(p), x)
        <3> SUFFICES ASSUME x \in UserEntry
                     PROVE  Append(UserHooks(a) \o UserHooks(p), x)
                                = UserHooks(a) \o Append(UserHooks(p), x)
            OBVIOUS
        <3>1. PICK us \in Seq(UserEntry), vs \in Seq(UserEntry), y \in UserEntry :
                  us = UserHooks(a) /\ vs = UserHooks(p) /\ y = x
            BY <1>0, <2>5
        <3>2. Append(us \o vs, y) = us \o Append(vs, y)
            BY AppendConcat
        <3> QED BY <3>1, <3>2
    <2> QED BY <2>2, <2>3, <2>5, <2>6, <2>7
<1> HIDE DEF S
<1>4. Len(b) \in S
    BY <1>0, <1>2, <1>3, Inductive
<1>5. SubSeq(b, 1, Len(b)) = b
    BY SubSeqFull
<1>6. UserHooks(a \o SubSeq(b, 1, Len(b)))
          = UserHooks(a) \o UserHooks(SubSeq(b, 1, Len(b)))
    BY <1>0, <1>4 DEF S
<1> QED BY <1>5, <1>6

(* The entries of packages are none of the user's.                         *)
LEMMA UserNone ==
    ASSUME NEW es \in Seq(Entry)
    PROVE  UserHooks(es) = << >>
<1>1. PICK h \in [0..Len(es) -> Seq(UserEntry)] :
          /\ h[0] = << >> /\ h[Len(es)] = UserHooks(es)
          /\ \A k \in 0..(Len(es) - 1) :
                 h[k + 1] = IF es[k + 1] \in UserEntry THEN Append(h[k], es[k + 1]) ELSE h[k]
    BY UserSteps
<1>2. Len(es) \in Nat /\ \A k \in 1..Len(es) : es[k] \notin UserEntry
    BY LenProperties, ElementOfSeq, EntryAssumption
<1> DEFINE S == {k \in Nat : k <= Len(es) => h[k] = << >>}
<1>3. 0 \in S
    BY <1>1
<1>4. ASSUME NEW k \in Nat, k \in S PROVE k + 1 \in S
    <2> SUFFICES ASSUME k + 1 <= Len(es) PROVE h[k + 1] = << >>
        OBVIOUS
    <2>1. k \in 0..(Len(es) - 1) /\ k + 1 \in 1..Len(es) /\ h[k] = << >>
        BY <1>2, <1>4
    <2>2. es[k + 1] \notin UserEntry
        BY <1>2, <2>1
    <2> QED BY <1>1, <2>1, <2>2
<1> HIDE DEF S
<1>5. Len(es) \in S
    BY <1>2, <1>3, <1>4, Inductive
<1> QED BY <1>1, <1>2, <1>5 DEF S

(* What Mars removes is none of the user's entries.                        *)
LEMMA UserRemoveFirst ==
    ASSUME NEW T, NEW s \in Seq(T), NEW e, e \notin UserEntry
    PROVE  UserHooks(RemoveFirst(s, e)) = UserHooks(s)
<1>1. ASSUME NEW i \in 1..Len(s), s[i] = e
      PROVE  UserHooks(RemoveAt(s, i)) = UserHooks(s)
    <2> DEFINE a == SubSeq(s, 1, i - 1)  b == SubSeq(s, i + 1, Len(s))
    <2>1. /\ a \in Seq(T) /\ b \in Seq(T) /\ e \in T
          /\ s = (a \o <<e>>) \o b /\ RemoveAt(s, i) = a \o b
        BY <1>1, RemoveAtIs
    <2> HIDE DEF a, b
    <2>2. a \o <<e>> = Append(a, e) /\ Append(a, e) \in Seq(T)
        BY <2>1
    <2>3. UserHooks(Append(a, e)) = UserHooks(a)
        BY <2>1, UserAppend
    <2>4. UserHooks(Append(a, e) \o b) = UserHooks(Append(a, e)) \o UserHooks(b)
        BY <2>1, <2>2, UserConcat
    <2>5. UserHooks(a \o b) = UserHooks(a) \o UserHooks(b)
        BY <2>1, UserConcat
    <2> QED BY <2>1, <2>2, <2>3, <2>4, <2>5
<1> QED BY <1>1, RemoveFirstIs

LEMMA UserRemoveEntries ==
    ASSUME NEW T, NEW file \in Seq(T), NEW es \in Seq(T)
    PROVE  (\A i \in 1..Len(es) : es[i] \notin UserEntry)
               => UserHooks(RemoveEntries(file, es)) = UserHooks(file)
<1>1. PICK h \in [0..Len(es) -> Seq(T)] :
          /\ h[0] = file /\ h[Len(es)] = RemoveEntries(file, es)
          /\ \A k \in 0..(Len(es) - 1) : h[k + 1] = RemoveFirst(h[k], es[k + 1])
    BY RemoveSteps
<1> SUFFICES ASSUME \A i \in 1..Len(es) : es[i] \notin UserEntry
             PROVE  UserHooks(RemoveEntries(file, es)) = UserHooks(file)
    OBVIOUS
<1> DEFINE S == {k \in Nat : k <= Len(es) => UserHooks(h[k]) = UserHooks(file)}
<1>2. Len(es) \in Nat
    BY LenProperties
<1>3. 0 \in S
    BY <1>1
<1>4. ASSUME NEW k \in Nat, k \in S PROVE k + 1 \in S
    <2> SUFFICES ASSUME k + 1 <= Len(es) PROVE UserHooks(h[k + 1]) = UserHooks(file)
        OBVIOUS
    <2>1. k \in 0..(Len(es) - 1) /\ k \in 0..Len(es) /\ k + 1 \in 1..Len(es)
        BY <1>2
    <2>2. UserHooks(h[k]) = UserHooks(file)
        BY <1>2, <1>4, <2>1
    <2>3. UserHooks(RemoveFirst(h[k], es[k + 1])) = UserHooks(h[k])
        BY <1>1, <2>1, UserRemoveFirst
    <2> QED BY <1>1, <2>1, <2>2, <2>3
<1> HIDE DEF S
<1>5. Len(es) \in S
    BY <1>2, <1>3, <1>4, Inductive
<1> QED BY <1>1, <1>2, <1>5 DEF S

LEMMA FlattenType ==
    ASSUME NEW T, NEW seqs \in Seq(Seq(T))
    PROVE  FlattenSeq(seqs) \in Seq(T)
<1>1. PICK h \in [0..Len(seqs) -> Seq(T)] : h[Len(seqs)] = FlattenSeq(seqs)
    BY FlattenSteps
<1>2. Len(seqs) \in 0..Len(seqs)
    BY LenProperties
<1> QED BY <1>1, <1>2

(* The places of an entry in the members of a sequence of sequences.       *)
Places(seqs, n, e) ==
    {p \in (1..n) \X Nat : p[2] \in DOMAIN seqs[p[1]] /\ seqs[p[1]][p[2]] = e}

LEMMA PlacesNext ==
    ASSUME NEW T, NEW seqs \in Seq(Seq(T)), NEW e, NEW n \in Nat, n + 1 <= Len(seqs),
           IsFiniteSet(Places(seqs, n, e))
    PROVE  /\ IsFiniteSet(Places(seqs, n + 1, e))
           /\ Cardinality(Places(seqs, n + 1, e))
                  = Cardinality(Places(seqs, n, e)) + Count(seqs[n + 1], e)
<1> DEFINE s == seqs[n + 1]
           A == {i \in DOMAIN s : s[i] = e}
           P == Places(seqs, n, e)
           Q == {p \in {n + 1} \X Nat : p[2] \in A}
           f == [i \in A |-> <<n + 1, i>>]
<1>1. s \in Seq(T) /\ DOMAIN s = 1..Len(s) /\ Len(s) \in Nat
    <2>1. n + 1 \in 1..Len(seqs)
        BY LenProperties
    <2>2. s \in Seq(T)
        BY <2>1, ElementOfSeq
    <2> QED BY <2>2, LenProperties
<1>2. IsFiniteSet(A) /\ A \subseteq Nat
    <2>1. A \subseteq Nat
        BY <1>1
    <2> HIDE DEF s
    <2>2. IsFiniteSet({i \in DOMAIN s : s[i] = e})
        BY <1>1, CountType
    <2> QED BY <2>1, <2>2 DEF s
<1>3. f \in Bijection(A, Q)
    <2>1. f \in [A -> Q]
        BY <1>2
    <2>2. \A i, j \in A : f[i] = f[j] => i = j
        OBVIOUS
    <2>3. \A q \in Q : \E i \in A : f[i] = q
        OBVIOUS
    <2> HIDE DEF f, A, Q
    <2> QED BY <2>1, <2>2, <2>3, Fun_IsBij
<1>4. IsFiniteSet(Q) /\ Cardinality(Q) = Cardinality(A)
    <2>1. ExistsBijection(A, Q)
        BY <1>3 DEF ExistsBijection
    <2> HIDE DEF A, Q
    <2> QED BY <1>2, <2>1, FS_Bijection
<1>5. Places(seqs, n + 1, e) = P \cup Q
    <2>1. ASSUME NEW p \in Places(seqs, n + 1, e) PROVE p \in P \cup Q
        <3>1. p = <<p[1], p[2]>> /\ p[1] \in 1..(n + 1) /\ p[2] \in Nat
              /\ p[2] \in DOMAIN seqs[p[1]] /\ seqs[p[1]][p[2]] = e
            BY DEF Places
        <3>2. CASE p[1] = n + 1
            BY <3>1, <3>2
        <3>3. CASE p[1] # n + 1
            <4>1. p[1] \in 1..n
                BY <3>1, <3>3
            <4>2. p \in (1..n) \X Nat
                BY <3>1, <4>1
            <4> QED BY <3>1, <4>2 DEF Places
        <3> QED BY <3>2, <3>3
    <2>2. ASSUME NEW p \in P PROVE p \in Places(seqs, n + 1, e)
        <3>1. p \in (1..(n + 1)) \X Nat
            BY DEF Places
        <3> QED BY <3>1 DEF Places
    <2>3. ASSUME NEW p \in Q PROVE p \in Places(seqs, n + 1, e)
        <3>1. p \in (1..(n + 1)) \X Nat /\ p[1] = n + 1 /\ p[2] \in A
            OBVIOUS
        <3> QED BY <3>1 DEF Places
    <2> QED BY <2>1, <2>2, <2>3
<1>6. P \cap Q = {}
    <2>1. \A p \in P : p[1] # n + 1
        BY DEF Places
    <2>2. \A q \in Q : q[1] = n + 1
        OBVIOUS
    <2> HIDE DEF P, Q
    <2> QED BY <2>1, <2>2
<1>7. Count(s, e) = Cardinality(A)
    BY DEF Count
<1>8. IsFiniteSet(P)
    OBVIOUS
<1> HIDE DEF s, A, P, Q
<1>9. /\ IsFiniteSet(P \cup Q)
      /\ Cardinality(P \cup Q) = Cardinality(P) + Cardinality(Q) - Cardinality(P \cap Q)
    BY <1>4, <1>8, FS_Union
<1>10. Cardinality(P) \in Nat /\ Cardinality(Q) \in Nat /\ Cardinality(P \cap Q) = 0
    BY <1>4, <1>6, <1>8, FS_CardinalityType, FS_EmptySet
<1>11. Cardinality(P \cup Q) = Cardinality(P) + Count(s, e)
    BY <1>4, <1>7, <1>9, <1>10
<1> QED BY <1>5, <1>9, <1>11 DEF P, s

LEMMA CountEmpty == \A e : Count(<< >>, e) = 0
<1> SUFFICES ASSUME NEW e PROVE Count(<< >>, e) = 0
    OBVIOUS
<1>1. {i \in DOMAIN << >> : << >>[i] = e} = {}
    OBVIOUS
<1> QED BY <1>1, FS_EmptySet DEF Count

(* An entry is as often in a concatenation as in its members.              *)
LEMMA FlattenCount ==
    ASSUME NEW T, NEW seqs \in Seq(Seq(T)), NEW e
    PROVE  /\ IsFiniteSet(Places(seqs, Len(seqs), e))
           /\ Count(FlattenSeq(seqs), e) = Cardinality(Places(seqs, Len(seqs), e))
<1>1. PICK h \in [0..Len(seqs) -> Seq(T)] :
          /\ h[0] = << >> /\ h[Len(seqs)] = FlattenSeq(seqs)
          /\ \A k \in 0..(Len(seqs) - 1) : h[k + 1] = h[k] \o seqs[k + 1]
    BY FlattenSteps
<1>2. Len(seqs) \in Nat /\ \A k \in 1..Len(seqs) : seqs[k] \in Seq(T)
    BY LenProperties, ElementOfSeq
<1> DEFINE Counted(k) == /\ IsFiniteSet(Places(seqs, k, e))
                         /\ Count(h[k], e) = Cardinality(Places(seqs, k, e))
           S == {k \in Nat : k <= Len(seqs) => Counted(k)}
<1>3. 0 \in S
    <2>1. Places(seqs, 0, e) = {}
        BY DEF Places
    <2>3. Count(h[0], e) = 0
        BY <1>1, CountEmpty
    <2> QED BY <2>1, <2>3, FS_EmptySet
<1>4. ASSUME NEW k \in Nat, k \in S PROVE k + 1 \in S
    <2> SUFFICES ASSUME k + 1 <= Len(seqs) PROVE Counted(k + 1)
        OBVIOUS
    <2>1. k \in 0..(Len(seqs) - 1) /\ k \in 0..Len(seqs) /\ k + 1 \in 1..Len(seqs) /\ Counted(k)
        BY <1>2, <1>4
    <2>2. /\ h[k + 1] = h[k] \o seqs[k + 1] /\ h[k] \in Seq(T) /\ seqs[k + 1] \in Seq(T)
        BY <1>1, <1>2, <2>1
    <2>3. Count(h[k] \o seqs[k + 1], e) = Count(h[k], e) + Count(seqs[k + 1], e)
        BY <2>2, CountConcat
    <2>4. /\ IsFiniteSet(Places(seqs, k + 1, e))
          /\ Cardinality(Places(seqs, k + 1, e))
                 = Cardinality(Places(seqs, k, e)) + Count(seqs[k + 1], e)
        BY <2>1, PlacesNext
    <2> QED BY <2>1, <2>2, <2>3, <2>4
<1> HIDE DEF S
<1>5. Len(seqs) \in S
    BY <1>2, <1>3, <1>4, Inductive
<1> QED BY <1>1, <1>2, <1>5 DEF S

-----------------------------------------------------------------------------
(* The entries of hooks are those of their records                         *)

(* The records are concatenated in some order that meets each hook once.   *)
LEMMA HookOrder ==
    /\ SetToSeq(Hook) \in Bijection(1..Cardinality(Hook), Hook)
    /\ Cardinality(Hook) \in Nat
<1> DEFINE n == Cardinality(Hook)
<1>0. IsFiniteSet(Hook) /\ n \in Nat
    BY EntryAssumption, FS_CardinalityType
<1>1. PICK m \in Nat : ExistsBijection(1..m, Hook)
    BY <1>0, FS_NatBijection
<1>2. n = m
    BY <1>1, FS_CountingElements
<1>3. PICK f : f \in Bijection(1..n, Hook)
    BY <1>1, <1>2 DEF ExistsBijection
<1>4. f \in [1..n -> Hook] /\ IsInjective(f)
    <2> HIDE DEF n
    <2>1. f \in [1..n -> Hook] /\ \A a, b \in 1..n : f[a] = f[b] => a = b
        BY <1>3, Fun_BijectionProperties
    <2> QED BY <2>1 DEF IsInjective
<1>5. SetToSeq(Hook) \in [1..n -> Hook] /\ IsInjective(SetToSeq(Hook))
    BY <1>4 DEF SetToSeq
<1>6. SetToSeq(Hook) \in Injection(1..n, Hook)
    BY <1>5 DEF Injection
<1>7. Cardinality(1..n) = n
    BY <1>0, FS_Interval
<1>8. SetToSeq(Hook) \in Surjection(1..n, Hook)
    <2> HIDE DEF n
    <2>1. Cardinality(1..n) = Cardinality(Hook)
        BY <1>7 DEF n
    <2> QED BY <1>0, <1>6, <2>1, FS_Injection
<1> QED BY <1>0, <1>6, <1>8 DEF Bijection

Books == [Hook -> Seq(Entry) \cup {None}]
Blocks(hooks) ==
    [i \in 1..Cardinality(Hook) |->
        LET name == SetToSeq(Hook)[i] IN IF hooks[name] = None THEN << >> ELSE hooks[name]]

LEMMA BlocksType ==
    ASSUME NEW book, book.hooks \in Books
    PROVE  /\ Blocks(book.hooks) \in Seq(Seq(Entry))
           /\ Len(Blocks(book.hooks)) = Cardinality(Hook)
           /\ Recorded(book) = FlattenSeq(Blocks(book.hooks))
           /\ Recorded(book) \in Seq(Entry)
<1> DEFINE n == Cardinality(Hook)
<1>1. n \in Nat /\ \A i \in 1..n : SetToSeq(Hook)[i] \in Hook
    BY HookOrder, Fun_BijectionProperties
<1>2. Blocks(book.hooks) \in [1..n -> Seq(Entry)]
    BY <1>1 DEF Blocks, Books
<1>3. Blocks(book.hooks) \in Seq(Seq(Entry)) /\ Len(Blocks(book.hooks)) = n
    <2> HIDE DEF n
    <2>1. PICK b \in [1..n -> Seq(Entry)] : b = Blocks(book.hooks)
        BY <1>2
    <2>2. b \in Seq(Seq(Entry)) /\ Len(b) = n
        BY <1>1
    <2> QED BY <2>1, <2>2
<1>4. Recorded(book) = FlattenSeq(Blocks(book.hooks))
    BY DEF Recorded, Blocks
<1> QED BY <1>3, <1>4, FlattenType

(* No two hooks of a sequence have the same name.                          *)
Distinct(hooks) == \A i, j \in DOMAIN hooks : hooks[i].name = hooks[j].name => i = j

LEMMA EmittedType ==
    ASSUME NEW hooks \in Seq(Emission)
    PROVE  /\ [i \in DOMAIN hooks |-> hooks[i].entries] \in Seq(Seq(Entry))
           /\ Len([i \in DOMAIN hooks |-> hooks[i].entries]) = Len(hooks)
           /\ Emitted(hooks) \in Seq(Entry)
<1>1. Len(hooks) \in Nat /\ DOMAIN hooks = 1..Len(hooks)
      /\ \A i \in 1..Len(hooks) : hooks[i] \in Emission
    BY LenProperties, ElementOfSeq
<1> DEFINE es == [i \in 1..Len(hooks) |-> hooks[i].entries]
<1>2. es \in [1..Len(hooks) -> Seq(Entry)]
    BY <1>1 DEF Emission
<1>3. es \in Seq(Seq(Entry)) /\ Len(es) = Len(hooks)
    <2> HIDE DEF es
    <2> QED BY <1>1, <1>2
<1>4. FlattenSeq(es) \in Seq(Entry)
    <2> HIDE DEF es
    <2> QED BY <1>3, FlattenType
<1> QED BY <1>1, <1>3, <1>4 DEF Emitted

LEMMA HookRecordsIs ==
    ASSUME NEW hooks \in Seq(Emission), Distinct(hooks)
    PROVE  /\ HookRecords(hooks) \in Books
           /\ \A i \in DOMAIN hooks : /\ hooks[i].name \in Hook
                                      /\ HookRecords(hooks)[hooks[i].name] = hooks[i].entries
           /\ hooks = << >> => HookRecords(hooks) = NoHooks
<1>1. \A i \in DOMAIN hooks : hooks[i].name \in Hook /\ hooks[i].entries \in Seq(Entry)
    <2>1. \A i \in DOMAIN hooks : hooks[i] \in Emission
        BY LenProperties, ElementOfSeq
    <2> QED BY <2>1 DEF Emission
<1>2. ASSUME NEW i \in DOMAIN hooks
      PROVE  (CHOOSE j \in DOMAIN hooks : hooks[j].name = hooks[i].name) = i
    BY DEF Distinct
<1>3. HookRecords(hooks) \in Books
    <2>1. ASSUME NEW h \in Hook PROVE HookRecords(hooks)[h] \in Seq(Entry) \cup {None}
        <3>1. CASE \E i \in DOMAIN hooks : hooks[i].name = h
            <4>1. PICK i \in DOMAIN hooks : hooks[i].name = h
                BY <3>1
            <4>2. HookRecords(hooks)[h] = hooks[i].entries
                <5>1. (CHOOSE j \in DOMAIN hooks : hooks[j].name = h) = i
                    BY <1>2, <4>1
                <5>2. HookRecords(hooks)[h]
                          = hooks[CHOOSE j \in DOMAIN hooks : hooks[j].name = h].entries
                    BY <3>1 DEF HookRecords
                <5> QED BY <5>1, <5>2
            <4> QED BY <1>1, <4>2
        <3>2. CASE ~\E i \in DOMAIN hooks : hooks[i].name = h
            BY <3>2 DEF HookRecords
        <3> QED BY <3>1, <3>2
    <2> QED BY <2>1 DEF Books, HookRecords
<1>4. \A i \in DOMAIN hooks : HookRecords(hooks)[hooks[i].name] = hooks[i].entries
    BY <1>1, <1>2 DEF HookRecords
<1>5. hooks = << >> => HookRecords(hooks) = NoHooks
    BY DEF HookRecords, NoHooks
<1> QED BY <1>1, <1>3, <1>4, <1>5

(* What a session emits is counted by the records it publishes.            *)
LEMMA EmittedCount ==
    ASSUME NEW hooks \in Seq(Emission), Distinct(hooks), NEW e,
           NEW book, book.hooks = HookRecords(hooks)
    PROVE  Count(Emitted(hooks), e) <= Count(Recorded(book), e)
<1> DEFINE n == Cardinality(Hook)
           es == [i \in DOMAIN hooks |-> hooks[i].entries]
           bs == Blocks(book.hooks)
           P == Places(es, Len(es), e)
           Q == Places(bs, Len(bs), e)
           at(name) == CHOOSE k \in 1..n : SetToSeq(Hook)[k] = name
           f == [p \in P |-> <<at(hooks[p[1]].name), p[2]>>]
<1>0. /\ Len(hooks) \in Nat /\ DOMAIN hooks = 1..Len(hooks)
      /\ n \in Nat
    BY LenProperties, HookOrder
<1>1. es \in Seq(Seq(Entry)) /\ Len(es) = Len(hooks) /\ Emitted(hooks) = FlattenSeq(es)
    BY EmittedType DEF Emitted
<1>2. HookRecords(hooks) \in Books /\ \A i \in DOMAIN hooks :
          hooks[i].name \in Hook /\ HookRecords(hooks)[hooks[i].name] = hooks[i].entries
    BY HookRecordsIs
<1>3. /\ bs \in Seq(Seq(Entry)) /\ Len(bs) = n /\ Recorded(book) = FlattenSeq(bs)
    BY <1>2, BlocksType
<1>4. ASSUME NEW name \in Hook
      PROVE  at(name) \in 1..n /\ SetToSeq(Hook)[at(name)] = name
    <2>1. \E k \in 1..n : SetToSeq(Hook)[k] = name
        BY HookOrder, Fun_BijectionProperties
    <2> QED BY <2>1
<1>5. ASSUME NEW p \in P
      PROVE  /\ p[1] \in DOMAIN hooks /\ p[2] \in Nat /\ p = <<p[1], p[2]>>
             /\ p[2] \in DOMAIN hooks[p[1]].entries /\ hooks[p[1]].entries[p[2]] = e
             /\ f[p] \in Q
    <2>1. p \in (1..Len(hooks)) \X Nat /\ p[2] \in DOMAIN es[p[1]] /\ es[p[1]][p[2]] = e
        BY <1>1 DEF Places
    <2>2. p[1] \in DOMAIN hooks /\ p[2] \in Nat /\ p = <<p[1], p[2]>>
        BY <1>0, <2>1
    <2>3. p[2] \in DOMAIN hooks[p[1]].entries /\ hooks[p[1]].entries[p[2]] = e
        BY <2>1, <2>2
    <2> DEFINE name == hooks[p[1]].name  k == at(name)
    <2>4. name \in Hook /\ k \in 1..n /\ SetToSeq(Hook)[k] = name
        BY <1>2, <1>4, <2>2
    <2>5. HookRecords(hooks)[name] = hooks[p[1]].entries
        BY <1>2, <2>2
    <2>6. hooks[p[1]].entries \in Seq(Entry)
        <3>1. hooks[p[1]] \in Emission
            BY <1>0, <2>2, ElementOfSeq
        <3> QED BY <3>1 DEF Emission
    <2>7. bs[k] = hooks[p[1]].entries
        <3>1. book.hooks[name] # None
            BY <2>5, <2>6, EntryAssumption
        <3> QED BY <2>4, <2>5, <3>1 DEF Blocks
    <2>8. f[p] = <<k, p[2]>>
        OBVIOUS
    <2> HIDE DEF k, f, bs
    <2>9. <<k, p[2]>> \in Q
        BY <1>3, <2>2, <2>3, <2>4, <2>7 DEF Places
    <2> QED BY <2>2, <2>3, <2>8, <2>9
<1>6. ASSUME NEW p \in P, NEW q \in P, f[p] = f[q] PROVE p = q
    <2>1. at(hooks[p[1]].name) = at(hooks[q[1]].name) /\ p[2] = q[2]
        <3> HIDE DEF P, at
        <3>1. /\ f[p] = <<at(hooks[p[1]].name), p[2]>>
              /\ f[q] = <<at(hooks[q[1]].name), q[2]>>
            OBVIOUS
        <3> QED BY <1>6, <3>1
    <2>2. hooks[p[1]].name = hooks[q[1]].name
        BY <1>2, <1>4, <1>5, <2>1
    <2>3. p[1] = q[1]
        BY <1>5, <2>2 DEF Distinct
    <2> QED BY <1>5, <2>1, <2>3
<1>7. f \in Injection(P, Q)
    <2>1. f \in [P -> Q]
        BY <1>5
    <2> HIDE DEF f, P, Q
    <2> QED BY <1>6, <2>1, Fun_IsInj
<1> HIDE DEF es, bs, f
<1>8. IsFiniteSet(Q) /\ Count(FlattenSeq(bs), e) = Cardinality(Q)
    BY <1>3, FlattenCount
<1>9. Count(FlattenSeq(es), e) = Cardinality(P)
    BY <1>1, FlattenCount
<1>10. Cardinality(P) <= Cardinality(Q)
    <2> HIDE DEF P, Q
    <2> QED BY <1>7, <1>8, FS_Injection
<1> QED BY <1>1, <1>3, <1>8, <1>9, <1>10

-----------------------------------------------------------------------------
(* Order                                                                   *)

LEMMA InOrderEmpty == \A file : InOrder(file, << >>)
<1> SUFFICES ASSUME NEW file PROVE InOrder(file, << >>)
    OBVIOUS
<1> DEFINE at == [i \in DOMAIN << >> |-> 0]
<1>1. at \in [DOMAIN << >> -> DOMAIN file]
    OBVIOUS
<1>2. DOMAIN << >> = {}
    OBVIOUS
<1> HIDE DEF at
<1> QED BY <1>1, <1>2 DEF InOrder

(* What is written at the end of a file is in it in order.                 *)
LEMMA InOrderConcat ==
    ASSUME NEW T, NEW file \in Seq(T), NEW es \in Seq(T)
    PROVE  InOrder(file \o es, es)
<1> DEFINE all == file \o es
           at == [i \in DOMAIN es |-> i + Len(file)]
<1>1. /\ Len(file) \in Nat /\ Len(es) \in Nat /\ DOMAIN es = 1..Len(es)
      /\ DOMAIN all = 1..(Len(file) + Len(es))
      /\ \A i \in 1..Len(es) : all[i + Len(file)] = es[i]
    OBVIOUS
<1> HIDE DEF all
<1>2. at \in [DOMAIN es -> DOMAIN all]
    BY <1>1
<1>3. \A i \in DOMAIN es : all[at[i]] = es[i]
    BY <1>1
<1>4. \A i, j \in DOMAIN es : i < j => at[i] < at[j]
    BY <1>1
<1> HIDE DEF at
<1> QED BY <1>2, <1>3, <1>4 DEF InOrder, all

(* What the search finds is in the file in order: it never goes back.      *)
LEMMA HoldsInOrder ==
    ASSUME NEW T, NEW U, NEW file \in Seq(T), NEW es \in Seq(U), HoldsRecorded(file, es)
    PROVE  InOrder(file, es)
<1>0. HasHits(file, es)
    BY HoldsSteps
<1>1. PICK h \in [0..Len(es) -> Nat] :
          /\ h[0] = 0 /\ (HoldsRecorded(file, es) <=> h[Len(es)] <= Len(file))
          /\ \A k \in 0..(Len(es) - 1) : h[k + 1] = AfterHit(file, h[k], es[k + 1])
    BY <1>0 DEF HasHits
<1> DEFINE n == Len(es)
<1>2. /\ n \in Nat /\ DOMAIN es = 1..n /\ Len(file) \in Nat /\ DOMAIN file = 1..Len(file)
      /\ \A k \in 0..n : h[k] \in Nat
      /\ h[n] <= Len(file)
    BY <1>1, LenProperties
<1>3. ASSUME NEW k \in 0..(n - 1)
      PROVE  /\ h[k] < h[k + 1] \/ h[k + 1] > Len(file)
             /\ h[k + 1] <= Len(file) => h[k + 1] \in 1..Len(file) /\ file[h[k + 1]] = es[k + 1]
                                         /\ h[k] < h[k + 1]
    <2> DEFINE hits == {i \in (h[k] + 1)..Len(file) : file[i] = es[k + 1]}
    <2>1. h[k] \in Nat /\ h[k + 1] = AfterHit(file, h[k], es[k + 1])
        BY <1>1, <1>2
    <2>2. CASE hits = {}
        BY <1>2, <2>1, <2>2 DEF AfterHit
    <2>3. CASE hits # {}
        <3>1. hits \subseteq Nat
            BY <1>2, <2>1
        <3>2. PICK m \in hits : \A y \in hits : m <= y
            BY <2>3, <3>1, LeastOf
        <3>3. Min(hits) \in hits
            BY <3>2 DEF Min
        <3>4. h[k + 1] = Min(hits)
            BY <2>1, <2>3 DEF AfterHit
        <3>5. PICK i \in hits : i = h[k + 1]
            BY <3>3, <3>4
        <3>6. i \in (h[k] + 1)..Len(file) /\ file[i] = es[k + 1]
            OBVIOUS
        <3> QED BY <1>2, <2>1, <3>5, <3>6
    <2> QED BY <2>2, <2>3
(* Walking back from the end: no position is past the end of the file.     *)
<1> DEFINE S == {d \in Nat : d <= n => h[n - d] <= Len(file)}
<1>4. 0 \in S
    BY <1>2
<1>5. ASSUME NEW d \in Nat, d \in S PROVE d + 1 \in S
    <2> SUFFICES ASSUME d + 1 <= n PROVE h[n - (d + 1)] <= Len(file)
        OBVIOUS
    <2>1. PICK k \in 0..(n - 1) : k = n - (d + 1) /\ k + 1 = n - d
        <3>1. n - (d + 1) \in 0..(n - 1) /\ (n - (d + 1)) + 1 = n - d
            BY <1>2
        <3> QED BY <3>1
    <2>2. h[k + 1] <= Len(file)
        BY <1>2, <1>5, <2>1
    <2>3. h[k] < h[k + 1] /\ h[k] \in Nat /\ h[k + 1] \in Nat
        BY <1>2, <1>3, <2>2
    <2> QED BY <1>2, <2>1, <2>2, <2>3
<1>6. \A k \in 0..n : h[k] <= Len(file)
    <2> SUFFICES ASSUME NEW k \in 0..n PROVE h[k] <= Len(file)
        OBVIOUS
    <2>1. Nat \subseteq S
        <3> HIDE DEF S
        <3> QED BY <1>4, <1>5, Inductive
    <2>2. PICK d \in Nat : n - d = k /\ d <= n
        <3>1. n - k \in Nat /\ n - (n - k) = k /\ n - k <= n
            BY <1>2
        <3> QED BY <3>1
    <2>3. d \in S
        BY <2>1
    <2> QED BY <2>2, <2>3
<1>7. \A k \in 0..(n - 1) : /\ h[k] < h[k + 1] /\ h[k + 1] \in DOMAIN file
                            /\ file[h[k + 1]] = es[k + 1]
    <2> SUFFICES ASSUME NEW k \in 0..(n - 1)
                 PROVE  /\ h[k] < h[k + 1] /\ h[k + 1] \in DOMAIN file
                        /\ file[h[k + 1]] = es[k + 1]
        OBVIOUS
    <2>1. k + 1 \in 0..n
        BY <1>2
    <2> QED BY <1>2, <1>3, <1>6, <2>1
<1> DEFINE R == {d \in Nat : \A i \in 0..n : i + d + 1 <= n => h[i] < h[i + d + 1]}
<1>8. 0 \in R
    <2> SUFFICES ASSUME NEW i \in 0..n, i + 0 + 1 <= n PROVE h[i] < h[i + 0 + 1]
        OBVIOUS
    <2>1. i \in 0..(n - 1) /\ i + 0 + 1 = i + 1
        BY <1>2
    <2> QED BY <1>7, <2>1
<1>9. ASSUME NEW d \in Nat, d \in R PROVE d + 1 \in R
    <2> SUFFICES ASSUME NEW i \in 0..n, i + (d + 1) + 1 <= n
                 PROVE  h[i] < h[i + (d + 1) + 1]
        OBVIOUS
    <2>1. PICK k \in 0..(n - 1) : k = i + d + 1 /\ k + 1 = i + (d + 1) + 1
        <3>1. i + d + 1 \in 0..(n - 1) /\ (i + d + 1) + 1 = i + (d + 1) + 1
            BY <1>2
        <3> QED BY <3>1
    <2>2. h[i] < h[k]
        <3>1. i + d + 1 <= n
            BY <1>2
        <3>2. h[i] < h[i + d + 1]
            BY <1>9, <3>1
        <3> QED BY <2>1, <3>2
    <2>3. h[k] < h[k + 1] /\ k + 1 \in 0..n
        BY <1>2, <1>7
    <2>4. h[i] \in Nat /\ h[k] \in Nat /\ h[k + 1] \in Nat
        BY <1>2, <2>3
    <2> QED BY <2>1, <2>2, <2>3, <2>4
<1>10. \A i, j \in 1..n : i < j => h[i] < h[j]
    <2> SUFFICES ASSUME NEW i \in 1..n, NEW j \in 1..n, i < j PROVE h[i] < h[j]
        OBVIOUS
    <2>1. Nat \subseteq R
        <3> HIDE DEF R
        <3> QED BY <1>8, <1>9, Inductive
    <2>2. PICK d \in Nat : i + d + 1 = j
        <3>1. j - i - 1 \in Nat /\ i + (j - i - 1) + 1 = j
            BY <1>2
        <3> QED BY <3>1
    <2>3. i \in 0..n /\ i + d + 1 <= n
        BY <1>2, <2>2
    <2>4. d \in R
        <3> HIDE DEF R
        <3> QED BY <2>1
    <2>5. h[i] < h[i + d + 1]
        BY <2>3, <2>4
    <2> QED BY <2>2, <2>5
<1> DEFINE at == [i \in DOMAIN es |-> h[i]]
<1>11. ASSUME NEW i \in DOMAIN es PROVE h[i] \in DOMAIN file /\ file[h[i]] = es[i]
    <2>1. PICK k \in 0..(n - 1) : k + 1 = i
        <3>1. i - 1 \in 0..(n - 1) /\ (i - 1) + 1 = i
            BY <1>2
        <3> QED BY <3>1
    <2> QED BY <1>7, <2>1
<1>12. /\ at \in [DOMAIN es -> DOMAIN file]
       /\ \A i \in DOMAIN es : file[at[i]] = es[i]
       /\ \A i, j \in DOMAIN es : i < j => at[i] < at[j]
    BY <1>2, <1>10, <1>11
<1> HIDE DEF at
<1> QED BY <1>12 DEF InOrder

(* A sync wants no hook twice, as no source lists one twice.               *)
LEMMA WantsIs ==
    ASSUME NEW c, c.hooks \in Seq(Ranked), Distinct(c.hooks), NEW withheld,
           lockFile.hooks \in Books
    PROVE  Wants(c, withheld) \in Seq(Emission) /\ Distinct(Wants(c, withheld))
<1>1. CASE ~c.managed
    <2>1. Wants(c, withheld) = << >>
        BY <1>1, WantSteps DEF Books
    <2>2. << >> \in Seq(Emission) /\ DOMAIN << >> = {}
        OBVIOUS
    <2> QED BY <2>1, <2>2 DEF Distinct
<1>2. CASE c.managed
    <2> DEFINE hs == c.hooks  n == Len(hs)
               Taken(r) == ~(r.name \in withheld \/ Content(r) = None)
               New(r) == [name |-> r.name, entries |-> Content(r)]
    <2>1. PICK h \in [0..n -> Seq(Emission)] :
              /\ h[0] = << >> /\ h[n] = Wants(c, withheld)
              /\ \A k \in 0..(n - 1) :
                     h[k + 1] = IF ~Taken(hs[k + 1]) THEN h[k]
                                ELSE Append(h[k], New(hs[k + 1]))
        <3>1. PICK h \in [0..Len(c.hooks) -> Seq(Emission)] :
                  /\ h[0] = << >> /\ h[Len(c.hooks)] = Wants(c, withheld)
                  /\ \A k \in 0..(Len(c.hooks) - 1) : LET r == c.hooks[k + 1] IN
                      h[k + 1] = IF r.name \in withheld \/ Content(r) = None THEN h[k]
                                 ELSE Append(h[k], [name |-> r.name, entries |-> Content(r)])
            <4>1. HasEmissions(c.hooks, withheld, Wants(c, withheld))
                BY <1>2, WantSteps DEF Books
            <4> QED BY <4>1 DEF HasEmissions
        <3>2. \A k \in 0..(n - 1) : h[k + 1] = IF ~Taken(hs[k + 1]) THEN h[k]
                                               ELSE Append(h[k], New(hs[k + 1]))
            BY <3>1
        <3> HIDE DEF Taken, New
        <3> QED BY <3>1, <3>2
    <2>2. n \in Nat /\ DOMAIN hs = 1..n /\ \A k \in 1..n : hs[k] \in Ranked
        BY LenProperties, ElementOfSeq
    <2>3. \A k \in 1..n : Taken(hs[k]) => New(hs[k]) \in Emission
        <3>1. \A k \in 1..n : Taken(hs[k]) => Content(hs[k]) \in Seq(Entry)
            BY <2>2 DEF Ranked, Content, Books
        <3> QED BY <2>2, <3>1 DEF Ranked, Emission
    <2> DEFINE Names(k) ==
                   /\ Distinct(h[k])
                   /\ \A i \in DOMAIN h[k] : \E j \in 1..k : h[k][i].name = hs[j].name
               S == {k \in Nat : k <= n => Names(k)}
    <2>4. 0 \in S
        <3>1. DOMAIN h[0] = {}
            BY <2>1
        <3> QED BY <3>1 DEF Distinct
    <2>5. ASSUME NEW k \in Nat, k \in S PROVE k + 1 \in S
        <3> SUFFICES ASSUME k + 1 <= n PROVE Names(k + 1)
            OBVIOUS
        <3>1. /\ k \in 0..(n - 1) /\ k \in 0..n /\ k + 1 \in 1..n /\ Names(k)
            BY <2>2, <2>5
        <3>2. h[k] \in Seq(Emission)
            BY <3>1
        <3>3. CASE ~Taken(hs[k + 1])
            <4>1. h[k + 1] = h[k]
                BY <2>1, <3>1, <3>3
            <4>2. \A j \in 1..k : j \in 1..(k + 1)
                OBVIOUS
            <4> QED BY <3>1, <4>1, <4>2
        <3>4. CASE Taken(hs[k + 1])
            <4> DEFINE x == New(hs[k + 1])  p == h[k]
            <4>1. x \in Emission /\ x.name = hs[k + 1].name
                BY <2>3, <3>1, <3>4
            <4>2. h[k + 1] = Append(p, x)
                BY <2>1, <3>1, <3>4
            <4> HIDE DEF x
            <4>3. /\ DOMAIN Append(p, x) = (DOMAIN p) \cup {Len(p) + 1}
                  /\ DOMAIN p = 1..Len(p) /\ Len(p) \in Nat
                  /\ \A i \in DOMAIN p : Append(p, x)[i] = p[i]
                  /\ Append(p, x)[Len(p) + 1] = x
                BY <3>2, <4>1, AppendProperties, LenProperties
            <4>4. \A i \in DOMAIN p : p[i].name # x.name
                <5> SUFFICES ASSUME NEW i \in DOMAIN p, p[i].name = x.name PROVE FALSE
                    OBVIOUS
                <5>1. PICK j \in 1..k : p[i].name = hs[j].name
                    BY <3>1
                <5>2. j \in DOMAIN hs /\ k + 1 \in DOMAIN hs /\ j # k + 1
                    BY <2>2, <3>1
                <5> QED BY <4>1, <5>1, <5>2 DEF Distinct
            <4>5. Distinct(Append(p, x))
                <5>1. Distinct(p)
                    BY <3>1
                <5> HIDE DEF p
                <5> QED BY <4>3, <4>4, <5>1 DEF Distinct
            <4>6. \A i \in DOMAIN Append(p, x) :
                      \E j \in 1..(k + 1) : Append(p, x)[i].name = hs[j].name
                <5> SUFFICES ASSUME NEW i \in DOMAIN Append(p, x)
                             PROVE  \E j \in 1..(k + 1) : Append(p, x)[i].name = hs[j].name
                    OBVIOUS
                <5>1. CASE i \in DOMAIN p
                    <6>1. PICK j \in 1..k : p[i].name = hs[j].name
                        BY <3>1, <5>1
                    <6>2. j \in 1..(k + 1)
                        OBVIOUS
                    <6> QED BY <4>3, <5>1, <6>1, <6>2
                <5>2. CASE i = Len(p) + 1
                    <6>1. k + 1 \in 1..(k + 1)
                        OBVIOUS
                    <6> QED BY <4>1, <4>3, <5>2, <6>1
                <5> QED BY <4>3, <5>1, <5>2
            <4> QED BY <4>2, <4>5, <4>6
        <3> QED BY <3>3, <3>4
    <2>6. Names(n)
        <3>1. n \in S
            <4> HIDE DEF S
            <4> QED BY <2>2, <2>4, <2>5, Inductive
        <3> QED BY <2>2, <3>1
    <2>7. n \in 0..n
        BY <2>2
    <2> QED BY <2>1, <2>6, <2>7
<1> QED BY <1>1, <1>2

-----------------------------------------------------------------------------
(* The user's edits of the array                                           *)

LEMMA InsertCount ==
    ASSUME NEW T, NEW s \in Seq(T), NEW i \in 1..(Len(s) + 1), NEW u \in T
    PROVE  /\ InsertAt(s, i, u) \in Seq(T)
           /\ \A e : e # u => Count(InsertAt(s, i, u), e) = Count(s, e)
<1> DEFINE a == SubSeq(s, 1, i - 1)  b == SubSeq(s, i, Len(s))
<1>1. Len(s) \in Nat /\ \A j \in 1..Len(s) : s[j] \in T
    BY LenProperties, ElementOfSeq
<1>2. a \in Seq(T)
    <2>1. \A j \in 1..(i - 1) : s[j] \in T
        BY <1>1
    <2> QED BY <1>1, <2>1, SubSeqProperties
<1>3. b \in Seq(T)
    <2>1. \A j \in i..Len(s) : s[j] \in T
        BY <1>1
    <2> QED BY <1>1, <2>1, SubSeqProperties
<1>4. s = a \o b
    <2>1. PICK m \in 0..Len(s) : m = i - 1 /\ m + 1 = i
        <3>1. i - 1 \in 0..Len(s) /\ (i - 1) + 1 = i
            BY <1>1
        <3> QED BY <3>1
    <2>2. SubSeq(s, 1, m) \o SubSeq(s, m + 1, Len(s)) = SubSeq(s, 1, Len(s))
        <3>1. /\ 1 \in 1..(Len(s) + 1) /\ m \in (1 - 1)..Len(s) /\ Len(s) \in m..Len(s)
            BY <1>1
        <3> QED BY <3>1, ConcatAdjacentSubSeq
    <2>3. SubSeq(s, 1, Len(s)) = s
        BY SubSeqFull
    <2> QED BY <2>1, <2>2, <2>3
<1>5. InsertAt(s, i, u) = (a \o <<u>>) \o b
    BY DEF InsertAt
<1> HIDE DEF a, b
<1>6. <<u>> \in Seq(T)
    OBVIOUS
<1>7. a \o <<u>> \in Seq(T) /\ (a \o <<u>>) \o b \in Seq(T)
    BY <1>2, <1>3, <1>6, ConcatProperties
<1>8. ASSUME NEW e, e # u PROVE Count((a \o <<u>>) \o b, e) = Count(s, e)
    <2>1. Count((a \o <<u>>) \o b, e) = Count(a \o <<u>>, e) + Count(b, e)
        BY <1>3, <1>7, CountConcat
    <2>2. Count(a \o <<u>>, e) = Count(a, e) + Count(<<u>>, e)
        BY <1>2, <1>6, CountConcat
    <2>3. Count(a \o b, e) = Count(a, e) + Count(b, e)
        BY <1>2, <1>3, CountConcat
    <2>4. Count(<<u>>, e) = 0
        BY <1>8, CountOne
    <2>5. Count(a, e) \in Nat /\ Count(b, e) \in Nat
        BY <1>2, <1>3, CountType
    <2> QED BY <1>4, <2>1, <2>2, <2>3, <2>4, <2>5
<1> QED BY <1>5, <1>7, <1>8

LEMMA ReplaceCount ==
    ASSUME NEW T, NEW s \in Seq(T), NEW i \in DOMAIN s, NEW u \in T
    PROVE  /\ ReplaceAt(s, i, u) \in Seq(T)
           /\ \A e : e # u => Count(ReplaceAt(s, i, u), e) <= Count(s, e)
<1> DEFINE t == [s EXCEPT ![i] = u]
<1>1. t \in Seq(T) /\ DOMAIN t = DOMAIN s /\ \A j \in DOMAIN s : t[j] = IF j = i THEN u ELSE s[j]
    <2>1. s \in [1..Len(s) -> T] /\ Len(s) \in Nat
        BY LenProperties
    <2>2. t \in [1..Len(s) -> T]
        BY <2>1
    <2>3. t \in Seq(T)
        <3> HIDE DEF t
        <3> QED BY <2>1, <2>2
    <2> QED BY <2>1, <2>3
<1>2. ReplaceAt(s, i, u) = t
    BY DEF ReplaceAt
<1>3. ASSUME NEW e, e # u PROVE Count(t, e) <= Count(s, e)
    <2> DEFINE A == {j \in DOMAIN t : t[j] = e}  B == {j \in DOMAIN s : s[j] = e}
    <2> HIDE DEF t
    <2>1. A \in SUBSET B
        BY <1>1, <1>3
    <2>2. IsFiniteSet(B)
        BY CountType
    <2>3. Cardinality(A) <= Cardinality(B)
        <3> HIDE DEF A, B
        <3> QED BY <2>1, <2>2, FS_Subset
    <2> QED BY <2>3 DEF Count
<1> QED BY <1>1, <1>2, <1>3

LEMMA SwapCount ==
    ASSUME NEW T, NEW s \in Seq(T), NEW i \in 1..(Len(s) - 1), NEW t,
           t = [s EXCEPT ![i] = s[i + 1], ![i + 1] = s[i]]
    PROVE  /\ t \in Seq(T)
           /\ \A e : Count(t, e) <= Count(s, e)
<1>1. Len(s) \in Nat /\ DOMAIN s = 1..Len(s) /\ \A j \in 1..Len(s) : s[j] \in T
    BY LenProperties, ElementOfSeq
<1>2. i \in 1..Len(s) /\ i + 1 \in 1..Len(s) /\ i # i + 1
    BY <1>1
<1>3. DOMAIN t = 1..Len(s) /\ \A j \in 1..Len(s) :
          t[j] = IF j = i THEN s[i + 1] ELSE IF j = i + 1 THEN s[i] ELSE s[j]
    BY <1>1, <1>2
<1>4. t \in Seq(T)
    <2>1. \A j \in 1..Len(s) : t[j] \in T
        BY <1>1, <1>2, <1>3
    <2>2. t = [j \in 1..Len(s) |-> t[j]]
        BY <1>1
    <2>3. t \in [1..Len(s) -> T]
        BY <2>1, <2>2
    <2> QED BY <1>1, <2>3
<1>5. ASSUME NEW e PROVE Count(t, e) <= Count(s, e)
    <2> DEFINE A == {j \in DOMAIN t : t[j] = e}  B == {j \in DOMAIN s : s[j] = e}
               f == [j \in A |-> IF j = i THEN i + 1 ELSE IF j = i + 1 THEN i ELSE j]
    <2>1. f \in [A -> B]
        BY <1>1, <1>2, <1>3
    <2>2. \A j, k \in A : f[j] = f[k] => j = k
        BY <1>1, <1>2, <1>3
    <2>3. IsFiniteSet(B)
        BY CountType
    <2>4. Cardinality(A) <= Cardinality(B)
        <3> HIDE DEF A, B, f
        <3>1. f \in Injection(A, B)
            BY <2>1, <2>2, Fun_IsInj
        <3> QED BY <2>3, <3>1, FS_Injection
    <2> QED BY <2>4 DEF Count
<1> QED BY <1>4, <1>5

-----------------------------------------------------------------------------
(* The inductive invariant                                                 *)

Stages == {"idle", "remove", "mcp", "write", "save", "publish"}
Reaches == {"none", "unchanged", "removed", "retained", "written", "lost"}
Defined == [Server -> Value \cup {None}]

TypeOK ==
    /\ config \in Config /\ Distinct(config.hooks)
    /\ hookFile \in Seq(Entry \cup UserEntry)
    /\ mcpFile \in [Server -> Value \cup UserValue \cup {None}]
    /\ lockFile \in [hooks : Books, servers : Defined]
    /\ pc \in Stages
    /\ cmd \in Command
    /\ want \in Seq(Emission) /\ Distinct(want)
    /\ wantServers \in Defined
    /\ outcome \in Reaches
    /\ servers \in Defined
    /\ owner \in [Server -> {"none", "user", "mars"}]
    /\ stray \in [entries : [Entry -> Nat], servers : SUBSET Server]
    /\ clean \in BOOLEAN
    /\ edits \in Nat /\ changes \in Nat /\ faults \in Nat

(* How far the hook entries came fits where the session is, and hooks are  *)
(* found unchanged only if what is to be emitted is what is recorded.      *)
OutcomeInv ==
    /\ pc \in {"idle", "remove"} => outcome \in {"none", "unchanged"}
    /\ pc \notin {"idle", "remove"} => outcome # "none"
    /\ pc \in {"mcp", "write", "save"} => outcome \in {"unchanged", "removed", "retained"}
    /\ outcome = "unchanged" => HookRecords(want) = lockFile.hooks

(* Until the removal, and when it fails, the records count the entries of  *)
(* packages in the file; once it is done there are none but those that a   *)
(* killed session left; and what is written the session's hooks count.     *)
HookInv == \A e \in Entry :
    /\ outcome \in {"none", "unchanged", "retained"} =>
           Count(hookFile, e) <= Count(Recorded(lockFile), e) + stray.entries[e]
    /\ outcome \in {"removed", "lost"} => Count(hookFile, e) <= stray.entries[e]
    /\ outcome = "written" =>
           Count(hookFile, e) <= Count(Emitted(want), e) + stray.entries[e]

(* The records that the reconcile returned stand for those of mars.lock    *)
(* until they are published: a definition that Mars wrote is one of them.  *)
Standing == IF pc \in {"write", "save", "publish"} THEN servers ELSE lockFile.servers
ServerInv == \A s \in Server :
    /\ owner[s] = "none" => mcpFile[s] = None
    /\ owner[s] = "user" => mcpFile[s] # None
    /\ owner[s] = "mars" => Standing[s] = mcpFile[s] \/ s \in stray.servers

(* A sync that has met no failure and no edit has not given up on a hook,  *)
(* has the wanted entries in the file in order once it takes them for      *)
(* unchanged or has written them, and has the wanted servers in their file *)
(* once it has reconciled them.                                            *)
Settling == clean /\ cmd.kind = "sync" /\ pc # "idle"
CleanInv == Settling =>
    /\ pc # "save"
    /\ outcome \in {"unchanged", "written"} => InOrder(hookFile, Emitted(want))
    /\ outcome \notin {"retained", "lost"}
    /\ pc = "publish" /\ outcome = "removed" => want = << >>
    /\ pc \in {"write", "publish"} => \A s \in Server :
           wantServers[s] # None /\ owner[s] # "user" /\ s \notin stray.servers
               => mcpFile[s] = wantServers[s]

IInv == TypeOK /\ OutcomeInv /\ HookInv /\ ServerInv /\ CleanInv

LEMMA EntryTypes ==
    /\ Entry \cap UserEntry = {} /\ None \notin Value /\ None \notin UserValue
    /\ \A es \in Seq(Entry) : es \in Seq(Entry \cup UserEntry)
    /\ NoHooks \in Books /\ NoServers \in Defined
    /\ \A s \in Server : NoServers[s] = None
<1>1. \A es \in Seq(Entry) : es \in Seq(Entry \cup UserEntry)
    BY SeqMonotonic
<1> QED BY <1>1, EntryAssumption DEF NoHooks, Books, NoServers, Defined

LEMMA Counts ==
    ASSUME TypeOK, NEW e
    PROVE  /\ Count(hookFile, e) \in Nat
           /\ Count(Recorded(lockFile), e) \in Nat
           /\ Count(Emitted(want), e) \in Nat
           /\ Recorded(lockFile) \in Seq(Entry) /\ Emitted(want) \in Seq(Entry)
<1>1. hookFile \in Seq(Entry \cup UserEntry) /\ lockFile.hooks \in Books
      /\ want \in Seq(Emission)
    BY DEF TypeOK
<1>2. Recorded(lockFile) \in Seq(Entry)
    BY <1>1, BlocksType
<1>3. Emitted(want) \in Seq(Entry)
    BY <1>1, EmittedType
<1> QED BY <1>1, <1>2, <1>3, CountType

LEMMA RecordedSame ==
    ASSUME NEW a, NEW b, a.hooks = b.hooks
    PROVE  Recorded(a) = Recorded(b)
BY DEF Recorded

-----------------------------------------------------------------------------
(* Every step keeps the invariant                                          *)

LEMMA InitInv == Init => IInv
<1> SUFFICES ASSUME Init PROVE IInv
    OBVIOUS
<1> USE DEF Init
<1>1. TypeOK
    <2>1. config \in Config /\ Distinct(config.hooks)
        BY ConfigAssumption DEF Distinct
    <2>2. want = << >> /\ want \in Seq(Emission) /\ Distinct(want)
        BY DEF Distinct
    <2>3. hookFile \in Seq(Entry \cup UserEntry)
        OBVIOUS
    <2>4. lockFile \in [hooks : Books, servers : Defined] /\ NoServers \in Defined
        BY EntryTypes
    <2>5. cmd \in Command
        BY DEF Command, NoCmd
    <2>6. mcpFile \in [Server -> Value \cup UserValue \cup {None}]
        BY DEF NoServers
    <2> QED BY <2>1, <2>2, <2>3, <2>4, <2>5, <2>6 DEF TypeOK, Stages, Reaches
<1>2. HookInv
    <2>1. \A e \in Entry : Count(hookFile, e) = 0 /\ stray.entries[e] = 0
        BY CountEmpty
    <2>2. \A e \in Entry : Count(Recorded(lockFile), e) \in Nat
        BY <1>1, Counts
    <2>3. outcome = "none"
        OBVIOUS
    <2> QED BY <2>1, <2>2, <2>3 DEF HookInv
<1> QED BY <1>1, <1>2 DEF IInv, OutcomeInv, ServerInv, CleanInv, Settling, NoServers

LEMMA SyncInv ==
    ASSUME IInv, NEW force \in BOOLEAN, Sync(force)
    PROVE  IInv'
<1> USE DEF Sync, disk, bounds
<1>1. PICK withheld \in Withheld : /\ want' = Wants(config, withheld)
                                   /\ wantServers' = WantsServers(config, withheld)
    OBVIOUS
<1>2. TypeOK'
    <2>1. want' \in Seq(Emission) /\ Distinct(want')
        <3>1. config.hooks \in Seq(Ranked) /\ Distinct(config.hooks) /\ lockFile.hooks \in Books
            BY DEF IInv, TypeOK, Config
        <3> QED BY <1>1, <3>1, WantsIs
    <2>2. wantServers' \in Defined
        <3>1. config.servers \in Defined /\ lockFile.servers \in Defined
            BY DEF IInv, TypeOK, Config, Defined
        <3> QED BY <1>1, <3>1 DEF WantsServers, Defined
    <2>3. cmd' \in Command
        BY DEF Command
    <2>4. Distinct(config.hooks)' /\ Distinct(want)'
        BY <2>1 DEF IInv, TypeOK
    <2> QED BY <2>1, <2>2, <2>3, <2>4 DEF IInv, TypeOK, Stages, Reaches
<1>3. outcome' = "unchanged" => HookRecords(want') = lockFile.hooks
                                /\ HoldsRecorded(hookFile, Emitted(want'))
    BY DEF Unchanged
<1>4. OutcomeInv'
    BY <1>3 DEF OutcomeInv
<1>5. HookInv'
    <2>1. pc = "idle" /\ outcome \in {"none", "unchanged"} /\ outcome' \in {"none", "unchanged"}
        BY DEF IInv, OutcomeInv
    <2> QED BY <2>1 DEF IInv, HookInv
<1>6. ServerInv'
    BY DEF IInv, ServerInv, Standing
<1>7. CleanInv'
    <2>1. outcome' = "unchanged" => InOrder(hookFile, Emitted(want'))
        <3>1. want' \in Seq(Emission) /\ hookFile \in Seq(Entry \cup UserEntry)
            BY <1>2 DEF TypeOK
        <3>2. Emitted(want') \in Seq(Entry)
            BY <3>1, EmittedType
        <3> QED BY <1>3, <3>1, <3>2, HoldsInOrder
    <2> QED BY <2>1 DEF CleanInv
<1> QED BY <1>2, <1>4, <1>5, <1>6, <1>7 DEF IInv

LEMMA UnlinkInv ==
    ASSUME IInv, Unlink
    PROVE  IInv'
<1> USE DEF Unlink, disk, bounds
<1>1. TypeOK'
    <2>1. Distinct(config.hooks)' /\ Distinct(want)'
        BY DEF IInv, TypeOK
    <2> QED BY <2>1 DEF IInv, TypeOK, Command, Stages
<1>2. OutcomeInv'
    BY DEF IInv, OutcomeInv
<1>3. HookInv'
    BY DEF IInv, HookInv
<1>4. ServerInv'
    BY DEF IInv, ServerInv, Standing
<1>5. CleanInv'
    BY DEF CleanInv, Settling
<1> QED BY <1>1, <1>2, <1>3, <1>4, <1>5 DEF IInv

LEMMA RemoveHooksInv ==
    ASSUME IInv, RemoveHooks
    PROVE  IInv'
<1> USE DEF RemoveHooks, bounds
<1>0. TypeOK /\ pc = "remove" /\ outcome \in {"none", "unchanged"}
    BY DEF IInv, OutcomeInv
<1>1. Recorded(lockFile) \in Seq(Entry) /\ Recorded(lockFile) \in Seq(Entry \cup UserEntry)
      /\ hookFile \in Seq(Entry \cup UserEntry)
    BY <1>0, Counts, EntryTypes DEF TypeOK
<1>2. TypeOK'
    <2>1. RemoveEntries(hookFile, Recorded(lockFile)) \in Seq(Entry \cup UserEntry)
        BY <1>1, RemoveEntriesCount
    <2>2. hookFile' \in Seq(Entry \cup UserEntry)
        BY <1>1, <2>1
    <2>3. Distinct(config.hooks)' /\ Distinct(want)'
        BY <1>0 DEF TypeOK
    <2>4. outcome' \in Reaches /\ pc' \in Stages
        BY <1>0 DEF Reaches, Stages
    <2> QED BY <1>0, <2>2, <2>3, <2>4 DEF TypeOK
<1>3. OutcomeInv'
    BY <1>0 DEF IInv, OutcomeInv
<1>4. HookInv'
    <2>1. CASE outcome = "unchanged"
        BY <2>1 DEF IInv, HookInv
    <2>2. CASE outcome # "unchanged"
        <3> SUFFICES ASSUME NEW e \in Entry
                     PROVE  Count(hookFile', e) <= stray.entries[e]
            BY <2>2 DEF HookInv
        <3> DEFINE n == Count(hookFile, e)  r == Count(Recorded(lockFile), e)
                   rest == Count(RemoveEntries(hookFile, Recorded(lockFile)), e)
                   x == stray.entries[e]
        <3>1. n <= r + x
            BY <1>0 DEF IInv, HookInv
        <3>2. rest = 0 \/ rest + r <= n
            BY <1>1, RemoveEntriesCount
        <3>3. RemoveEntries(hookFile, Recorded(lockFile)) \in Seq(Entry \cup UserEntry)
            BY <1>1, RemoveEntriesCount
        <3>4. rest \in Nat /\ n \in Nat /\ r \in Nat
            BY <1>0, <3>3, Counts, CountType
        <3>5. x \in Nat
            BY <1>0 DEF TypeOK
        <3>6. hookFile' = RemoveEntries(hookFile, Recorded(lockFile))
            BY <2>2
        <3>7. rest <= x
            <4> HIDE DEF n, r, rest, x
            <4> QED BY <3>1, <3>2, <3>4, <3>5
        <3> QED BY <3>6, <3>7
    <2> QED BY <2>1, <2>2
<1>5. ServerInv'
    BY DEF IInv, ServerInv, Standing
<1>6. CleanInv'
    <2>1. CASE outcome = "unchanged"
        BY <1>0, <2>1 DEF IInv, CleanInv, Settling
    <2>2. CASE outcome # "unchanged"
        BY <1>0, <2>2 DEF IInv, CleanInv, Settling
    <2> QED BY <2>1, <2>2
<1> QED BY <1>2, <1>3, <1>4, <1>5, <1>6 DEF IInv

LEMMA RemovalFailsInv ==
    ASSUME IInv, RemovalFails
    PROVE  IInv'
<1> USE DEF RemovalFails, disk
<1>1. TypeOK'
    <2>1. Distinct(config.hooks)' /\ Distinct(want)'
        BY DEF IInv, TypeOK
    <2>2. TypeOK /\ faults' \in Nat /\ pc' \in Stages /\ outcome' \in Reaches
        <3>1. TypeOK /\ faults \in Nat
            BY DEF IInv, TypeOK
        <3> QED BY <3>1 DEF Stages, Reaches
    <2>3. UNCHANGED <<config, hookFile, mcpFile, lockFile, cmd, want, wantServers, servers,
                      owner, stray, edits, changes>>
        OBVIOUS
    <2> QED BY <2>1, <2>2, <2>3 DEF TypeOK
<1>2. OutcomeInv'
    BY DEF IInv, OutcomeInv
<1>3. HookInv'
    BY DEF IInv, HookInv
<1>4. ServerInv'
    BY DEF IInv, ServerInv, Standing
<1>5. CleanInv'
    BY DEF CleanInv, Settling
<1> QED BY <1>1, <1>2, <1>3, <1>4, <1>5 DEF IInv

LEMMA WriteHooksInv ==
    ASSUME IInv, WriteHooks
    PROVE  IInv'
<1> USE DEF WriteHooks, bounds, WritePermit
<1>0. TypeOK /\ pc = "write" /\ outcome \in {"unchanged", "removed", "retained"}
    BY DEF IInv, OutcomeInv
<1> DEFINE T == Entry \cup UserEntry
<1>1. hookFile \in Seq(T) /\ Emitted(want) \in Seq(Entry) /\ Emitted(want) \in Seq(T)
    BY <1>0, Counts, EntryTypes DEF TypeOK
<1>2. TypeOK'
    <2>1. hookFile' \in Seq(T)
        <3>1. hookFile \o Emitted(want) \in Seq(T)
            BY <1>1, ConcatProperties
        <3> QED BY <1>1, <3>1
    <2>2. Distinct(config.hooks)' /\ Distinct(want)'
        BY <1>0 DEF TypeOK
    <2>3. outcome' \in Reaches /\ pc' \in Stages
        BY <1>0 DEF Reaches, Stages
    <2> QED BY <1>0, <2>1, <2>2, <2>3 DEF TypeOK
<1>3. OutcomeInv'
    BY <1>0 DEF IInv, OutcomeInv
<1>4. CASE want # << >> /\ outcome = "removed"
    <2>1. hookFile' = hookFile \o Emitted(want) /\ outcome' = "written"
        BY <1>4
    <2>2. HookInv'
        <3> SUFFICES ASSUME NEW e \in Entry
                     PROVE  Count(hookFile', e) <= Count(Emitted(want), e) + stray.entries[e]
            BY <2>1 DEF HookInv
        <3>1. Count(hookFile \o Emitted(want), e) = Count(hookFile, e) + Count(Emitted(want), e)
            <4> HIDE DEF T
            <4> QED BY <1>1, CountConcat
        <3>2. Count(hookFile, e) <= stray.entries[e]
            BY <1>4 DEF IInv, HookInv
        <3>3. Count(hookFile, e) \in Nat /\ Count(Emitted(want), e) \in Nat
              /\ stray.entries[e] \in Nat
            BY <1>0, Counts DEF TypeOK
        <3> QED BY <2>1, <3>1, <3>2, <3>3
    <2>3. InOrder(hookFile', Emitted(want'))
        <3>1. InOrder(hookFile \o Emitted(want), Emitted(want))
            <4> HIDE DEF T
            <4> QED BY <1>1, InOrderConcat
        <3> QED BY <2>1, <3>1
    <2>4. ServerInv'
        BY DEF IInv, ServerInv, Standing
    <2>5. CleanInv'
        BY <1>0, <2>1, <2>3 DEF IInv, CleanInv, Settling
    <2> QED BY <1>2, <1>3, <2>2, <2>4, <2>5 DEF IInv
<1>5. CASE ~(want # << >> /\ outcome = "removed")
    <2>1. hookFile' = hookFile /\ outcome' = outcome
        BY <1>5
    <2>2. HookInv'
        BY <2>1 DEF IInv, HookInv
    <2>3. ServerInv'
        BY DEF IInv, ServerInv, Standing
    <2>4. CleanInv'
        BY <1>0, <1>5, <2>1 DEF IInv, CleanInv, Settling
    <2> QED BY <1>2, <1>3, <2>2, <2>3, <2>4 DEF IInv
<1> QED BY <1>4, <1>5

LEMMA WriteFailsInv ==
    ASSUME IInv, WriteFails
    PROVE  IInv'
<1> USE DEF WriteFails, disk, WritePermit
<1>1. TypeOK'
    <2>1. Distinct(config.hooks)' /\ Distinct(want)'
        BY DEF IInv, TypeOK
    <2>2. TypeOK /\ faults' \in Nat /\ pc' \in Stages /\ outcome' \in Reaches
        <3>1. TypeOK /\ faults \in Nat
            BY DEF IInv, TypeOK
        <3> QED BY <3>1 DEF Stages, Reaches
    <2>3. UNCHANGED <<config, hookFile, mcpFile, lockFile, cmd, want, wantServers, servers,
                      owner, stray, edits, changes>>
        OBVIOUS
    <2> QED BY <2>1, <2>2, <2>3 DEF TypeOK
<1>2. OutcomeInv'
    BY DEF IInv, OutcomeInv
<1>3. HookInv'
    BY DEF IInv, HookInv
<1>4. ServerInv'
    BY DEF IInv, ServerInv, Standing
<1>5. CleanInv'
    BY DEF CleanInv, Settling
<1> QED BY <1>1, <1>2, <1>3, <1>4, <1>5 DEF IInv

LEMMA ReconcileMcpInv ==
    ASSUME IInv, ReconcileMcp
    PROVE  IInv'
<1> USE DEF ReconcileMcp, bounds
<1>0. /\ TypeOK /\ pc = "mcp" /\ outcome \in {"unchanged", "removed", "retained"}
      /\ pc' = IF cmd.kind = "unlink" THEN "save" ELSE "write"
    BY DEF IInv, OutcomeInv, AfterMcp
<1>1. ASSUME NEW s \in Server
      PROVE  /\ mcpFile'[s] = Reconciled(s) /\ servers'[s] = ServerRecord(s)
             /\ owner'[s] = IF mcpFile'[s] = mcpFile[s] THEN owner[s]
                            ELSE IF mcpFile'[s] = None THEN "none" ELSE "mars"
             /\ mcpFile'[s] \in Value \cup UserValue \cup {None}
             /\ servers'[s] \in Value \cup {None}
             /\ owner[s] \in {"none", "user", "mars"}
    <2>1. /\ mcpFile[s] \in Value \cup UserValue \cup {None}
          /\ wantServers[s] \in Value \cup {None} /\ lockFile.servers[s] \in Value \cup {None}
          /\ owner[s] \in {"none", "user", "mars"}
        BY <1>0 DEF TypeOK, Defined
    <2>2. Reconciled(s) \in Value \cup UserValue \cup {None}
        BY <2>1 DEF Reconciled
    <2>3. ServerRecord(s) \in Value \cup {None}
        BY <2>1 DEF ServerRecord
    <2>4. mcpFile'[s] = Reconciled(s) /\ servers'[s] = ServerRecord(s)
        OBVIOUS
    <2>5. owner'[s] = IF mcpFile'[s] = mcpFile[s] THEN owner[s]
                      ELSE IF mcpFile'[s] = None THEN "none" ELSE "mars"
        OBVIOUS
    <2> QED BY <2>1, <2>2, <2>3, <2>4, <2>5
<1>2. TypeOK'
    <2>1. mcpFile' \in [Server -> Value \cup UserValue \cup {None}]
        BY <1>1
    <2>2. servers' \in Defined
        BY <1>1 DEF Defined
    <2>3. owner' \in [Server -> {"none", "user", "mars"}]
        BY <1>1
    <2>4. Distinct(config.hooks)' /\ Distinct(want)' /\ pc' \in Stages
        BY <1>0 DEF TypeOK, Stages
    <2> QED BY <1>0, <2>1, <2>2, <2>3, <2>4 DEF TypeOK
<1>3. OutcomeInv'
    BY <1>0 DEF IInv, OutcomeInv
<1>4. HookInv'
    BY DEF IInv, HookInv
<1>5. ASSUME NEW s \in Server
      PROVE  /\ owner[s] = "none" => mcpFile[s] = None
             /\ owner[s] = "user" => mcpFile[s] # None
             /\ owner[s] = "mars" => lockFile.servers[s] = mcpFile[s] \/ s \in stray.servers
    BY <1>0 DEF IInv, ServerInv, Standing
<1>6. ServerInv'
    <2> SUFFICES ASSUME NEW s \in Server
                 PROVE  /\ owner'[s] = "none" => mcpFile'[s] = None
                        /\ owner'[s] = "user" => mcpFile'[s] # None
                        /\ owner'[s] = "mars" =>
                               servers'[s] = mcpFile'[s] \/ s \in stray.servers
        BY <1>0 DEF ServerInv, Standing
    <2>1. CASE mcpFile'[s] = mcpFile[s]
        <3>1. owner'[s] = owner[s]
            BY <1>1, <2>1
        <3>2. owner[s] = "mars" /\ s \notin stray.servers => servers'[s] = mcpFile'[s]
            <4> SUFFICES ASSUME lockFile.servers[s] = mcpFile[s]
                         PROVE  servers'[s] = mcpFile'[s]
                BY <1>5
            <4> QED BY <1>1, <2>1 DEF Reconciled, ServerRecord, Owned
        <3> QED BY <1>5, <2>1, <3>1, <3>2
    <2>2. CASE mcpFile'[s] # mcpFile[s]
        <3>1. owner'[s] = IF mcpFile'[s] = None THEN "none" ELSE "mars"
            BY <1>1, <2>2
        <3>2. mcpFile'[s] # None => servers'[s] = mcpFile'[s]
            BY <1>1, <2>2 DEF Reconciled, ServerRecord
        <3> QED BY <3>1, <3>2
    <2> QED BY <2>1, <2>2
<1>7. CleanInv'
    <2>1. ASSUME NEW s \in Server, wantServers[s] # None, owner'[s] # "user",
                 s \notin stray.servers
          PROVE  mcpFile'[s] = wantServers[s]
        <3>1. CASE MayWrite(s)
            BY <1>1, <2>1, <3>1 DEF Reconciled
        <3>2. CASE ~MayWrite(s)
            <4>1. mcpFile'[s] = mcpFile[s] /\ owner'[s] = owner[s]
                BY <1>1, <2>1, <3>2 DEF Reconciled
            <4>2. mcpFile[s] # None /\ ~Owned(s)
                BY <3>2 DEF MayWrite
            <4>3. owner[s] = "mars"
                BY <1>1, <1>5, <2>1, <4>1, <4>2
            <4>4. lockFile.servers[s] = mcpFile[s]
                BY <1>5, <2>1, <4>3
            <4> QED BY <4>2, <4>4 DEF Owned
        <3> QED BY <3>1, <3>2
    <2>2. /\ outcome' = outcome /\ hookFile' = hookFile /\ want' = want /\ clean' = clean
          /\ cmd' = cmd /\ wantServers' = wantServers /\ stray' = stray
        OBVIOUS
    <2>3. clean /\ cmd.kind = "sync" => pc' = "write" /\ CleanInv /\ pc # "idle"
        BY <1>0 DEF IInv
    <2>4. clean /\ cmd.kind = "sync" =>
              /\ outcome \in {"unchanged", "written"} => InOrder(hookFile, Emitted(want))
              /\ outcome \notin {"retained", "lost"}
        BY <2>3 DEF CleanInv, Settling
    <2> QED BY <2>1, <2>2, <2>3, <2>4 DEF CleanInv, Settling
<1> QED BY <1>2, <1>3, <1>4, <1>6, <1>7 DEF IInv

LEMMA ReconcileFailsInv ==
    ASSUME IInv, ReconcileFails
    PROVE  IInv'
<1> USE DEF ReconcileFails, disk
<1>0. TypeOK /\ pc = "mcp" /\ pc' \in {"save", "write"}
    BY DEF IInv, AfterMcp
<1>1. TypeOK'
    <2>1. Distinct(config.hooks)' /\ Distinct(want)'
        BY <1>0 DEF TypeOK
    <2>2. servers' \in Defined
        BY <1>0 DEF TypeOK
    <2>3. pc' \in Stages /\ faults' \in Nat
        BY <1>0 DEF Stages, TypeOK
    <2>4. UNCHANGED <<config, hookFile, mcpFile, lockFile, cmd, want, wantServers, outcome,
                      owner, stray, edits, changes>> /\ clean' \in BOOLEAN
        OBVIOUS
    <2> QED BY <1>0, <2>1, <2>2, <2>3, <2>4 DEF TypeOK
<1>2. OutcomeInv'
    BY <1>0 DEF IInv, OutcomeInv
<1>3. HookInv'
    BY DEF IInv, HookInv
<1>4. ServerInv'
    BY <1>0 DEF IInv, ServerInv, Standing
<1>5. CleanInv'
    BY DEF CleanInv, Settling
<1> QED BY <1>1, <1>2, <1>3, <1>4, <1>5 DEF IInv

LEMMA SaveConfigInv ==
    ASSUME IInv, SaveConfig
    PROVE  IInv'
<1> USE DEF SaveConfig, bounds
<1>0. TypeOK /\ pc = "save"
    BY DEF IInv
<1>1. TypeOK'
    <2>1. config' \in Config /\ config'.hooks = config.hooks
        BY <1>0 DEF TypeOK, Config
    <2>2. Distinct(config'.hooks) /\ Distinct(want)'
        BY <1>0, <2>1 DEF TypeOK
    <2>3. pc' \in Stages
        BY DEF Stages
    <2> QED BY <1>0, <2>1, <2>2, <2>3 DEF TypeOK
<1>2. OutcomeInv'
    BY <1>0 DEF IInv, OutcomeInv
<1>3. HookInv'
    BY DEF IInv, HookInv
<1>4. ServerInv'
    BY <1>0 DEF IInv, ServerInv, Standing
<1>5. CleanInv'
    BY <1>0 DEF IInv, CleanInv, Settling
<1> QED BY <1>1, <1>2, <1>3, <1>4, <1>5 DEF IInv

LEMMA EndedType ==
    ASSUME EndSession
    PROVE  /\ pc' \in Stages /\ cmd' \in Command /\ want' \in Seq(Emission)
           /\ Distinct(want)' /\ wantServers' \in Defined /\ outcome' \in Reaches
           /\ servers' \in Defined
<1>1. want' = << >> /\ want' \in Seq(Emission)
    BY DEF EndSession
<1>2. Distinct(want)'
    BY <1>1 DEF Distinct
<1>3. wantServers' \in Defined /\ servers' \in Defined
    BY EntryTypes DEF EndSession
<1>4. pc' \in Stages /\ outcome' \in Reaches
    BY DEF EndSession, Stages, Reaches
<1>5. cmd' \in Command
    BY DEF EndSession, Command, NoCmd
<1> QED BY <1>1, <1>2, <1>3, <1>4, <1>5

(* The published records count the entries that the session leaves behind, *)
(* however far it came with them.                                          *)
LEMMA PublishedCount ==
    ASSUME IInv, WriteLock, NEW e \in Entry
    PROVE  /\ PublishedHooks \in Books
           /\ Count(hookFile, e) <= Count(Recorded(lockFile'), e) + stray.entries[e]
<1>0. /\ TypeOK /\ pc = "publish" /\ outcome # "none" /\ outcome \in Reaches
      /\ lockFile.hooks \in Books
      /\ want \in Seq(Emission) /\ Distinct(want)
    BY DEF IInv, OutcomeInv, WriteLock, TypeOK
<1>1. lockFile'.hooks = PublishedHooks
    BY DEF WriteLock
<1>2. PublishedHooks \in Books
    BY <1>0, HookRecordsIs, EntryTypes DEF PublishedHooks
<1> DEFINE n == Count(hookFile, e)  r == Count(Recorded(lockFile'), e)
           x == stray.entries[e]  w == Count(Emitted(want), e)
<1>3. n \in Nat /\ x \in Nat /\ w \in Nat /\ r \in Nat
    <2>1. Recorded(lockFile') \in Seq(Entry)
        BY <1>1, <1>2, BlocksType
    <2>2. r \in Nat
        BY <2>1, CountType
    <2>3. n \in Nat /\ w \in Nat
        BY <1>0, Counts
    <2> QED BY <1>0, <2>2, <2>3 DEF TypeOK
<1>4. CASE outcome \in {"retained", "unchanged"}
    <2>1. lockFile'.hooks = lockFile.hooks
        BY <1>1, <1>4 DEF IInv, OutcomeInv, PublishedHooks
    <2>2. Recorded(lockFile') = Recorded(lockFile)
        BY <2>1, RecordedSame
    <2>3. n <= Count(Recorded(lockFile), e) + x
        BY <1>4 DEF IInv, HookInv
    <2> QED BY <1>2, <2>2, <2>3
<1>5. CASE outcome = "written"
    <2>1. lockFile'.hooks = HookRecords(want)
        BY <1>1, <1>5 DEF PublishedHooks
    <2>2. w <= r
        BY <1>0, <2>1, EmittedCount
    <2>3. n <= w + x
        BY <1>5 DEF IInv, HookInv
    <2>4. n <= r + x
        <3> HIDE DEF n, r, w, x
        <3> QED BY <1>3, <2>2, <2>3
    <2> QED BY <1>2, <2>4
<1>6. CASE outcome \in {"removed", "lost"}
    <2>1. n <= x
        BY <1>6 DEF IInv, HookInv
    <2>2. n <= r + x
        <3> HIDE DEF n, r, x
        <3> QED BY <1>3, <2>1
    <2> QED BY <1>2, <2>2
<1> QED BY <1>0, <1>4, <1>5, <1>6 DEF Reaches

LEMMA WriteLockInv ==
    ASSUME IInv, WriteLock
    PROVE  IInv'
<1> USE DEF WriteLock, bounds
<1>0. TypeOK /\ pc = "publish" /\ pc' = "idle" /\ outcome' = "none"
    BY DEF IInv, EndSession
<1>1. PublishedHooks \in Books
    <2>1. lockFile.hooks \in Books /\ want \in Seq(Emission) /\ Distinct(want)
        BY <1>0 DEF TypeOK
    <2> QED BY <2>1, HookRecordsIs, EntryTypes DEF PublishedHooks
<1>2. /\ stray'.entries = stray.entries
      /\ stray'.servers = {s \in stray.servers : owner[s] = "mars" /\ servers[s] # mcpFile[s]}
      /\ stray' \in [entries : [Entry -> Nat], servers : SUBSET Server]
    BY <1>0 DEF TypeOK
<1>3. TypeOK'
    <2>1. lockFile' \in [hooks : Books, servers : Defined]
        BY <1>0, <1>1 DEF TypeOK
    <2>2. Distinct(config.hooks)'
        BY <1>0 DEF TypeOK
    <2> QED BY <1>0, <1>2, <2>1, <2>2, EndedType DEF TypeOK
<1>4. OutcomeInv'
    BY <1>0 DEF OutcomeInv
<1>5. HookInv'
    <2> SUFFICES ASSUME NEW e \in Entry
                 PROVE  Count(hookFile, e) <= Count(Recorded(lockFile'), e) + stray.entries[e]
        BY <1>0, <1>2 DEF HookInv
    <2> QED BY PublishedCount
<1>6. ServerInv'
    <2>1. lockFile'.servers = servers
        OBVIOUS
    <2>2. \A s \in Server :
              /\ owner[s] = "none" => mcpFile[s] = None
              /\ owner[s] = "user" => mcpFile[s] # None
              /\ owner[s] = "mars" => servers[s] = mcpFile[s] \/ s \in stray.servers
        BY <1>0 DEF IInv, ServerInv, Standing
    <2> QED BY <1>0, <1>2, <2>1, <2>2 DEF ServerInv, Standing
<1>7. CleanInv'
    BY <1>0 DEF CleanInv, Settling
<1> QED BY <1>3, <1>4, <1>5, <1>6, <1>7 DEF IInv

LEMMA GiveUpInv ==
    ASSUME IInv, GiveUp
    PROVE  IInv'
<1> USE DEF GiveUp, disk
<1>0. TypeOK /\ pc' = "idle" /\ outcome' = "none"
    BY DEF IInv, EndSession
<1>1. ASSUME NEW e \in Entry
      PROVE  /\ stray'.entries[e] \in Nat
             /\ Count(hookFile, e) <= Count(Recorded(lockFile), e) + stray'.entries[e]
    <2> DEFINE n == Count(hookFile, e)  r == Count(Recorded(lockFile), e)
               x == stray.entries[e]
    <2>1. n \in Nat /\ r \in Nat /\ x \in Nat
        BY <1>0, Counts DEF TypeOK
    <2>2. Unrecorded(e) = IF n > r THEN n - r ELSE 0
        BY DEF Unrecorded
    <2>3. stray'.entries[e] = IF Unrecorded(e) > x THEN Unrecorded(e) ELSE x
        OBVIOUS
    <2> HIDE DEF n, r, x
    <2> QED BY <2>1, <2>2, <2>3 DEF n, r
<1>2. TypeOK'
    <2>1. stray' \in [entries : [Entry -> Nat], servers : SUBSET Server]
        <3>1. stray'.entries \in [Entry -> Nat]
            BY <1>1
        <3>2. stray'.servers \in SUBSET Server
            OBVIOUS
        <3>3. stray' = [entries |-> stray'.entries, servers |-> stray'.servers]
            OBVIOUS
        <3> QED BY <3>1, <3>2, <3>3
    <2>2. Distinct(config.hooks)'
        BY <1>0 DEF TypeOK
    <2> QED BY <1>0, <2>1, <2>2, EndedType DEF TypeOK
<1>3. OutcomeInv'
    BY <1>0 DEF OutcomeInv
<1>4. HookInv'
    BY <1>0, <1>1 DEF HookInv
<1>5. ServerInv'
    <2>1. \A s \in Server : owner[s] = "mars" =>
              lockFile.servers[s] = mcpFile[s] \/ s \in stray'.servers
        OBVIOUS
    <2> QED BY <1>0, <2>1 DEF IInv, ServerInv, Standing
<1>6. CleanInv'
    BY <1>0 DEF CleanInv, Settling
<1> QED BY <1>2, <1>3, <1>4, <1>5, <1>6 DEF IInv

LEMMA EditConfigInv ==
    ASSUME IInv, EditConfig
    PROVE  IInv'
<1> USE DEF EditConfig, session
<1>0. TypeOK /\ pc = "idle"
    BY DEF IInv
<1>1. TypeOK'
    <2>2. config' \in Config /\ Distinct(config'.hooks)
        BY ConfigAssumption DEF Distinct
    <2>3. changes' \in Nat
        BY <1>0 DEF TypeOK
    <2>4. Distinct(config.hooks)' /\ Distinct(want)'
        BY <1>0, <2>2 DEF TypeOK
    <2> QED BY <1>0, <2>2, <2>3, <2>4 DEF TypeOK
<1>2. OutcomeInv'
    BY DEF IInv, OutcomeInv
<1>3. HookInv'
    BY DEF IInv, HookInv
<1>4. ServerInv'
    BY DEF IInv, ServerInv, Standing
<1>5. CleanInv'
    BY <1>0 DEF CleanInv, Settling
<1> QED BY <1>1, <1>2, <1>3, <1>4, <1>5 DEF IInv

(* No edit of the user's adds an entry of a package.                       *)
LEMMA EditedCount ==
    ASSUME IInv, EditHooks
    PROVE  /\ hookFile' \in Seq(Entry \cup UserEntry)
           /\ \A e \in Entry : Count(hookFile', e) <= Count(hookFile, e)
<1> DEFINE T == Entry \cup UserEntry
<1>0. TypeOK /\ hookFile \in Seq(T) /\ Len(hookFile) \in Nat
      /\ DOMAIN hookFile = 1..Len(hookFile)
    BY LenProperties DEF IInv, TypeOK
<1>1. \A e \in Entry, u \in UserEntry : e # u
    BY EntryTypes
<1>2. \A e : Count(hookFile, e) \in Nat
    BY <1>0, Counts
<1>3. ASSUME NEW i \in 1..(Len(hookFile) + 1), NEW u \in UserEntry,
             hookFile' = InsertAt(hookFile, i, u)
      PROVE  hookFile' \in Seq(T) /\ \A e \in Entry : Count(hookFile', e) <= Count(hookFile, e)
    <2>0. u \in T
        OBVIOUS
    <2> HIDE DEF T
    <2>1. /\ InsertAt(hookFile, i, u) \in Seq(T)
          /\ \A e : e # u => Count(InsertAt(hookFile, i, u), e) = Count(hookFile, e)
        BY <1>0, <2>0, InsertCount
    <2> QED BY <1>1, <1>2, <1>3, <2>1
<1>4. ASSUME NEW i \in DOMAIN hookFile, NEW u \in UserEntry,
             hookFile' = ReplaceAt(hookFile, i, u)
      PROVE  hookFile' \in Seq(T) /\ \A e \in Entry : Count(hookFile', e) <= Count(hookFile, e)
    <2>0. u \in T
        OBVIOUS
    <2> HIDE DEF T
    <2>1. /\ ReplaceAt(hookFile, i, u) \in Seq(T)
          /\ \A e : e # u => Count(ReplaceAt(hookFile, i, u), e) <= Count(hookFile, e)
        BY <1>0, <2>0, ReplaceCount
    <2> QED BY <1>1, <1>4, <2>1
<1>5. ASSUME NEW i \in DOMAIN hookFile, hookFile' = RemoveAt(hookFile, i)
      PROVE  hookFile' \in Seq(T) /\ \A e \in Entry : Count(hookFile', e) <= Count(hookFile, e)
    <2> HIDE DEF T
    <2>0. i \in 1..Len(hookFile)
        BY <1>0
    <2>1. RemoveAt(hookFile, i) \in Seq(T)
        BY <1>0, <2>0, RemoveAtIs
    <2>2. ASSUME NEW e \in Entry PROVE Count(RemoveAt(hookFile, i), e) <= Count(hookFile, e)
        <3>1. Count(hookFile, e)
                  = Count(RemoveAt(hookFile, i), e) + IF hookFile[i] = e THEN 1 ELSE 0
            BY <1>0, <2>0, CountRemoveAt
        <3>2. Count(RemoveAt(hookFile, i), e) \in Nat
            BY <2>1, CountType
        <3> QED BY <3>1, <3>2
    <2> QED BY <1>5, <2>1, <2>2
<1>6. ASSUME NEW i \in 1..(Len(hookFile) - 1),
             hookFile' = [hookFile EXCEPT ![i] = hookFile[i + 1], ![i + 1] = hookFile[i]]
      PROVE  hookFile' \in Seq(T) /\ \A e \in Entry : Count(hookFile', e) <= Count(hookFile, e)
    <2> HIDE DEF T
    <2>1. PICK t : t = [hookFile EXCEPT ![i] = hookFile[i + 1], ![i + 1] = hookFile[i]]
        OBVIOUS
    <2>2. t \in Seq(T) /\ \A e : Count(t, e) <= Count(hookFile, e)
        BY <1>0, <2>1, SwapCount
    <2> QED BY <1>6, <2>1, <2>2
<1> QED BY <1>3, <1>4, <1>5, <1>6 DEF EditHooks

LEMMA EditHooksInv ==
    ASSUME IInv, EditHooks
    PROVE  IInv'
<1>0. /\ TypeOK /\ edits' = edits + 1 /\ clean' = FALSE
      /\ UNCHANGED <<config, mcpFile, lockFile, pc, cmd, want, wantServers, outcome, servers,
                     owner, stray, changes, faults>>
    BY DEF IInv, EditHooks, session
<1>1. TypeOK'
    <2>1. hookFile' \in Seq(Entry \cup UserEntry)
        BY EditedCount
    <2>2. edits' \in Nat
        BY <1>0 DEF TypeOK
    <2>3. Distinct(config.hooks)' /\ Distinct(want)'
        BY <1>0 DEF TypeOK
    <2> QED BY <1>0, <2>1, <2>2, <2>3 DEF TypeOK
<1>2. OutcomeInv'
    BY <1>0 DEF IInv, OutcomeInv
<1>3. HookInv'
    <2> SUFFICES ASSUME NEW e \in Entry
                 PROVE  /\ outcome \in {"none", "unchanged", "retained"} =>
                               Count(hookFile', e)
                                   <= Count(Recorded(lockFile), e) + stray.entries[e]
                        /\ outcome \in {"removed", "lost"} =>
                               Count(hookFile', e) <= stray.entries[e]
                        /\ outcome = "written" =>
                               Count(hookFile', e)
                                   <= Count(Emitted(want), e) + stray.entries[e]
        BY <1>0 DEF HookInv
    <2> DEFINE n == Count(hookFile, e)  m == Count(hookFile', e)
               r == Count(Recorded(lockFile), e)  w == Count(Emitted(want), e)
               x == stray.entries[e]
    <2>1. m <= n
        BY EditedCount
    <2>2. m \in Nat
        BY EditedCount, CountType
    <2>3. n \in Nat /\ r \in Nat /\ w \in Nat /\ x \in Nat
        BY <1>0, Counts DEF TypeOK
    <2>4. /\ outcome \in {"none", "unchanged", "retained"} => n <= r + x
          /\ outcome \in {"removed", "lost"} => n <= x
          /\ outcome = "written" => n <= w + x
        BY DEF IInv, HookInv
    <2> HIDE DEF n, m, r, w, x
    <2>5. /\ outcome \in {"none", "unchanged", "retained"} => m <= r + x
          /\ outcome \in {"removed", "lost"} => m <= x
          /\ outcome = "written" => m <= w + x
        BY <2>1, <2>2, <2>3, <2>4
    <2> QED BY <2>5 DEF m, r, w, x
<1>4. ServerInv'
    BY <1>0 DEF IInv, ServerInv, Standing
<1>5. CleanInv'
    BY <1>0 DEF CleanInv, Settling
<1> QED BY <1>1, <1>2, <1>3, <1>4, <1>5 DEF IInv

LEMMA EditMcpInv ==
    ASSUME IInv, NEW s \in Server, EditMcp(s)
    PROVE  IInv'
<1> USE DEF EditMcp, session
<1>0. TypeOK
    BY DEF IInv
<1>1. PICK v \in (UserValue \cup {None}) \ {mcpFile[s]} :
          /\ mcpFile' = [mcpFile EXCEPT ![s] = v]
          /\ owner' = [owner EXCEPT ![s] = IF v = None THEN "none" ELSE "user"]
    OBVIOUS
<1>2. /\ stray'.entries = stray.entries /\ stray'.servers = stray.servers \ {s}
      /\ stray' \in [entries : [Entry -> Nat], servers : SUBSET Server]
    BY <1>0 DEF TypeOK
<1>3. TypeOK'
    <2>1. mcpFile' \in [Server -> Value \cup UserValue \cup {None}]
        BY <1>0, <1>1 DEF TypeOK
    <2>2. owner' \in [Server -> {"none", "user", "mars"}]
        BY <1>0, <1>1 DEF TypeOK
    <2>3. Distinct(config.hooks)' /\ Distinct(want)' /\ edits' \in Nat
        BY <1>0 DEF TypeOK
    <2>4. UNCHANGED <<config, hookFile, lockFile, pc, cmd, want, wantServers, outcome, servers,
                      changes, faults>> /\ clean' \in BOOLEAN
        OBVIOUS
    <2> QED BY <1>0, <1>2, <2>1, <2>2, <2>3, <2>4 DEF TypeOK
<1>4. OutcomeInv'
    BY DEF IInv, OutcomeInv
<1>5. HookInv'
    BY <1>2 DEF IInv, HookInv
<1>6. ServerInv'
    <2> SUFFICES ASSUME NEW t \in Server
                 PROVE  /\ owner'[t] = "none" => mcpFile'[t] = None
                        /\ owner'[t] = "user" => mcpFile'[t] # None
                        /\ owner'[t] = "mars" =>
                               Standing[t] = mcpFile'[t] \/ t \in stray'.servers
        BY DEF ServerInv, Standing
    <2>1. CASE t = s
        <3>1. mcpFile'[t] = v /\ owner'[t] = IF v = None THEN "none" ELSE "user"
            BY <1>0, <1>1, <2>1 DEF TypeOK
        <3> QED BY <3>1
    <2>2. CASE t # s
        <3>1. mcpFile'[t] = mcpFile[t] /\ owner'[t] = owner[t]
            BY <1>0, <1>1, <2>2 DEF TypeOK
        <3>2. t \in stray'.servers <=> t \in stray.servers
            BY <1>2, <2>2
        <3> QED BY <3>1, <3>2 DEF IInv, ServerInv
    <2> QED BY <2>1, <2>2
<1>7. CleanInv'
    BY DEF CleanInv, Settling
<1> QED BY <1>3, <1>4, <1>5, <1>6, <1>7 DEF IInv

LEMMA NextInv ==
    ASSUME IInv, [Next]_vars
    PROVE  IInv'
<1>1. CASE UNCHANGED vars
    <2>1. UNCHANGED <<config, hookFile, mcpFile, lockFile, pc, cmd, want, wantServers, outcome,
                      servers, owner, stray, clean, edits, changes, faults>>
        BY <1>1 DEF vars, disk, session, bounds
    <2>2. TypeOK'
        <3>1. Distinct(config.hooks)' /\ Distinct(want)'
            BY <2>1 DEF IInv, TypeOK
        <3> QED BY <2>1, <3>1 DEF IInv, TypeOK
    <2>3. OutcomeInv' /\ HookInv' /\ ServerInv' /\ CleanInv'
        <3>1. OutcomeInv'
            BY <2>1 DEF IInv, OutcomeInv
        <3>2. HookInv'
            BY <2>1 DEF IInv, HookInv
        <3>3. ServerInv'
            BY <2>1 DEF IInv, ServerInv, Standing
        <3>4. CleanInv'
            BY <2>1 DEF IInv, CleanInv, Settling
        <3> QED BY <3>1, <3>2, <3>3, <3>4
    <2> QED BY <2>2, <2>3 DEF IInv
<1>2. CASE \E force \in BOOLEAN : Sync(force)
    BY <1>2, SyncInv
<1>3. CASE Unlink
    BY <1>3, UnlinkInv
<1>4. CASE Session
    BY <1>4, RemoveHooksInv, ReconcileMcpInv, WriteHooksInv, SaveConfigInv, WriteLockInv
       DEF Session
<1>5. CASE Failure
    BY <1>5, RemovalFailsInv, ReconcileFailsInv, WriteFailsInv, GiveUpInv DEF Failure
<1>6. CASE Edit
    BY <1>6, EditConfigInv, EditHooksInv, EditMcpInv DEF Edit
<1> QED BY <1>1, <1>2, <1>3, <1>4, <1>5, <1>6 DEF Next

-----------------------------------------------------------------------------
(* Theorems                                                                *)

(* All parts of the invariant hold in every state, for any hooks, servers, *)
(* sources, edits, failures and killed sessions.                           *)
THEOREM Invariance == Spec => []IInv
<1>1. Init => IInv
    BY InitInv
<1>2. IInv /\ [Next]_vars => IInv'
    BY NextInv
<1> QED BY <1>1, <1>2, PTL DEF Spec

(* Files, records and the memory of a session keep their types, and        *)
(* neither mars.toml nor a session names a hook twice, however mars.toml   *)
(* changes (config_entries/mod.rs, kept_hooks.rs).                         *)
THEOREM TypeCorrect == Spec => []TypeOK
<1>1. IInv => TypeOK
    BY DEF IInv
<1> QED BY <1>1, Invariance, PTL

(* Between sessions every entry of a package in a hook file is recorded in *)
(* mars.lock as often as it is there, and every server definition that     *)
(* Mars wrote as it is, but for what a killed session has left: a removal  *)
(* that fails, a write that is skipped or fails and the edits of the user  *)
(* leave nothing unrecorded (config_entries/mod.rs, retention.rs).         *)
THEOREM NothingForgotten == Spec => []EntriesRecorded
<1>1. IInv => EntriesRecorded
    <2> SUFFICES ASSUME IInv, pc = "idle"
                 PROVE  /\ \A e \in Entry : Count(hookFile, e)
                               <= Count(Recorded(lockFile), e) + stray.entries[e]
                        /\ \A s \in Server : owner[s] = "mars" =>
                               lockFile.servers[s] = mcpFile[s] \/ s \in stray.servers
        BY DEF EntriesRecorded
    <2>1. outcome \in {"none", "unchanged"}
        BY DEF IInv, OutcomeInv
    <2>2. \A e \in Entry : Count(hookFile, e)
              <= Count(Recorded(lockFile), e) + stray.entries[e]
        BY <2>1 DEF IInv, HookInv
    <2> QED BY <2>2 DEF IInv, ServerInv, Standing
<1> QED BY <1>1, Invariance, PTL

(* The removal and the write leave the user's entries where they are.      *)
LEMMA RemovalKeepsUser ==
    ASSUME TypeOK
    PROVE  UserHooks(RemoveEntries(hookFile, Recorded(lockFile))) = UserHooks(hookFile)
<1> DEFINE T == Entry \cup UserEntry
<1>1. hookFile \in Seq(T) /\ Recorded(lockFile) \in Seq(Entry) /\ Recorded(lockFile) \in Seq(T)
    BY Counts, EntryTypes DEF TypeOK
<1>2. \A i \in 1..Len(Recorded(lockFile)) : Recorded(lockFile)[i] \notin UserEntry
    BY <1>1, ElementOfSeq, EntryAssumption
<1> HIDE DEF T
<1> QED BY <1>1, <1>2, UserRemoveEntries

LEMMA WriteKeepsUser ==
    ASSUME TypeOK
    PROVE  UserHooks(hookFile \o Emitted(want)) = UserHooks(hookFile)
<1> DEFINE T == Entry \cup UserEntry
<1>1. hookFile \in Seq(T) /\ Emitted(want) \in Seq(Entry) /\ Emitted(want) \in Seq(T)
    BY Counts, EntryTypes DEF TypeOK
<1>2. UserHooks(Emitted(want)) = << >>
    BY <1>1, UserNone
<1> HIDE DEF T
<1>3. UserHooks(hookFile \o Emitted(want)) = UserHooks(hookFile) \o UserHooks(Emitted(want))
    BY <1>1, UserConcat
<1>4. UserHooks(hookFile) \in Seq(UserEntry)
    BY <1>1, UserType
<1> QED BY <1>2, <1>3, <1>4, ConcatEmptySeq

Kept == edits' = edits =>
    /\ UserHooks(hookFile') = UserHooks(hookFile)
    /\ \A s \in Server : owner[s] = "user" /\ mcpFile'[s] # mcpFile[s]
                             => cmd.force \/ lockFile.servers[s] = mcpFile[s]

LEMMA NextKeeps ==
    ASSUME IInv, [Next]_vars
    PROVE  Kept
<1>0. TypeOK /\ edits \in Nat
    BY DEF IInv, TypeOK
<1>1. ASSUME hookFile' = hookFile, mcpFile' = mcpFile PROVE Kept
    BY <1>1 DEF Kept
<1>2. CASE RemoveHooks
    <2>1. mcpFile' = mcpFile
          /\ hookFile' \in {hookFile, RemoveEntries(hookFile, Recorded(lockFile))}
        BY <1>2 DEF RemoveHooks
    <2> QED BY <1>0, <2>1, RemovalKeepsUser DEF Kept
<1>3. CASE WriteHooks
    <2>1. mcpFile' = mcpFile /\ hookFile' \in {hookFile, hookFile \o Emitted(want)}
        BY <1>3 DEF WriteHooks
    <2> QED BY <1>0, <2>1, WriteKeepsUser DEF Kept
<1>4. CASE ReconcileMcp
    <2>1. hookFile' = hookFile
        BY <1>4 DEF ReconcileMcp
    <2>2. ASSUME NEW s \in Server, owner[s] = "user", mcpFile'[s] # mcpFile[s]
          PROVE  cmd.force \/ lockFile.servers[s] = mcpFile[s]
        <3>1. mcpFile[s] # None
            BY <2>2 DEF IInv, ServerInv
        <3>2. mcpFile'[s] = Reconciled(s)
            BY <1>4 DEF ReconcileMcp
        <3> QED BY <2>2, <3>1, <3>2 DEF Reconciled, MayWrite, Owned
    <2> QED BY <2>1, <2>2 DEF Kept
<1>5. CASE EditHooks \/ \E s \in Server : EditMcp(s)
    <2>1. edits' = edits + 1
        BY <1>5 DEF EditHooks, EditMcp
    <2>2. edits' # edits
        BY <1>0, <2>1
    <2> QED BY <2>2 DEF Kept
<1>6. CASE \/ (\E force \in BOOLEAN : Sync(force)) \/ Unlink \/ Failure
           \/ SaveConfig \/ WriteLock \/ EditConfig \/ UNCHANGED vars
    <2>1. hookFile' = hookFile /\ mcpFile' = mcpFile
        BY <1>6 DEF Sync, Unlink, Failure, RemovalFails, ReconcileFails, WriteFails, GiveUp,
                    SaveConfig, WriteLock, EditConfig, vars, disk
    <2> QED BY <1>1, <2>1
<1> QED BY <1>2, <1>3, <1>4, <1>5, <1>6 DEF Next, Session, Edit

(* No session adds, drops or reorders the user's hook entries, and without *)
(* --force none replaces or deletes a server of the user's that mars.lock  *)
(* does not record as it is (hook_file.rs, mcp_file.rs).                   *)
THEOREM UserUntouched == Spec => UserEntriesKept
<1>1. IInv /\ [Next]_vars => [Kept]_vars
    BY NextKeeps
<1> QED BY <1>1, Invariance, PTL DEF Spec, UserEntriesKept, Kept

Settles ==
    cmd.kind = "sync" /\ pc = "publish" /\ pc' = "idle" /\ faults' = faults /\ clean =>
        /\ lockFile'.hooks = HookRecords(want)
        /\ InOrder(hookFile, Emitted(want))
        /\ \A s \in Server :
               wantServers[s] # None /\ owner[s] # "user" /\ s \notin stray.servers
                   => mcpFile[s] = wantServers[s]

LEMMA NextSettles ==
    ASSUME IInv, [Next]_vars
    PROVE  Settles
<1> SUFFICES ASSUME cmd.kind = "sync", pc = "publish", pc' = "idle", faults' = faults, clean
             PROVE  /\ lockFile'.hooks = HookRecords(want)
                    /\ InOrder(hookFile, Emitted(want))
                    /\ \A s \in Server :
                           wantServers[s] # None /\ owner[s] # "user" /\ s \notin stray.servers
                               => mcpFile[s] = wantServers[s]
    BY DEF Settles
<1>0. TypeOK /\ faults \in Nat /\ want \in Seq(Emission) /\ Distinct(want)
    BY DEF IInv, TypeOK
<1>1. WriteLock
    <2>1. ~GiveUp
        <3> SUFFICES ASSUME faults' = faults + 1 PROVE FALSE
            BY DEF GiveUp
        <3> QED BY <1>0
    <2>2. pc' # pc
        OBVIOUS
    <2> QED BY <2>1, <2>2
        DEF Next, Sync, Unlink, Session, Failure, Edit, RemoveHooks, ReconcileMcp, WriteHooks,
            SaveConfig, RemovalFails, ReconcileFails, WriteFails, EditConfig, EditHooks, EditMcp,
            session, vars
<1>2. /\ outcome \in {"unchanged", "removed", "written"}
      /\ outcome = "unchanged" \/ outcome = "written" => InOrder(hookFile, Emitted(want))
      /\ outcome = "removed" => want = << >>
      /\ \A s \in Server : wantServers[s] # None /\ owner[s] # "user" /\ s \notin stray.servers
                               => mcpFile[s] = wantServers[s]
    <2>1. outcome # "none" /\ outcome \in Reaches
        BY DEF IInv, OutcomeInv, TypeOK
    <2> QED BY <2>1 DEF IInv, CleanInv, Settling, Reaches
<1>3. lockFile'.hooks = PublishedHooks
    BY <1>1 DEF WriteLock
<1>4. CASE outcome \in {"unchanged", "written"}
    BY <1>2, <1>3, <1>4 DEF PublishedHooks
<1>5. CASE outcome = "removed"
    <2>1. want = << >> /\ lockFile'.hooks = NoHooks
        BY <1>2, <1>3, <1>5 DEF PublishedHooks
    <2>2. HookRecords(want) = NoHooks
        BY <1>0, <2>1, HookRecordsIs
    <2>3. Emitted(want) = << >>
        <3>1. [i \in DOMAIN << >> |-> << >>[i].entries] = << >>
            OBVIOUS
        <3> QED BY <2>1, <3>1 DEF Emitted, FlattenSeq
    <2> QED BY <1>2, <2>1, <2>2, <2>3, InOrderEmpty
<1> QED BY <1>2, <1>4, <1>5

(* A sync without failures and edits ends with the wanted hooks recorded   *)
(* and in the file in rank order, and with each wanted server that the     *)
(* user has not claimed, whatever failed, was killed or edited before it   *)
(* (config_entries/mod.rs, hook_file.rs).                                  *)
THEOREM CleanSyncsSettle == Spec => SyncSettles
<1>1. IInv /\ [Next]_vars => [Settles]_vars
    BY NextSettles
<1> QED BY <1>1, Invariance, PTL DEF Spec, SyncSettles, Settles

===============================================================================
