------------------------- MODULE SourceTrees_proofs -------------------------
(***************************************************************************)
(* Theorems about SourceTrees, for any processes, projects, repositories,  *)
(* commits and requests, and any number of kills. One inductive invariant, *)
(* IInv, carries them all; its parts are stated where their proofs are.    *)
(* A step is taken by one process: the lemmas named `...Own` say what it   *)
(* does to what that process knows, OthersKeep and LocksKept that it       *)
(* leaves what the others know and hold.                                   *)
(***************************************************************************)
EXTENDS SourceTrees, SequenceTheorems, TLAPS

(* Where a process fetches, holds its project's flock, a clone's flock.    *)

Working == {"extracting", "extracted", "cloning", "fetching", "checkout", "moving", "fetched"}
Holding == Working \cup {"loading", "resolving", "built", "swapping", "published", "failed"}
Gitting == {"cloning", "fetching", "checkout", "moving"}

Steps(p) == Start(p) \/ Blocks(p) \/ Proceeds(p) \/ FailToResolve(p) \/ Fail(p) \/ Kill(p)

(* Work goes on while there is a package to fetch, and each request names  *)
(* a commit.                                                               *)
Works(p) ==
    /\ pc[p] \in Working => Fetching(p)
    /\ pc[p] \in {"extracting", "extracted"} => OnGithub(p)
    /\ pc[p] \in Gitting => ~OnGithub(p)
    /\ pc[p] = "moving" => moves[p] # << >>
    /\ \A k \in 1..Len(asks[p]) : Wanted(asks[p][k]) \in Commit
WorkInv == \A p \in Process : Works(p)

(* The flocks are held where the code holds them.                          *)
Locks(p) ==
    /\ pc[p] \in Holding => syncLock[ProjectOf[p]] = p
    /\ pc[p] \in Gitting => gitLock[Mine(p).repo] = p
LockInv == \A p \in Process : Locks(p)

USE DEF Goes, clones, archives, stages, sync, bounds

-----------------------------------------------------------------------------
(* Types.                                                                 *)

LEMMA RequestTyped ==
    ASSUME TypeOK, WorkInv, NEW p \in Process, NEW k \in 1..Len(asks[p])
    PROVE  LET r == asks[p][k] IN
           /\ r.repo \in Repo /\ r.tag \in Commit \cup {None} /\ r.exact \in Commit \cup {None}
           /\ Wanted(r) \in Commit
           /\ r.repo \in Archived => Slot(r) \in Key
<1>1. asks[p] \in Seq(Request)
  BY DEF TypeOK
<1>2. asks[p][k] \in Request /\ Wanted(asks[p][k]) \in Commit
  BY <1>1 DEF WorkInv, Works
<1> QED
  BY <1>2 DEF Request, Slot, Key

LEMMA MineTyped ==
    ASSUME TypeOK, WorkInv, NEW p \in Process, Fetching(p)
    PROVE  LET r == Mine(p) IN
           /\ r.repo \in Repo /\ r.tag \in Commit \cup {None} /\ r.exact \in Commit \cup {None}
           /\ Wanted(r) \in Commit
           /\ r.repo \in Archived => Slot(r) \in Key
<1>1. asks[p] \in Seq(Request) /\ Len(read[p]) \in Nat
  BY DEF TypeOK
<1>2. Len(read[p]) + 1 \in 1..Len(asks[p])
  BY <1>1 DEF Fetching
<1> QED
  BY <1>2, RequestTyped DEF Mine

LEMMA FoundTyped ==
    ASSUME TypeOK, NEW r, r.repo \in Repo, Wanted(r) \in Commit
    PROVE  Found(r) \in Tree
BY DEF TypeOK, Found, Tree

LEMMA MovesTyped ==
    ASSUME TypeOK, NEW p \in Process, moves[p] # << >>
    PROVE  Head(moves[p]) \in Commit /\ Tail(moves[p]) \in Seq(Commit)
<1>1. moves[p] \in Seq(Commit)
  BY DEF TypeOK
<1> QED
  BY <1>1

LEMMA CheckoutsTyped ==
    ASSUME NEW r, r.tag \in Commit \cup {None}, r.exact \in Commit \cup {None},
           Wanted(r) \in Commit
    PROVE  Checkouts(r) \in Seq(Commit)
<1>1. CASE r.exact = None
  BY <1>1 DEF Checkouts, Wanted
<1>2. CASE r.exact # None /\ r.tag = None
  BY <1>2 DEF Checkouts, Wanted
<1>3. CASE r.exact # None /\ r.tag # None
  BY <1>3 DEF Checkouts
<1> QED
  BY <1>1, <1>2, <1>3

LEMMA LenTyped ==
    ASSUME TypeOK, NEW p \in Process
    PROVE  Len(copied[p]) \in Nat /\ Len(read[p]) \in Nat /\ Len(asks[p]) \in Nat
<1>1. copied[p] \in Seq(Tree) /\ read[p] \in Seq(Tree) /\ asks[p] \in Seq(Request)
  BY DEF TypeOK
<1> QED
  BY <1>1

ClonesType ==
    /\ present \subseteq Repo /\ broken \subseteq Repo
    /\ head \in [Repo -> Commit \cup {None}] /\ dirty \in [Repo -> Commit \cup {None}]
    /\ gitLock \in [Repo -> Process \cup {None}] /\ asked \in [Repo -> SUBSET Commit]

ArchivesType ==
    archive \in [Key -> Extraction] /\ tmp \in [Process -> [Key -> Extraction]]

StagesType ==
    /\ syncLock \in [Project -> Process \cup {None}]
    /\ pending \in [Project -> Generation \cup {None}]
    /\ staging \in [Project -> Generation \cup {None}]
    /\ backup \in [Project -> Generation \cup {None}]

PcType ==
    /\ pc \in [Process -> Holding \cup {"idle", "waiting", "dropping"}]
    /\ syncs \in 0..MaxSyncs /\ faults \in 0..MaxFaults

SyncType ==
    /\ asks \in [Process -> Seq(Request)] /\ moves \in [Process -> Seq(Commit)]
    /\ read \in [Process -> Seq(Tree)] /\ copied \in [Process -> Seq(Tree)]

LEMMA TypeParts ==
    TypeOK <=> ClonesType /\ ArchivesType /\ StagesType /\ PcType /\ SyncType
BY DEF TypeOK, ClonesType, ArchivesType, StagesType, PcType, SyncType, Holding, Working

LEMMA ClonesTypeStep ==
    ASSUME TypeOK, WorkInv, NEW p \in Process, Steps(p)
    PROVE  ClonesType'
<1> USE DEF ClonesType
<1>0. ClonesType
  BY TypeParts
<1>a. pc[p] \in Working \/ Fetching(p) =>
          /\ Mine(p).repo \in Repo /\ Wanted(Mine(p)) \in Commit
          /\ Mine(p).tag \in Commit \cup {None} /\ Mine(p).exact \in Commit \cup {None}
          /\ OnGithub(p) => Slot(Mine(p)) \in Key
  BY MineTyped DEF WorkInv, Works, OnGithub
<1>1. CASE LockRepo(p)
  BY <1>1, <1>0, <1>a DEF LockRepo, Unlock
<1>2. CASE Clone(p)
  BY <1>2, <1>0, <1>a, NoneAssumption DEF Clone, Working, Unlock
<1>3. CASE BeginCheckout(p)
  BY <1>3, <1>0, <1>a, MovesTyped, NoneAssumption DEF BeginCheckout, WorkInv, Works, Working
<1>4. CASE EndCheckout(p)
  BY <1>4, <1>0, <1>a, MovesTyped, NoneAssumption DEF EndCheckout, WorkInv, Works, Working
<1>5. CASE CheckoutOverChanges(p)
  BY <1>5, <1>0, <1>a, MovesTyped, NoneAssumption DEF CheckoutOverChanges, WorkInv, Works,
     Working
<1>6. CASE HandOver(p)
  BY <1>6, <1>0, <1>a DEF HandOver, Unlock
<1>7. CASE FailToResolve(p)
  BY <1>7, <1>0, <1>a DEF FailToResolve, Unlock
<1>8. CASE Kill(p)
  BY <1>8, <1>0, <1>a, NoneAssumption DEF Kill, Working, Unlock
<1>9. CASE Start(p) \/ LockProject(p) \/ CreatePending(p) \/ UseArchive(p) \/ Download(p)
   \/ Extract(p) \/ Publish(p) \/ Fetch(p) \/ StayThere(p) \/ Prepare(p) \/ Stage(p)
   \/ Build(p) \/ SetAside(p) \/ PutInPlace(p) \/ PutBack(p) \/ Fail(p) \/ Release(p)
   \/ DropPending(p)
  BY <1>9, <1>0 DEF Start, LockProject, CreatePending, UseArchive, Download, Extract, Publish,
     Fetch, StayThere, Prepare, Stage, Build, SetAside, PutInPlace, PutBack, Fail, Release,
     DropPending
<1> QED
  BY <1>1, <1>2, <1>3, <1>4, <1>5, <1>6, <1>7, <1>8, <1>9 DEF Steps, Blocks, Proceeds

LEMMA ArchivesTypeStep ==
    ASSUME TypeOK, WorkInv, NEW p \in Process, Steps(p)
    PROVE  ArchivesType'
<1> USE DEF ArchivesType
<1>0. ArchivesType
  BY TypeParts
<1>a. pc[p] \in Working \/ Fetching(p) =>
          /\ Mine(p).repo \in Repo /\ Wanted(Mine(p)) \in Commit
          /\ Mine(p).tag \in Commit \cup {None} /\ Mine(p).exact \in Commit \cup {None}
          /\ OnGithub(p) => Slot(Mine(p)) \in Key
  BY MineTyped DEF WorkInv, Works, OnGithub
<1>1. CASE Download(p)
  BY <1>1, <1>0, <1>a DEF Download, Extraction
<1>2. CASE Extract(p)
  BY <1>2, <1>0, <1>a DEF Extract, Extraction
<1>3. CASE Publish(p)
  BY <1>3, <1>0, <1>a DEF Publish, Extraction
<1>4. CASE FailToResolve(p)
  BY <1>4, <1>0, <1>a DEF FailToResolve, Extraction
<1>5. CASE Start(p) \/ LockProject(p) \/ CreatePending(p) \/ UseArchive(p) \/ LockRepo(p)
   \/ Clone(p) \/ Fetch(p) \/ StayThere(p) \/ BeginCheckout(p) \/ EndCheckout(p)
   \/ CheckoutOverChanges(p) \/ HandOver(p) \/ Prepare(p) \/ Stage(p) \/ Build(p)
   \/ SetAside(p) \/ PutInPlace(p) \/ PutBack(p) \/ Fail(p) \/ Release(p) \/ DropPending(p)
   \/ Kill(p)
  BY <1>5, <1>0 DEF Start, LockProject, CreatePending, UseArchive, LockRepo, Clone, Fetch,
     StayThere, BeginCheckout, EndCheckout, CheckoutOverChanges, HandOver, Prepare, Stage,
     Build, SetAside, PutInPlace, PutBack, Fail, Release, DropPending, Kill
<1> QED
  BY <1>1, <1>2, <1>3, <1>4, <1>5 DEF Steps, Blocks, Proceeds

LEMMA StagesTypeStep ==
    ASSUME TypeOK, WorkInv, NEW p \in Process, Steps(p)
    PROVE  StagesType'
<1> USE DEF StagesType
<1>0. StagesType
  BY TypeParts
<1>a. pc[p] \in Working \/ Fetching(p) =>
          /\ Mine(p).repo \in Repo /\ Wanted(Mine(p)) \in Commit
          /\ Mine(p).tag \in Commit \cup {None} /\ Mine(p).exact \in Commit \cup {None}
          /\ OnGithub(p) => Slot(Mine(p)) \in Key
  BY MineTyped DEF WorkInv, Works, OnGithub
<1>1. CASE LockProject(p)
  BY <1>1, <1>0, <1>a DEF LockProject
<1>2. CASE CreatePending(p)
  BY <1>2, <1>0, <1>a DEF CreatePending, Generation
<1>3. CASE Stage(p)
  <2> DEFINE j == ProjectOf[p]
             kept == IF pending[j] = None THEN {} ELSE pending[j].has
             new == [by |-> p, has |-> {Len(copied[p]) + 1} \cup kept]
  <2>1. kept \in SUBSET Nat
    BY <1>0, ProjectAssumption DEF Generation
  <2>2. new \in Generation
    BY <2>1, LenTyped DEF Generation
  <2>3. pending' = [pending EXCEPT ![j] = new] /\ UNCHANGED <<syncLock, staging, backup>>
    BY <1>3, <1>0, ProjectAssumption DEF Stage
  <2> HIDE DEF j, new
  <2> QED
    BY <1>0, <2>2, <2>3
<1>4. CASE SetAside(p)
  BY <1>4, <1>0, <1>a DEF SetAside
<1>5. CASE PutInPlace(p)
  BY <1>5, <1>0, <1>a DEF PutInPlace
<1>6. CASE PutBack(p)
  BY <1>6, <1>0, <1>a DEF PutBack
<1>7. CASE FailToResolve(p)
  BY <1>7, <1>0, <1>a DEF FailToResolve
<1>8. CASE Release(p)
  BY <1>8, <1>0, <1>a DEF Release
<1>9. CASE DropPending(p)
  BY <1>9, <1>0, <1>a DEF DropPending
<1>10. CASE Kill(p)
  BY <1>10, <1>0, <1>a DEF Kill
<1>11. CASE Start(p) \/ UseArchive(p) \/ Download(p) \/ Extract(p) \/ Publish(p)
   \/ LockRepo(p) \/ Clone(p) \/ Fetch(p) \/ StayThere(p) \/ BeginCheckout(p)
   \/ EndCheckout(p) \/ CheckoutOverChanges(p) \/ HandOver(p) \/ Prepare(p) \/ Build(p)
   \/ Fail(p)
  BY <1>11, <1>0 DEF Start, UseArchive, Download, Extract, Publish, LockRepo, Clone, Fetch,
     StayThere, BeginCheckout, EndCheckout, CheckoutOverChanges, HandOver, Prepare, Build, Fail
<1> QED
  BY <1>1, <1>2, <1>3, <1>4, <1>5, <1>6, <1>7, <1>8, <1>9, <1>10, <1>11 DEF Steps, Blocks,
     Proceeds

LEMMA PcTypeStep ==
    ASSUME TypeOK, WorkInv, NEW p \in Process, Steps(p)
    PROVE  PcType'
<1> USE DEF PcType
<1>0. PcType
  BY TypeParts
<1>a. pc[p] \in Working \/ Fetching(p) =>
          /\ Mine(p).repo \in Repo /\ Wanted(Mine(p)) \in Commit
          /\ Mine(p).tag \in Commit \cup {None} /\ Mine(p).exact \in Commit \cup {None}
          /\ OnGithub(p) => Slot(Mine(p)) \in Key
  BY MineTyped DEF WorkInv, Works, OnGithub
<1>1. CASE Start(p)
  BY <1>1, <1>0, <1>a, BoundAssumption DEF Start, Holding, Working
<1>2. CASE LockProject(p)
  BY <1>2, <1>0, <1>a DEF LockProject, Holding, Working
<1>3. CASE CreatePending(p)
  BY <1>3, <1>0, <1>a DEF CreatePending, Holding, Working
<1>4. CASE UseArchive(p)
  BY <1>4, <1>0, <1>a DEF UseArchive, Holding, Working
<1>5. CASE Download(p)
  BY <1>5, <1>0, <1>a DEF Download, Holding, Working
<1>6. CASE Extract(p)
  BY <1>6, <1>0, <1>a DEF Extract, Holding, Working
<1>7. CASE Publish(p)
  BY <1>7, <1>0, <1>a DEF Publish, Holding, Working
<1>8. CASE LockRepo(p)
  BY <1>8, <1>0, <1>a DEF LockRepo, Holding, Working
<1>9. CASE Clone(p)
  BY <1>9, <1>0, <1>a DEF Clone, Holding, Working
<1>10. CASE Fetch(p)
  BY <1>10, <1>0, <1>a DEF Fetch, Holding, Working
<1>11. CASE StayThere(p)
  BY <1>11, <1>0, <1>a DEF StayThere, Holding, Working
<1>12. CASE BeginCheckout(p)
  BY <1>12, <1>0, <1>a DEF BeginCheckout, Holding, Working
<1>13. CASE EndCheckout(p)
  BY <1>13, <1>0, <1>a DEF EndCheckout, Holding, Working
<1>14. CASE CheckoutOverChanges(p)
  BY <1>14, <1>0, <1>a DEF CheckoutOverChanges, Holding, Working
<1>15. CASE HandOver(p)
  BY <1>15, <1>0, <1>a DEF HandOver, Holding, Working
<1>16. CASE Prepare(p)
  BY <1>16, <1>0, <1>a DEF Prepare, Holding, Working
<1>17. CASE Stage(p)
  BY <1>17, <1>0, <1>a DEF Stage, Holding, Working
<1>18. CASE Build(p)
  BY <1>18, <1>0, <1>a DEF Build, Holding, Working
<1>19. CASE SetAside(p)
  BY <1>19, <1>0, <1>a DEF SetAside, Holding, Working
<1>20. CASE PutInPlace(p)
  BY <1>20, <1>0, <1>a DEF PutInPlace, Holding, Working
<1>21. CASE PutBack(p)
  BY <1>21, <1>0, <1>a DEF PutBack, Holding, Working
<1>22. CASE FailToResolve(p)
  BY <1>22, <1>0, <1>a DEF FailToResolve, Holding, Working
<1>23. CASE Fail(p)
  BY <1>23, <1>0, <1>a DEF Fail, Holding, Working
<1>24. CASE Release(p)
  BY <1>24, <1>0, <1>a DEF Release, Holding, Working
<1>25. CASE DropPending(p)
  BY <1>25, <1>0, <1>a DEF DropPending, Holding, Working
<1>26. CASE Kill(p)
  BY <1>26, <1>0, <1>a, BoundAssumption DEF Kill, Holding, Working
<1> QED
  BY <1>1, <1>2, <1>3, <1>4, <1>5, <1>6, <1>7, <1>8, <1>9, <1>10, <1>11, <1>12, <1>13, <1>14,
     <1>15, <1>16, <1>17, <1>18, <1>19, <1>20, <1>21, <1>22, <1>23, <1>24, <1>25,
     <1>26 DEF Steps, Blocks, Proceeds

LEMMA SyncTypeStep ==
    ASSUME TypeOK, WorkInv, NEW p \in Process, Steps(p)
    PROVE  SyncType'
<1> USE DEF SyncType
<1>0. SyncType
  BY TypeParts
<1>a. pc[p] \in Working \/ Fetching(p) =>
          /\ Mine(p).repo \in Repo /\ Wanted(Mine(p)) \in Commit
          /\ Mine(p).tag \in Commit \cup {None} /\ Mine(p).exact \in Commit \cup {None}
          /\ OnGithub(p) => Slot(Mine(p)) \in Key
  BY MineTyped DEF WorkInv, Works, OnGithub
<1>1. CASE Start(p)
  BY <1>1, <1>0, <1>a, AsksAssumption DEF Start, Forget
<1>2. CASE Clone(p)
  BY <1>2, <1>0, <1>a DEF Clone, Working, Forget
<1>3. CASE Fetch(p)
  BY <1>3, <1>0, <1>a, CheckoutsTyped DEF Fetch, Working
<1>4. CASE StayThere(p)
  BY <1>4, <1>0, <1>a DEF StayThere, Forget
<1>5. CASE EndCheckout(p)
  BY <1>5, <1>0, <1>a, MovesTyped DEF EndCheckout, WorkInv, Works, Working
<1>6. CASE CheckoutOverChanges(p)
  BY <1>6, <1>0, <1>a DEF CheckoutOverChanges, Forget
<1>7. CASE Prepare(p)
  BY <1>7, <1>0, <1>a, FoundTyped DEF Prepare, Working, Forget
<1>8. CASE Stage(p)
  <2>1. Len(copied[p]) + 1 \in 1..Len(asks[p])
    BY <1>8, LenTyped DEF Stage
  <2>2. Found(asks[p][Len(copied[p]) + 1]) \in Tree
    BY <2>1, FoundTyped, RequestTyped
  <2> QED
    BY <1>8, <1>0, <2>2 DEF Stage
<1>9. CASE FailToResolve(p)
  BY <1>9, <1>0, <1>a DEF FailToResolve, Forget
<1>10. CASE DropPending(p)
  BY <1>10, <1>0, <1>a DEF DropPending, Forget
<1>11. CASE Kill(p)
  BY <1>11, <1>0, <1>a DEF Kill, Forget
<1>12. CASE LockProject(p) \/ CreatePending(p) \/ UseArchive(p) \/ Download(p)
   \/ Extract(p) \/ Publish(p) \/ LockRepo(p) \/ BeginCheckout(p) \/ HandOver(p)
   \/ Build(p) \/ SetAside(p) \/ PutInPlace(p) \/ PutBack(p) \/ Fail(p) \/ Release(p)
  BY <1>12, <1>0 DEF LockProject, CreatePending, UseArchive, Download, Extract, Publish,
     LockRepo, BeginCheckout, HandOver, Build, SetAside, PutInPlace, PutBack, Fail, Release
<1> QED
  BY <1>1, <1>2, <1>3, <1>4, <1>5, <1>6, <1>7, <1>8, <1>9, <1>10, <1>11, <1>12 DEF Steps,
     Blocks, Proceeds
-----------------------------------------------------------------------------
(* What a step leaves to the others, and who holds what.                  *)

LEMMA OthersKeep ==
    ASSUME TypeOK, WorkInv, LockInv, NEW p \in Process, Steps(p), NEW q \in Process, q # p
    PROVE  /\ pc'[q] = pc[q] /\ asks'[q] = asks[q] /\ moves'[q] = moves[q]
           /\ read'[q] = read[q] /\ copied'[q] = copied[q] /\ tmp'[q] = tmp[q]
<1> USE DEF TypeOK
<1>1. CASE Start(p)
  BY <1>1 DEF Start
<1>2. CASE LockProject(p)
  BY <1>2 DEF LockProject
<1>3. CASE CreatePending(p)
  BY <1>3 DEF CreatePending
<1>4. CASE UseArchive(p)
  BY <1>4 DEF UseArchive
<1>5. CASE Download(p)
  BY <1>5 DEF Download
<1>6. CASE Extract(p)
  BY <1>6 DEF Extract
<1>7. CASE Publish(p)
  BY <1>7 DEF Publish
<1>8. CASE LockRepo(p)
  BY <1>8 DEF LockRepo
<1>9. CASE Clone(p)
  BY <1>9 DEF Clone
<1>10. CASE Fetch(p)
  BY <1>10 DEF Fetch
<1>11. CASE StayThere(p)
  BY <1>11 DEF StayThere
<1>12. CASE BeginCheckout(p)
  BY <1>12 DEF BeginCheckout
<1>13. CASE EndCheckout(p)
  BY <1>13 DEF EndCheckout
<1>14. CASE CheckoutOverChanges(p)
  BY <1>14 DEF CheckoutOverChanges
<1>15. CASE HandOver(p)
  BY <1>15 DEF HandOver
<1>16. CASE Prepare(p)
  BY <1>16 DEF Prepare
<1>17. CASE Stage(p)
  BY <1>17 DEF Stage
<1>18. CASE Build(p)
  BY <1>18 DEF Build
<1>19. CASE SetAside(p)
  BY <1>19 DEF SetAside
<1>20. CASE PutInPlace(p)
  BY <1>20 DEF PutInPlace
<1>21. CASE PutBack(p)
  BY <1>21 DEF PutBack
<1>22. CASE FailToResolve(p)
  BY <1>22 DEF FailToResolve, Forget
<1>23. CASE Fail(p)
  BY <1>23 DEF Fail
<1>24. CASE Release(p)
  BY <1>24 DEF Release
<1>25. CASE DropPending(p)
  BY <1>25 DEF DropPending, Forget
<1>26. CASE Kill(p)
  BY <1>26 DEF Kill, Forget
<1> QED
  BY <1>1, <1>2, <1>3, <1>4, <1>5, <1>6, <1>7, <1>8, <1>9, <1>10, <1>11, <1>12, <1>13, <1>14,
     <1>15, <1>16, <1>17, <1>18, <1>19, <1>20, <1>21, <1>22, <1>23, <1>24, <1>25,
     <1>26 DEF Steps, Blocks, Proceeds

LEMMA LocksKept ==
    ASSUME TypeOK, WorkInv, LockInv, NEW p \in Process, Steps(p), NEW q \in Process, q # p
    PROVE  /\ \A j \in Project : syncLock[j] = q => syncLock'[j] = q
           /\ \A u \in Repo : gitLock[u] = q => gitLock'[u] = q
<1>0. /\ syncLock \in [Project -> Process \cup {None}]
      /\ gitLock \in [Repo -> Process \cup {None}]
      /\ Locks(p) /\ ProjectOf[p] \in Project
  BY ProjectAssumption DEF TypeOK, LockInv
<1> USE <1>0 DEF Locks, Holding, Working, Gitting
<1>1. CASE LockProject(p)
  BY <1>1, NoneAssumption DEF LockProject
<1>2. CASE LockRepo(p)
  BY <1>2, NoneAssumption DEF LockRepo
<1>3. CASE HandOver(p)
  BY <1>3, NoneAssumption DEF HandOver, Unlock
<1>4. CASE FailToResolve(p)
  BY <1>4, NoneAssumption DEF FailToResolve
<1>5. CASE Release(p)
  BY <1>5, NoneAssumption DEF Release
<1>6. CASE Kill(p)
  BY <1>6, NoneAssumption DEF Kill
<1>7. CASE Start(p) \/ CreatePending(p) \/ UseArchive(p) \/ Download(p) \/ Extract(p)
   \/ Publish(p) \/ Clone(p) \/ Fetch(p) \/ StayThere(p) \/ BeginCheckout(p)
   \/ EndCheckout(p) \/ CheckoutOverChanges(p) \/ Prepare(p) \/ Stage(p) \/ Build(p)
   \/ SetAside(p) \/ PutInPlace(p) \/ PutBack(p) \/ Fail(p) \/ DropPending(p)
  BY <1>7 DEF Start, CreatePending, UseArchive, Download, Extract, Publish, Clone, Fetch,
     StayThere, BeginCheckout, EndCheckout, CheckoutOverChanges, Prepare, Stage, Build,
     SetAside, PutInPlace, PutBack, Fail, DropPending
<1> QED
  BY <1>1, <1>2, <1>3, <1>4, <1>5, <1>6, <1>7 DEF Steps, Blocks, Proceeds

LEMMA WorksOwn ==
    ASSUME TypeOK, WorkInv, NEW p \in Process, Steps(p)
    PROVE  Works(p)'
<1>0. Works(p)
  BY DEF WorkInv
<1> USE <1>0 DEF Works, Working, Gitting, Fetching, OnGithub, Mine, TypeOK
<1>1. CASE Start(p)
  <2>1. PICK s \in Asks : asks' = [asks EXCEPT ![p] = s]
    BY <1>1 DEF Start
  <2>2. \A k \in 1..Len(s) : Wanted(s[k]) \in Commit
    <3> TAKE k \in 1..Len(s)
    <3>1. s \in Seq(Request) /\ (s[k].tag # None \/ s[k].exact # None)
      BY AsksAssumption
    <3>2. s[k] \in Request
      BY <3>1
    <3> QED
      BY <3>1, <3>2 DEF Wanted, Request
  <2>3. asks'[p] = s /\ pc'[p] = "waiting"
    BY <1>1, <2>1 DEF Start
  <2> QED
    BY <2>2, <2>3
<1>2. CASE LockProject(p)
  BY <1>2 DEF LockProject
<1>3. CASE CreatePending(p)
  BY <1>3 DEF CreatePending
<1>4. CASE UseArchive(p)
  BY <1>4 DEF UseArchive
<1>5. CASE Download(p)
  BY <1>5 DEF Download
<1>6. CASE Extract(p)
  BY <1>6 DEF Extract
<1>7. CASE Publish(p)
  BY <1>7 DEF Publish
<1>8. CASE LockRepo(p)
  BY <1>8 DEF LockRepo
<1>9. CASE Clone(p)
  BY <1>9 DEF Clone
<1>10. CASE Fetch(p)
  BY <1>10 DEF Fetch
<1>11. CASE StayThere(p)
  BY <1>11 DEF StayThere
<1>12. CASE BeginCheckout(p)
  BY <1>12 DEF BeginCheckout
<1>13. CASE EndCheckout(p)
  BY <1>13 DEF EndCheckout
<1>14. CASE CheckoutOverChanges(p)
  BY <1>14 DEF CheckoutOverChanges
<1>15. CASE HandOver(p)
  BY <1>15 DEF HandOver
<1>16. CASE Prepare(p)
  BY <1>16 DEF Prepare
<1>17. CASE Stage(p)
  BY <1>17 DEF Stage
<1>18. CASE Build(p)
  BY <1>18 DEF Build
<1>19. CASE SetAside(p)
  BY <1>19 DEF SetAside
<1>20. CASE PutInPlace(p)
  BY <1>20 DEF PutInPlace
<1>21. CASE PutBack(p)
  BY <1>21 DEF PutBack
<1>22. CASE FailToResolve(p)
  BY <1>22 DEF FailToResolve, Forget
<1>23. CASE Fail(p)
  BY <1>23 DEF Fail
<1>24. CASE Release(p)
  BY <1>24 DEF Release
<1>25. CASE DropPending(p)
  BY <1>25 DEF DropPending, Forget
<1>26. CASE Kill(p)
  BY <1>26 DEF Kill, Forget
<1> QED
  BY <1>1, <1>2, <1>3, <1>4, <1>5, <1>6, <1>7, <1>8, <1>9, <1>10, <1>11, <1>12, <1>13, <1>14,
     <1>15, <1>16, <1>17, <1>18, <1>19, <1>20, <1>21, <1>22, <1>23, <1>24, <1>25,
     <1>26 DEF Steps, Blocks, Proceeds

LEMMA LocksOwn ==
    ASSUME TypeOK, WorkInv, LockInv, NEW p \in Process, Steps(p)
    PROVE  Locks(p)'
<1>0. Locks(p) /\ ProjectOf[p] \in Project
  BY ProjectAssumption DEF LockInv
<1>a. pc[p] \in Working \/ Fetching(p) => Mine(p).repo \in Repo
  BY MineTyped DEF WorkInv, Works
<1> USE <1>0, <1>a DEF Locks, Holding, Working, Gitting, Mine, TypeOK
<1>1. CASE Start(p)
  BY <1>1 DEF Start
<1>2. CASE LockProject(p)
  BY <1>2 DEF LockProject
<1>3. CASE CreatePending(p)
  BY <1>3 DEF CreatePending
<1>4. CASE UseArchive(p)
  BY <1>4 DEF UseArchive
<1>5. CASE Download(p)
  BY <1>5 DEF Download
<1>6. CASE Extract(p)
  BY <1>6 DEF Extract
<1>7. CASE Publish(p)
  BY <1>7 DEF Publish
<1>8. CASE LockRepo(p)
  BY <1>8 DEF LockRepo
<1>9. CASE Clone(p)
  BY <1>9 DEF Clone
<1>10. CASE Fetch(p)
  BY <1>10 DEF Fetch
<1>11. CASE StayThere(p)
  BY <1>11 DEF StayThere
<1>12. CASE BeginCheckout(p)
  BY <1>12 DEF BeginCheckout
<1>13. CASE EndCheckout(p)
  BY <1>13 DEF EndCheckout
<1>14. CASE CheckoutOverChanges(p)
  BY <1>14 DEF CheckoutOverChanges
<1>15. CASE HandOver(p)
  BY <1>15 DEF HandOver, Unlock
<1>16. CASE Prepare(p)
  BY <1>16 DEF Prepare
<1>17. CASE Stage(p)
  BY <1>17 DEF Stage
<1>18. CASE Build(p)
  BY <1>18 DEF Build
<1>19. CASE SetAside(p)
  BY <1>19 DEF SetAside
<1>20. CASE PutInPlace(p)
  BY <1>20 DEF PutInPlace
<1>21. CASE PutBack(p)
  BY <1>21 DEF PutBack
<1>22. CASE FailToResolve(p)
  BY <1>22 DEF FailToResolve, Forget
<1>23. CASE Fail(p)
  BY <1>23 DEF Fail
<1>24. CASE Release(p)
  BY <1>24 DEF Release
<1>25. CASE DropPending(p)
  BY <1>25 DEF DropPending, Forget
<1>26. CASE Kill(p)
  BY <1>26 DEF Kill, Forget
<1> QED
  BY <1>1, <1>2, <1>3, <1>4, <1>5, <1>6, <1>7, <1>8, <1>9, <1>10, <1>11, <1>12, <1>13, <1>14,
     <1>15, <1>16, <1>17, <1>18, <1>19, <1>20, <1>21, <1>22, <1>23, <1>24, <1>25,
     <1>26 DEF Steps, Blocks, Proceeds

LEMMA WorkStep ==
    ASSUME TypeOK, WorkInv, LockInv, NEW p \in Process, Steps(p) PROVE WorkInv'
<1> SUFFICES ASSUME NEW q \in Process PROVE Works(q)'
  BY DEF WorkInv
<1>1. CASE q = p
  BY <1>1, WorksOwn
<1>2. CASE q # p
  BY <1>2, OthersKeep DEF WorkInv, Works, Fetching, OnGithub, Mine
<1> QED
  BY <1>1, <1>2

LEMMA LockStep ==
    ASSUME TypeOK, WorkInv, LockInv, NEW p \in Process, Steps(p) PROVE LockInv'
<1> SUFFICES ASSUME NEW q \in Process PROVE Locks(q)'
  BY DEF LockInv
<1>1. CASE q = p
  BY <1>1, LocksOwn
<1>2. CASE q # p
  <2>1. pc[q] \in Gitting => Mine(q).repo \in Repo
    BY MineTyped DEF WorkInv, Works, Working, Gitting
  <2>2. Locks(q) /\ ProjectOf[q] \in Project
    BY ProjectAssumption DEF LockInv
  <2> QED
    BY <1>2, <2>1, <2>2, OthersKeep, LocksKept DEF Locks, Mine
<1> QED
  BY <1>1, <1>2

(* Two processes hold the flocks of different projects and clones.         *)
LEMMA OneHolder ==
    ASSUME LockInv, NEW p \in Process, NEW q \in Process, q # p
    PROVE  /\ pc[p] \in Holding /\ pc[q] \in Holding => ProjectOf[p] # ProjectOf[q]
           /\ pc[p] \in Gitting /\ pc[q] \in Gitting => Mine(p).repo # Mine(q).repo
BY DEF LockInv, Locks

-----------------------------------------------------------------------------
(* Archives, generations and the heads of clones.                         *)

(* The archives.                                                           *)
Extracts(p) == pc[p] = "extracted" => tmp[p][Slot(Mine(p))] = "whole"
ArchiveInv == ArchivesWhole /\ \A p \in Process : Extracts(p)

LEMMA ArchiveStep ==
    ASSUME TypeOK, WorkInv, LockInv, ArchiveInv, NEW p \in Process, Steps(p)
    PROVE  ArchiveInv'
<1>0. pc[p] \in {"extracting", "extracted"} => Slot(Mine(p)) \in Key
  BY MineTyped DEF WorkInv, Works, Working, OnGithub
<1>1. ArchivesWhole'
  <2>1. CASE Publish(p)
    BY <1>0, <2>1 DEF Publish, ArchiveInv, ArchivesWhole, Extracts, TypeOK
  <2>2. CASE UNCHANGED archive
    BY <2>2 DEF ArchiveInv, ArchivesWhole
  <2> QED
    BY <2>1, <2>2 DEF Steps, Blocks, Proceeds, Start, LockProject, CreatePending, UseArchive,
       Download, Extract, LockRepo, Clone, Fetch, StayThere, BeginCheckout, EndCheckout,
       CheckoutOverChanges, HandOver, Prepare, Stage, Build, SetAside, PutInPlace, PutBack,
       FailToResolve, Fail, Release, DropPending, Kill
<1>2. ASSUME NEW q \in Process, q # p PROVE Extracts(q)'
  BY <1>2, OthersKeep DEF ArchiveInv, Extracts, Mine
<1>3. Extracts(p)'
  <2>1. CASE Extract(p)
    BY <1>0, <2>1 DEF Extract, Extracts, Mine, TypeOK
  <2>2. CASE pc'[p] # "extracted"
    BY <2>2 DEF Extracts
  <2> QED
    BY <2>1, <2>2 DEF Steps, Blocks, Proceeds, Start, LockProject, CreatePending, UseArchive,
       Download, Publish, LockRepo, Clone, Fetch, StayThere, BeginCheckout, EndCheckout,
       CheckoutOverChanges, HandOver, Prepare, Stage, Build, SetAside, PutInPlace, PutBack,
       FailToResolve, Fail, Release, DropPending, Kill, TypeOK
<1> QED
  BY <1>1, <1>2, <1>3 DEF ArchiveInv

(* The generations.                                                        *)
Full(p) == [by |-> p, has |-> 1..Len(asks[p])]
Builds(p) ==
    /\ pc[p] = "loading" => pending[ProjectOf[p]] = None
    /\ pc[p] \in {"built", "swapping"} => pending[ProjectOf[p]] \in {None, Full(p)}
    /\ pc[p] = "published" => staging[ProjectOf[p]] = Full(p)
BuildInv == \A p \in Process : Builds(p)

LEMMA BuildStep ==
    ASSUME TypeOK, WorkInv, LockInv, BuildInv, NEW p \in Process, Steps(p)
    PROVE  BuildInv'
<1>0. ProjectOf[p] \in Project
  BY ProjectAssumption
<1>1. Builds(p)'
  <2>0. Builds(p)
    BY DEF BuildInv
  <2> USE <1>0, <2>0 DEF Builds, Full, TypeOK
  <2>1. CASE LockProject(p)
    BY <2>1 DEF LockProject
  <2>2. CASE CreatePending(p)
    BY <2>2 DEF CreatePending
  <2>3. CASE Stage(p)
    BY <2>3 DEF Stage
  <2>4. CASE Build(p)
    BY <2>4 DEF Build
  <2>5. CASE SetAside(p)
    BY <2>5 DEF SetAside
  <2>6. CASE PutInPlace(p)
    BY <2>6 DEF PutInPlace
  <2>7. CASE PutBack(p)
    BY <2>7 DEF PutBack
  <2>8. CASE FailToResolve(p)
    BY <2>8 DEF FailToResolve
  <2>9. CASE DropPending(p)
    BY <2>9 DEF DropPending
  <2>10. CASE Start(p) \/ UseArchive(p) \/ Download(p) \/ Extract(p) \/ Publish(p)
     \/ LockRepo(p) \/ Clone(p) \/ Fetch(p) \/ StayThere(p) \/ BeginCheckout(p)
     \/ EndCheckout(p) \/ CheckoutOverChanges(p) \/ HandOver(p) \/ Prepare(p) \/ Fail(p)
     \/ Release(p) \/ Kill(p)
    BY <2>10 DEF Start, UseArchive, Download, Extract, Publish, LockRepo, Clone, Fetch,
       StayThere, BeginCheckout, EndCheckout, CheckoutOverChanges, HandOver, Prepare, Fail,
       Release, Kill
  <2> QED
    BY <2>1, <2>2, <2>3, <2>4, <2>5, <2>6, <2>7, <2>8, <2>9, <2>10 DEF Steps, Blocks, Proceeds
<1>2. ASSUME NEW q \in Process, q # p PROVE Builds(q)'
  <2>0. Builds(q) /\ ProjectOf[q] \in Project
    BY ProjectAssumption DEF BuildInv
  <2>1. pc'[q] = pc[q] /\ asks'[q] = asks[q]
    BY <1>2, OthersKeep
  <2>2. pc[q] \in Holding /\ pc[p] \in Holding => ProjectOf[q] # ProjectOf[p]
    BY <1>2, OneHolder
  <2>3. CASE pc[q] \notin Holding
    BY <2>1, <2>3 DEF Builds, Holding
  <2>4. CASE pc[q] \in Holding
    <3>1. CASE UNCHANGED <<pending, staging>>
      BY <2>0, <2>1, <3>1 DEF Builds, Full
    <3>2. CASE pc[p] \in Holding
      <4>1. /\ pending'[ProjectOf[q]] = pending[ProjectOf[q]]
            /\ staging'[ProjectOf[q]] = staging[ProjectOf[q]]
        <5>1. CASE CreatePending(p)
          BY <1>0, <2>0, <2>2, <2>4, <3>2, <5>1 DEF CreatePending, TypeOK
        <5>2. CASE Stage(p)
          BY <1>0, <2>0, <2>2, <2>4, <3>2, <5>2 DEF Stage, TypeOK
        <5>3. CASE SetAside(p)
          BY <1>0, <2>0, <2>2, <2>4, <3>2, <5>3 DEF SetAside, TypeOK
        <5>4. CASE PutInPlace(p)
          BY <1>0, <2>0, <2>2, <2>4, <3>2, <5>4 DEF PutInPlace, TypeOK
        <5>5. CASE PutBack(p)
          BY <1>0, <2>0, <2>2, <2>4, <3>2, <5>5 DEF PutBack, TypeOK
        <5>6. CASE FailToResolve(p)
          BY <1>0, <2>0, <2>2, <2>4, <3>2, <5>6 DEF FailToResolve, TypeOK
        <5>7. CASE DropPending(p)
          BY <1>0, <2>0, <2>2, <2>4, <3>2, <5>7 DEF DropPending, TypeOK
        <5>8. CASE LockProject(p)
          BY <1>0, <2>0, <2>2, <2>4, <3>2, <5>8 DEF LockProject, TypeOK
        <5>9. CASE Start(p) \/ UseArchive(p) \/ Download(p) \/ Extract(p) \/ Publish(p)
           \/ LockRepo(p) \/ Clone(p) \/ Fetch(p) \/ StayThere(p) \/ BeginCheckout(p)
           \/ EndCheckout(p) \/ CheckoutOverChanges(p) \/ HandOver(p) \/ Prepare(p)
           \/ Build(p) \/ Fail(p) \/ Release(p) \/ Kill(p)
          BY <5>9 DEF Start, UseArchive, Download, Extract, Publish, LockRepo, Clone, Fetch,
             StayThere, BeginCheckout, EndCheckout, CheckoutOverChanges, HandOver, Prepare,
             Build, Fail, Release, Kill
        <5> QED
          BY <5>1, <5>2, <5>3, <5>4, <5>5, <5>6, <5>7, <5>8, <5>9 DEF Steps, Blocks, Proceeds
      <4> QED
        BY <2>0, <2>1, <4>1 DEF Builds, Full
    <3>3. CASE LockProject(p)
      BY <2>0, <2>1, <3>3, <1>0 DEF LockProject, Builds, Full, TypeOK
    <3>4. CASE DropPending(p)
      BY <2>0, <2>1, <3>4, <1>0 DEF DropPending, Builds, Full, TypeOK
    <3> QED
      BY <3>1, <3>2, <3>3, <3>4 DEF Steps, Blocks, Proceeds, Holding, Working, Start,
         CreatePending, UseArchive, Download, Extract, Publish, LockRepo, Clone, Fetch,
         StayThere, BeginCheckout, EndCheckout, CheckoutOverChanges, HandOver, Prepare, Stage,
         Build, SetAside, PutInPlace, PutBack, FailToResolve, Fail, Release, Kill
  <2> QED
    BY <2>3, <2>4
<1> QED
  BY <1>1, <1>2 DEF BuildInv

(* What a fetch still has to do to a clone ends where its request points.  *)
Heads(p) ==
    /\ pc[p] = "checkout" /\ moves[p] = << >> => head[Mine(p).repo] = Wanted(Mine(p))
    /\ pc[p] \in {"checkout", "moving"} /\ moves[p] # << >> =>
           moves[p][Len(moves[p])] = Wanted(Mine(p))
HeadInv == \A p \in Process : Heads(p)

LEMMA CheckoutsEnd ==
    ASSUME NEW r, r.tag # None \/ r.exact # None
    PROVE  Checkouts(r) # << >> /\ Checkouts(r)[Len(Checkouts(r))] = Wanted(r)
<1>1. CASE r.exact = None
  BY <1>1 DEF Checkouts, Wanted
<1>2. CASE r.exact # None /\ r.tag = None
  BY <1>2 DEF Checkouts, Wanted
<1>3. CASE r.exact # None /\ r.tag # None
  BY <1>3 DEF Checkouts, Wanted
<1> QED
  BY <1>1, <1>2, <1>3

LEMMA TailEnds ==
    ASSUME NEW S, NEW s \in Seq(S), s # << >>
    PROVE  /\ Tail(s) = << >> => s[Len(s)] = Head(s)
           /\ Tail(s) # << >> => Tail(s)[Len(Tail(s))] = s[Len(s)]
<1>1. /\ Len(s) \in Nat \ {0} /\ Tail(s) \in Seq(S) /\ Len(Tail(s)) = Len(s) - 1
      /\ \A i \in 1..Len(Tail(s)) : Tail(s)[i] = s[i + 1]
  BY EmptySeq, HeadTailProperties
<1>2. ASSUME Tail(s) = << >> PROVE s[Len(s)] = Head(s)
  <2>1. Len(Tail(s)) = 0
    BY <1>2, EmptySeq
  <2>2. Len(s) = 1
    <3>1. Len(s) \in Nat /\ Len(s) - 1 = 0
      BY <1>1, <2>1, Zenon
    <3> QED
      BY <3>1
  <2>3. Head(s) = s[1]
    OBVIOUS
  <2> QED
    BY <2>2, <2>3
<1>3. ASSUME Tail(s) # << >> PROVE Tail(s)[Len(Tail(s))] = s[Len(s)]
  <2>1. Len(Tail(s)) \in Nat \ {0}
    BY <1>1, <1>3, EmptySeq
  <2>2. Len(Tail(s)) \in 1..Len(Tail(s)) /\ Len(Tail(s)) + 1 = Len(s)
    BY <1>1, <2>1
  <2> QED
    BY <1>1, <2>2
<1> QED
  BY <1>2, <1>3

LEMMA HeadsOwn ==
    ASSUME TypeOK, WorkInv, LockInv, HeadInv, NEW p \in Process, Steps(p)
    PROVE  Heads(p)'
<1>0. Heads(p)
  BY DEF HeadInv
<1>a. pc[p] \in Working =>
          /\ Mine(p).repo \in Repo
          /\ Wanted(Mine(p)) \in Commit
          /\ Mine(p).tag \in Commit \cup {None} /\ Mine(p).exact \in Commit \cup {None}
  BY MineTyped DEF WorkInv, Works
<1>b. /\ moves[p] # << >> /\ Tail(moves[p]) = << >> => moves[p][Len(moves[p])] = Head(moves[p])
      /\ moves[p] # << >> /\ Tail(moves[p]) # << >> =>
             Tail(moves[p])[Len(Tail(moves[p]))] = moves[p][Len(moves[p])]
  BY TailEnds DEF TypeOK
<1>c. moves \in [Process -> Seq(Commit)] /\ head \in [Repo -> Commit \cup {None}]
      /\ pc \in [Process -> Holding \cup {"idle", "waiting", "dropping"}]
  BY TypeParts DEF ClonesType, SyncType, PcType
<1> USE <1>0, <1>c DEF Heads, Working
<1>1. CASE Clone(p)
  BY <1>1, <1>a, NoneAssumption DEF Clone, Wanted, Mine
<1>2. CASE Fetch(p)
  <2>1. Mine(p).tag # None \/ Mine(p).exact # None
    BY <1>a, <1>2, NoneAssumption DEF Fetch, Wanted
  <2>2. /\ moves'[p] = Checkouts(Mine(p)) /\ pc'[p] = "checkout"
        /\ Mine(p)' = Mine(p)
    BY <1>2 DEF Fetch, Mine
  <2> QED
    BY <2>1, <2>2, CheckoutsEnd
<1>3. CASE StayThere(p) \/ EndCheckout(p) \/ CheckoutOverChanges(p)
  <2>1. /\ moves[p] # << >> /\ moves'[p] = Tail(moves[p])
        /\ pc[p] \in {"checkout", "moving"}
        /\ head'[Mine(p).repo] = Head(moves[p])
        /\ Mine(p)' = Mine(p)
    BY <1>3, <1>a DEF StayThere, EndCheckout, CheckoutOverChanges, Mine, WorkInv, Works
  <2> QED
    BY <1>b, <2>1
<1>4. CASE BeginCheckout(p)
  BY <1>4 DEF BeginCheckout, Mine
<1>5. CASE pc'[p] \notin {"checkout", "moving"}
  BY <1>5
<1> QED
  BY <1>1, <1>2, <1>3, <1>4, <1>5 DEF Steps, Blocks, Proceeds, Start, LockProject,
     CreatePending, UseArchive, Download, Extract, Publish, LockRepo, HandOver, Prepare,
     Stage, Build, SetAside, PutInPlace, PutBack, FailToResolve, Fail, Release, DropPending,
     Kill

LEMMA HeadStep ==
    ASSUME TypeOK, WorkInv, LockInv, HeadInv, NEW p \in Process, Steps(p)
    PROVE  HeadInv'
<1> SUFFICES ASSUME NEW q \in Process, q # p PROVE Heads(q)'
  BY HeadsOwn DEF HeadInv
<1>1. Heads(q) /\ Mine(q)' = Mine(q) /\ pc'[q] = pc[q] /\ moves'[q] = moves[q]
  BY OthersKeep DEF HeadInv, Mine
<1>2. CASE pc[q] \notin {"checkout", "moving"}
  BY <1>1, <1>2 DEF Heads
<1>3. CASE pc[q] \in {"checkout", "moving"}
  <2>1. pc[p] \in Gitting => Mine(p).repo # Mine(q).repo
    BY <1>3, OneHolder DEF Gitting
  <2>2. Mine(q).repo \in Repo
    BY <1>3, MineTyped DEF WorkInv, Works, Working
  <2>3. head'[Mine(q).repo] = head[Mine(q).repo]
    <3>1. CASE Clone(p) \/ EndCheckout(p) \/ CheckoutOverChanges(p)
      BY <2>1, <2>2, <3>1 DEF Clone, EndCheckout, CheckoutOverChanges, Gitting, TypeOK
    <3>2. CASE UNCHANGED head
      BY <3>2
    <3> QED
      BY <3>1, <3>2 DEF Steps, Blocks, Proceeds, Start, LockProject, CreatePending,
         UseArchive, Download, Extract, Publish, LockRepo, Fetch, StayThere, BeginCheckout,
         HandOver, Prepare, Stage, Build, SetAside, PutInPlace, PutBack, FailToResolve, Fail,
         Release, DropPending, Kill
  <2> QED
    BY <1>1, <2>3 DEF Heads
<1> QED
  BY <1>2, <1>3

(* Without faults, files are of more than one commit during a checkout     *)
(* only.                                                                   *)
DirtyInv == faults = 0 => \A u \in Repo : dirty[u] # None =>
    \E p \in Process : pc[p] = "moving" /\ Mine(p).repo = u

LEMMA DirtyStep ==
    ASSUME TypeOK, WorkInv, LockInv, DirtyInv, NEW p \in Process, Steps(p)
    PROVE  DirtyInv'
<1> SUFFICES ASSUME faults' = 0, NEW u \in Repo, dirty'[u] # None
             PROVE  \E q \in Process : (pc[q] = "moving" /\ Mine(q).repo = u)'
  BY DEF DirtyInv
<1>1. CASE BeginCheckout(p)
  <2>1. pc'[p] = "moving" /\ Mine(p)' = Mine(p) /\ faults = 0
    BY <1>1 DEF BeginCheckout, Mine, TypeOK
  <2>2. CASE Mine(p).repo = u
    BY <2>1, <2>2
  <2>3. CASE Mine(p).repo # u
    <3>1. dirty[u] # None
      BY <1>1, <2>3 DEF BeginCheckout, TypeOK
    <3>2. PICK q \in Process : pc[q] = "moving" /\ Mine(q).repo = u
      BY <2>1, <3>1 DEF DirtyInv
    <3>3. q # p
      BY <2>3, <3>2
    <3> QED
      BY <3>2, <3>3, OthersKeep DEF Mine
  <2> QED
    BY <2>2, <2>3
<1>2. CASE ~BeginCheckout(p)
  <2>1. /\ faults = 0 /\ dirty[u] # None
        /\ pc[p] # "moving" \/ Mine(p).repo # u
    <3>1. CASE EndCheckout(p)
      BY <3>1, MineTyped DEF EndCheckout, WorkInv, Works, Working, TypeOK
    <3>2. CASE Kill(p)
      BY <3>2, BoundAssumption DEF Kill, TypeOK
    <3>3. CASE UNCHANGED <<dirty, faults>> /\ pc[p] # "moving"
      BY <3>3
    <3> QED
      BY <1>2, <3>1, <3>2, <3>3 DEF Steps, Blocks, Proceeds, Start, LockProject,
         CreatePending, UseArchive, Download, Extract, Publish, LockRepo, Clone, Fetch,
         StayThere, CheckoutOverChanges, HandOver, Prepare, Stage, Build, SetAside,
         PutInPlace, PutBack, FailToResolve, Fail, Release, DropPending
  <2>2. PICK q \in Process : pc[q] = "moving" /\ Mine(q).repo = u
    BY <2>1 DEF DirtyInv
  <2>3. q # p
    BY <2>1, <2>2
  <2> QED
    BY <2>2, <2>3, OthersKeep DEF Mine
<1> QED
  BY <1>1, <1>2

-----------------------------------------------------------------------------
(* What is known of a repository that was asked for one commit only.       *)

Named(r) == {r.tag, r.exact} \ {None}
Seen(p) == IF pc[p] = "fetched" THEN Len(read[p]) + 1 ELSE Len(read[p])
NoClone(u) == \A q \in Process : pc[q] = "cloning" => Mine(q).repo # u

(* Moves and prepared packages were asked for.                             *)
Asked(p) ==
    /\ pc[p] \in Gitting => Named(Mine(p)) \subseteq asked[Mine(p).repo]
    /\ pc[p] \in {"checkout", "moving"} =>
           \A k \in 1..Len(moves[p]) : moves[p][k] \in Named(Mine(p))
    /\ \A k \in 1..Seen(p) : asks[p][k].repo \notin Archived =>
           Wanted(asks[p][k]) \in asked[asks[p][k].repo]
Reads(p) ==
    /\ Seen(p) <= Len(asks[p]) /\ Len(copied[p]) <= Len(read[p])
    /\ pc[p] \in {"idle", "waiting"} => read[p] = << >> /\ copied[p] = << >>
AskedInv == \A p \in Process : Asked(p) /\ Reads(p)

LEMMA Forgets ==
    ASSUME TypeOK, NEW p \in Process, FailToResolve(p) \/ DropPending(p) \/ Kill(p)
    PROVE  /\ pc'[p] = "idle" /\ asks'[p] = << >> /\ read'[p] = << >> /\ copied'[p] = << >>
           /\ Len(read'[p]) = 0 /\ Len(copied'[p]) = 0 /\ Len(asks'[p]) = 0
<1>1. pc'[p] = "idle" /\ asks'[p] = << >> /\ read'[p] = << >> /\ copied'[p] = << >>
  BY DEF FailToResolve, DropPending, Kill, Forget, TypeOK
<1> QED
  BY <1>1, EmptySeq

LEMMA ReadsOwn ==
    ASSUME TypeOK, WorkInv, AskedInv, NEW p \in Process, Steps(p)
    PROVE  Reads(p)'
<1>0. Reads(p) /\ Works(p)
  BY DEF AskedInv, WorkInv
<1>1. Len(copied[p]) \in Nat /\ Len(read[p]) \in Nat /\ Len(asks[p]) \in Nat
  BY LenTyped
<1>2. /\ asks \in [Process -> Seq(Request)] /\ read \in [Process -> Seq(Tree)]
      /\ copied \in [Process -> Seq(Tree)]
      /\ pc \in [Process -> Holding \cup {"idle", "waiting", "dropping"}]
  BY TypeParts DEF SyncType, PcType
<1> USE <1>0, <1>1, <1>2 DEF Reads, Seen
<1>3. CASE Start(p)
  <2>1. PICK s \in Asks : asks' = [asks EXCEPT ![p] = s]
    BY <1>3 DEF Start
  <2>2. s \in Seq(Request)
    BY AsksAssumption
  <2>3. /\ asks'[p] = s /\ Len(s) \in Nat /\ read[p] = << >> /\ copied[p] = << >>
        /\ pc'[p] = "waiting"
    BY <1>3, <2>1, <2>2 DEF Start
  <2> QED
    BY <1>3, <2>3 DEF Start
<1>4. CASE Prepare(p)
  <2>1. Len(read'[p]) = Len(read[p]) + 1
    BY <1>4 DEF Prepare
  <2> QED
    BY <1>4, <2>1 DEF Prepare
<1>5. CASE Stage(p)
  <2>1. Len(copied'[p]) = Len(copied[p]) + 1
    BY <1>5 DEF Stage
  <2> QED
    BY <1>5, <2>1 DEF Stage, Fetching
<1>6. CASE FailToResolve(p) \/ DropPending(p) \/ Kill(p)
  BY <1>6, Forgets
<1>7. CASE UNCHANGED <<asks, read, copied>> /\ (pc'[p] = "fetched" => Fetching(p))
            /\ (pc'[p] \in {"idle", "waiting"} => pc[p] \in {"idle", "waiting"})
  BY <1>7 DEF Fetching
<1> QED
  BY <1>3, <1>4, <1>5, <1>6, <1>7 DEF Steps, Blocks, Proceeds, LockProject, CreatePending,
     UseArchive, Download, Extract, Publish, LockRepo, Clone, Fetch, StayThere, BeginCheckout,
     EndCheckout, CheckoutOverChanges, HandOver, Build, SetAside, PutInPlace, PutBack, Fail,
     Release, Works, Working

LEMMA AskedGrows ==
    ASSUME TypeOK, WorkInv, NEW p \in Process, Steps(p), NEW u \in Repo
    PROVE  /\ asked[u] \subseteq asked'[u]
           /\ LockRepo(p) /\ u = Mine(p).repo => asked'[u] = asked[u] \cup Named(Mine(p))
<1>1. CASE LockRepo(p)
  BY <1>1 DEF LockRepo, Named, TypeOK
<1>2. CASE UNCHANGED asked /\ ~LockRepo(p)
  BY <1>2
<1> QED
  BY <1>1, <1>2 DEF Steps, Blocks, Proceeds, Start, LockProject, CreatePending, UseArchive,
     Download, Extract, Publish, Clone, Fetch, StayThere, BeginCheckout, EndCheckout,
     CheckoutOverChanges, HandOver, Prepare, Stage, Build, SetAside, PutInPlace, PutBack,
     FailToResolve, Fail, Release, DropPending, Kill

(* A package is seen for the first time when a fetch returns.             *)
LEMMA SeenStep ==
    ASSUME TypeOK, AskedInv, NEW p \in Process, Steps(p), NEW k \in 1..Seen(p)'
    PROVE  \/ k \in 1..Seen(p) /\ asks'[p] = asks[p]
           \/ /\ HandOver(p) \/ UseArchive(p) \/ Publish(p)
              /\ k = Len(read[p]) + 1 /\ asks'[p] = asks[p] /\ asks[p][k] = Mine(p)
<1>0. /\ asks \in [Process -> Seq(Request)] /\ read \in [Process -> Seq(Tree)]
      /\ pc \in [Process -> Holding \cup {"idle", "waiting", "dropping"}]
      /\ Len(read[p]) \in Nat /\ Reads(p)
  BY TypeParts, LenTyped DEF SyncType, PcType, AskedInv
<1> USE <1>0
<1>1. CASE Start(p)
  <2>1. read'[p] = << >> /\ pc'[p] = "waiting"
    BY <1>1 DEF Start, Reads, AskedInv
  <2> QED
    BY <2>1, EmptySeq DEF Seen
<1>2. CASE Prepare(p)
  <2>1. /\ Len(read'[p]) = Len(read[p]) + 1 /\ asks'[p] = asks[p]
        /\ pc[p] = "fetched" /\ pc'[p] = "resolving"
    BY <1>2 DEF Prepare
  <2>2. Seen(p) = Len(read[p]) + 1 /\ Seen(p)' = Len(read'[p])
    BY <2>1 DEF Seen
  <2> QED
    BY <2>1, <2>2
<1>3. CASE FailToResolve(p) \/ DropPending(p) \/ Kill(p)
  <2>1. Len(read'[p]) = 0 /\ pc'[p] = "idle"
    BY <1>3, Forgets
  <2> QED
    BY <2>1 DEF Seen
<1>4. CASE UNCHANGED <<asks, read>> /\ pc[p] # "fetched"
  <2>1. CASE HandOver(p) \/ UseArchive(p) \/ Publish(p)
    <3>1. /\ Seen(p) = Len(read[p]) /\ Seen(p)' = Len(read[p]) + 1
          /\ asks'[p] = asks[p]
      BY <1>4, <2>1 DEF HandOver, UseArchive, Publish, Seen
    <3> QED
      BY <2>1, <3>1 DEF Mine
  <2>2. CASE pc'[p] # "fetched"
    BY <1>4, <2>2 DEF Seen
  <2> QED
    BY <1>4, <2>1, <2>2, Forgets DEF Steps, Blocks, Proceeds, Start, LockProject,
       CreatePending, Download, Extract, LockRepo, Clone, Fetch, StayThere, BeginCheckout,
       EndCheckout, CheckoutOverChanges, Prepare, Stage, Build, SetAside, PutInPlace, PutBack,
       Fail, Release
<1> QED
  BY <1>1, <1>2, <1>3, <1>4 DEF Steps, Blocks, Proceeds, LockProject, CreatePending,
     UseArchive, Download, Extract, Publish, LockRepo, Clone, Fetch, StayThere, BeginCheckout,
     EndCheckout, CheckoutOverChanges, HandOver, Stage, Build, SetAside, PutInPlace, PutBack,
     Fail, Release

LEMMA CheckoutsNamed ==
    ASSUME NEW r, r.tag # None \/ r.exact # None
    PROVE  \A k \in 1..Len(Checkouts(r)) : Checkouts(r)[k] \in Named(r)
<1>1. CASE r.exact = None
  BY <1>1 DEF Checkouts, Named
<1>2. CASE r.exact # None /\ r.tag = None
  BY <1>2 DEF Checkouts, Named
<1>3. CASE r.exact # None /\ r.tag # None
  BY <1>3 DEF Checkouts, Named
<1> QED
  BY <1>1, <1>2, <1>3

LEMMA AskedOwn ==
    ASSUME TypeOK, WorkInv, LockInv, AskedInv, NEW p \in Process, Steps(p)
    PROVE  Asked(p)'
<1>0. Asked(p) /\ Reads(p) /\ Works(p)
  BY DEF AskedInv, WorkInv
<1>a. pc[p] \in Working \/ Fetching(p) =>
          /\ Mine(p).repo \in Repo /\ Wanted(Mine(p)) \in Commit
  BY MineTyped DEF WorkInv, Works
<1>b. Wanted(Mine(p)) \in Commit => Wanted(Mine(p)) \in Named(Mine(p))
  BY NoneAssumption DEF Wanted, Named
<1>c. /\ moves \in [Process -> Seq(Commit)] /\ asks \in [Process -> Seq(Request)]
      /\ read \in [Process -> Seq(Tree)] /\ asked \in [Repo -> SUBSET Commit]
      /\ pc \in [Process -> Holding \cup {"idle", "waiting", "dropping"}]
      /\ Len(read[p]) \in Nat
  BY TypeParts, LenTyped DEF ClonesType, SyncType, PcType
<1>1. (pc[p] \in Gitting => Named(Mine(p)) \subseteq asked[Mine(p).repo])'
  <2>1. CASE LockRepo(p)
    <3>1. Mine(p)' = Mine(p) /\ Mine(p).repo \in Repo
      BY <1>a, <2>1 DEF LockRepo, Mine
    <3> QED
      BY <2>1, <3>1, AskedGrows
  <2>2. CASE pc'[p] \notin Gitting
    BY <2>2
  <2>3. CASE pc[p] \in Gitting /\ Mine(p)' = Mine(p)
    BY <1>0, <1>a, <2>3, AskedGrows DEF Asked, Working, Gitting
  <2> QED
    BY <1>c, <2>1, <2>2, <2>3 DEF Steps, Blocks, Proceeds, Start, LockProject, CreatePending,
       UseArchive, Download, Extract, Publish, Clone, Fetch, StayThere, BeginCheckout,
       EndCheckout, CheckoutOverChanges, HandOver, Prepare, Stage, Build, SetAside,
       PutInPlace, PutBack, FailToResolve, Fail, Release, DropPending, Kill, Gitting, Mine,
       Forget
<1>2. (pc[p] \in {"checkout", "moving"} =>
           \A k \in 1..Len(moves[p]) : moves[p][k] \in Named(Mine(p)))'
  <2>1. CASE Clone(p)
    BY <1>c, <2>1 DEF Clone, Named, Mine
  <2>2. CASE Fetch(p)
    <3>1. moves'[p] = Checkouts(Mine(p)) /\ Mine(p)' = Mine(p)
      BY <1>c, <2>2 DEF Fetch, Mine
    <3>2. Mine(p).tag # None \/ Mine(p).exact # None
      BY <1>a, <2>2, NoneAssumption DEF Fetch, Wanted, Working
    <3> QED
      BY <3>1, <3>2, CheckoutsNamed
  <2>3. CASE StayThere(p) \/ EndCheckout(p) \/ CheckoutOverChanges(p)
    <3>1. /\ moves[p] # << >> /\ moves'[p] = Tail(moves[p]) /\ Mine(p)' = Mine(p)
          /\ pc[p] \in {"checkout", "moving"}
      BY <1>0, <1>c, <2>3 DEF StayThere, EndCheckout, CheckoutOverChanges, Mine, Works
    <3>2. /\ Len(Tail(moves[p])) = Len(moves[p]) - 1 /\ Len(moves[p]) \in Nat \ {0}
          /\ \A i \in 1..Len(Tail(moves[p])) : Tail(moves[p])[i] = moves[p][i + 1]
      BY <1>c, <3>1, EmptySeq, HeadTailProperties
    <3>3. ASSUME NEW i \in 1..Len(Tail(moves[p])) PROVE i + 1 \in 1..Len(moves[p])
      <4>1. Len(Tail(moves[p])) = Len(moves[p]) - 1 /\ Len(moves[p]) \in Nat
        BY <3>2, Zenon
      <4> QED
        BY <4>1
    <3>4. \A i \in 1..Len(Tail(moves[p])) : Tail(moves[p])[i] \in Named(Mine(p))
      BY <1>0, <3>1, <3>2, <3>3 DEF Asked
    <3> QED
      BY <3>1, <3>4
  <2>4. CASE pc'[p] \notin {"checkout", "moving"}
    BY <2>4
  <2>5. CASE BeginCheckout(p)
    BY <1>0, <1>c, <2>5 DEF BeginCheckout, Asked, Mine
  <2> QED
    BY <1>c, <2>1, <2>2, <2>3, <2>4, <2>5 DEF Steps, Blocks, Proceeds, Start, LockProject,
       CreatePending, UseArchive, Download, Extract, Publish, LockRepo, HandOver, Prepare,
       Stage, Build, SetAside, PutInPlace, PutBack, FailToResolve, Fail, Release, DropPending,
       Kill
<1>3. ASSUME NEW k \in 1..Seen(p)', asks'[p][k].repo \notin Archived
      PROVE  Wanted(asks'[p][k]) \in asked'[asks'[p][k].repo]
  <2>1. CASE HandOver(p) /\ k = Len(read[p]) + 1
    <3>1. asks'[p][k] = Mine(p) /\ Mine(p).repo \in Repo
      BY <1>a, <2>1 DEF HandOver, Mine, Working
    <3> QED
      BY <1>0, <1>a, <1>b, <2>1, <3>1, AskedGrows DEF HandOver, Asked, Gitting, Working
  <2>2. CASE (UseArchive(p) \/ Publish(p)) /\ k = Len(read[p]) + 1
    BY <1>0, <1>3, <2>2 DEF UseArchive, Publish, Works, OnGithub, Mine
  <2>3. CASE k \in 1..Seen(p) /\ asks'[p] = asks[p]
    <3>1. k \in 1..Len(asks[p])
      BY <1>0, <1>c, <2>3, LenTyped DEF Reads, Seen
    <3>2. asks[p][k].repo \in Repo
      BY <3>1, RequestTyped
    <3> QED
      BY <1>0, <1>3, <2>3, <3>2, AskedGrows DEF Asked
  <2> QED
    BY <2>1, <2>2, <2>3, SeenStep
<1> QED
  BY <1>1, <1>2, <1>3 DEF Asked

LEMMA AskedStep ==
    ASSUME TypeOK, WorkInv, LockInv, AskedInv, NEW p \in Process, Steps(p)
    PROVE  AskedInv'
<1> SUFFICES ASSUME NEW q \in Process, q # p PROVE Asked(q)' /\ Reads(q)'
  BY AskedOwn, ReadsOwn DEF AskedInv
<1>1. /\ pc'[q] = pc[q] /\ asks'[q] = asks[q] /\ moves'[q] = moves[q]
      /\ read'[q] = read[q] /\ copied'[q] = copied[q]
      /\ Mine(q)' = Mine(q) /\ Seen(q)' = Seen(q)
  BY OthersKeep DEF Mine, Seen
<1>2. Asked(q) /\ Reads(q) /\ Len(read[q]) \in Nat /\ Len(asks[q]) \in Nat
  BY LenTyped DEF AskedInv
<1>3. Reads(q)'
  BY <1>1, <1>2 DEF Reads
<1>4. pc[q] \in Gitting => Mine(q).repo \in Repo
  BY MineTyped DEF WorkInv, Works, Working, Gitting
<1>5. \A k \in 1..Seen(q) : asks[q][k].repo \in Repo
  <2> TAKE k \in 1..Seen(q)
  <2>1. k \in 1..Len(asks[q])
    BY <1>2 DEF Reads, Seen
  <2> QED
    BY <2>1, RequestTyped
<1>6. Asked(q)'
  BY <1>1, <1>2, <1>4, <1>5, AskedGrows DEF Asked
<1> QED
  BY <1>3, <1>6

(* A clone being worked on exists; and one whose files a checkout left     *)
(* half way is not at the only commit that was ever asked for.             *)
Kept(u) == dirty[u] # None =>
    dirty[u] \in asked[u] /\ u \in present /\ NoClone(u) /\ asked[u] # {head[u]}
CloneInv ==
    /\ \A p \in Process : pc[p] \in Gitting => Mine(p).repo \in present
    /\ \A u \in Repo : Kept(u)

LEMMA NoCloneKept ==
    ASSUME TypeOK, WorkInv, LockInv, NEW p \in Process, Steps(p),
           NEW u \in Repo, u \in present, NoClone(u)
    PROVE  u \in present' /\ NoClone(u)'
<1>1. u \in present'
  <2>1. CASE FailToResolve(p) \/ Kill(p)
    BY <2>1 DEF FailToResolve, Kill, NoClone
  <2>2. CASE present \subseteq present'
    BY <2>2
  <2> QED
    BY <2>1, <2>2 DEF Steps, Blocks, Proceeds, Start, LockProject, CreatePending, UseArchive,
       Download, Extract, Publish, LockRepo, Clone, Fetch, StayThere, BeginCheckout,
       EndCheckout, CheckoutOverChanges, HandOver, Prepare, Stage, Build, SetAside,
       PutInPlace, PutBack, Fail, Release, DropPending
<1>2. ASSUME NEW q \in Process, pc'[q] = "cloning" PROVE Mine(q)'.repo # u
  <2>1. CASE q # p
    BY <1>2, <2>1, OthersKeep DEF NoClone, Mine
  <2>2. CASE q = p /\ LockRepo(p)
    BY <1>2, <2>2 DEF LockRepo, Mine, TypeOK
  <2>3. CASE q = p /\ ~LockRepo(p)
    BY <1>2, <2>3 DEF Steps, Blocks, Proceeds, Start, LockProject, CreatePending, UseArchive,
       Download, Extract, Publish, Clone, Fetch, StayThere, BeginCheckout, EndCheckout,
       CheckoutOverChanges, HandOver, Prepare, Stage, Build, SetAside, PutInPlace, PutBack,
       FailToResolve, Fail, Release, DropPending, Kill, TypeOK
  <2> QED
    BY <2>1, <2>2, <2>3
<1> QED
  BY <1>1, <1>2 DEF NoClone

LEMMA PresentStep ==
    ASSUME TypeOK, WorkInv, LockInv, CloneInv, NEW p \in Process, Steps(p),
           NEW q \in Process, pc'[q] \in Gitting
    PROVE  Mine(q)'.repo \in present'
<1>1. CASE q = p
  <2>1. CASE LockRepo(p)
    BY <1>1, <2>1 DEF LockRepo, Mine
  <2>2. CASE pc[p] \in Gitting /\ UNCHANGED <<present, asks, read>>
    BY <1>1, <2>2 DEF CloneInv, Mine
  <2> QED
    BY <1>1, <2>1, <2>2 DEF Steps, Blocks, Proceeds, Start, LockProject, CreatePending,
       UseArchive, Download, Extract, Publish, Clone, Fetch, StayThere, BeginCheckout,
       EndCheckout, CheckoutOverChanges, HandOver, Prepare, Stage, Build, SetAside,
       PutInPlace, PutBack, FailToResolve, Fail, Release, DropPending, Kill, Gitting, TypeOK
<1>2. CASE q # p
  <2>1. pc[q] \in Gitting /\ Mine(q)' = Mine(q) /\ Mine(q).repo \in present
    BY <1>2, OthersKeep DEF CloneInv, Mine
  <2>2. pc[p] = "cloning" => Mine(p).repo # Mine(q).repo
    BY <1>2, <2>1, OneHolder DEF Gitting
  <2>3. CASE FailToResolve(p) \/ Kill(p)
    BY <2>1, <2>2, <2>3 DEF FailToResolve, Kill
  <2>4. CASE present \subseteq present'
    BY <2>1, <2>4
  <2> QED
    BY <2>3, <2>4 DEF Steps, Blocks, Proceeds, Start, LockProject, CreatePending, UseArchive,
       Download, Extract, Publish, LockRepo, Clone, Fetch, StayThere, BeginCheckout,
       EndCheckout, CheckoutOverChanges, HandOver, Prepare, Stage, Build, SetAside,
       PutInPlace, PutBack, Fail, Release, DropPending
<1> QED
  BY <1>1, <1>2

(* What a checkout goes to was asked for.                                  *)
LEMMA MoveAsked ==
    ASSUME TypeOK, WorkInv, AskedInv, NEW p \in Process,
           pc[p] \in {"checkout", "moving"}, moves[p] # << >>
    PROVE  Head(moves[p]) \in asked[Mine(p).repo] /\ Mine(p).repo \in Repo
<1>1. moves[p] \in Seq(Commit) /\ Mine(p).repo \in Repo
  BY MineTyped DEF TypeOK, WorkInv, Works, Working
<1>2. 1 \in 1..Len(moves[p]) /\ Head(moves[p]) = moves[p][1]
  BY <1>1, EmptySeq
<1> QED
  BY <1>1, <1>2 DEF AskedInv, Asked, Gitting

LEMMA KeptStep ==
    ASSUME TypeOK, WorkInv, LockInv, AskedInv, CloneInv, NEW p \in Process, Steps(p),
           NEW u \in Repo
    PROVE  Kept(u)'
<1> SUFFICES ASSUME dirty'[u] # None
             PROVE  /\ dirty'[u] \in asked'[u] /\ u \in present' /\ NoClone(u)'
                    /\ asked'[u] # {head'[u]}
  BY DEF Kept
<1>0. asked[u] \subseteq asked'[u] /\ Kept(u)
  BY AskedGrows DEF CloneInv
<1>1. CASE BeginCheckout(p) /\ u = Mine(p).repo
  <2>1. /\ dirty'[u] = Head(moves[p]) /\ head'[u] = head[u] /\ head[u] # Head(moves[p])
        /\ pc[p] = "checkout" /\ moves[p] # << >>
    BY <1>1 DEF BeginCheckout, TypeOK
  <2>2. Head(moves[p]) \in asked[u]
    BY <1>1, <2>1, MoveAsked
  <2>3. u \in present
    BY <1>1, <2>1 DEF CloneInv, Gitting
  <2>4. NoClone(u)
    BY <1>1, <2>1, OneHolder DEF NoClone, Gitting
  <2> QED
    BY <1>0, <2>1, <2>2, <2>3, <2>4, NoCloneKept
<1>2. CASE ~(BeginCheckout(p) /\ u = Mine(p).repo)
  <2>1. dirty'[u] = dirty[u]
    <3>1. CASE BeginCheckout(p) \/ EndCheckout(p)
      BY <1>2, <3>1 DEF BeginCheckout, EndCheckout, TypeOK
    <3>2. CASE Kill(p)
      BY <3>2, NoneAssumption DEF Kill, TypeOK
    <3>3. CASE UNCHANGED dirty
      BY <3>3
    <3> QED
      BY <3>1, <3>2, <3>3 DEF Steps, Blocks, Proceeds, Start, LockProject, CreatePending,
         UseArchive, Download, Extract, Publish, LockRepo, Clone, Fetch, StayThere,
         CheckoutOverChanges, HandOver, Prepare, Stage, Build, SetAside, PutInPlace, PutBack,
         FailToResolve, Fail, Release, DropPending
  <2>2. dirty[u] \in asked[u] /\ u \in present /\ NoClone(u) /\ asked[u] # {head[u]}
    BY <1>0, <2>1 DEF Kept
  <2>3. u \in present' /\ NoClone(u)'
    BY <2>2, NoCloneKept
  <2>4. head'[u] = head[u] \/ head'[u] # dirty[u]
    <3>1. CASE Clone(p)
      BY <2>2, <3>1 DEF Clone, NoClone, TypeOK
    <3>2. CASE EndCheckout(p)
      <4>1. u # Mine(p).repo
        BY <3>2 DEF EndCheckout, TypeOK
      <4> QED
        BY <3>2, <4>1 DEF EndCheckout, TypeOK
    <3>3. CASE CheckoutOverChanges(p)
      BY <3>3 DEF CheckoutOverChanges, TypeOK
    <3>4. CASE UNCHANGED head
      BY <3>4
    <3> QED
      BY <3>1, <3>2, <3>3, <3>4 DEF Steps, Blocks, Proceeds, Start, LockProject,
         CreatePending, UseArchive, Download, Extract, Publish, LockRepo, Fetch, StayThere,
         BeginCheckout, HandOver, Prepare, Stage, Build, SetAside, PutInPlace, PutBack,
         FailToResolve, Fail, Release, DropPending, Kill
  <2> QED
    BY <1>0, <2>1, <2>2, <2>3, <2>4
<1> QED
  BY <1>1, <1>2

LEMMA CloneStep ==
    ASSUME TypeOK, WorkInv, LockInv, AskedInv, CloneInv, NEW p \in Process, Steps(p)
    PROVE  CloneInv'
BY KeptStep, PresentStep DEF CloneInv

(* Once at the only commit that is ever asked for, a clone stays there.    *)
Fixed(u, c) == u \in present /\ head[u] = c /\ dirty[u] = None /\ NoClone(u)

LEMMA FixedKept ==
    ASSUME TypeOK, WorkInv, LockInv, AskedInv, NEW p \in Process, Steps(p),
           NEW u \in Repo, NEW c, asked[u] = {c}, Fixed(u, c)
    PROVE  Fixed(u, c)'
<1>1. u \in present' /\ NoClone(u)'
  BY NoCloneKept DEF Fixed
<1>2. ASSUME pc[p] \in {"checkout", "moving"}, moves[p] # << >>, Mine(p).repo = u
      PROVE  Head(moves[p]) = c
  BY <1>2, MoveAsked
<1>3. head'[u] = c /\ dirty'[u] = None
  <2>1. CASE Clone(p)
    BY <2>1 DEF Clone, Fixed, NoClone, TypeOK
  <2>2. CASE EndCheckout(p)
    <3>1. pc[p] = "moving" /\ moves[p] # << >>
      BY <2>2 DEF EndCheckout, WorkInv, Works
    <3> QED
      BY <1>2, <2>2, <3>1 DEF EndCheckout, Fixed, TypeOK
  <2>3. CASE BeginCheckout(p) \/ CheckoutOverChanges(p)
    BY <1>2, <2>3 DEF BeginCheckout, CheckoutOverChanges, Fixed, TypeOK
  <2>4. CASE Kill(p)
    BY <2>4 DEF Kill, Fixed, TypeOK
  <2>5. CASE UNCHANGED <<head, dirty>>
    BY <2>5 DEF Fixed
  <2> QED
    BY <2>1, <2>2, <2>3, <2>4, <2>5 DEF Steps, Blocks, Proceeds, Start, LockProject,
       CreatePending, UseArchive, Download, Extract, Publish, LockRepo, Fetch, StayThere,
       HandOver, Prepare, Stage, Build, SetAside, PutInPlace, PutBack, FailToResolve, Fail,
       Release, DropPending
<1> QED
  BY <1>1, <1>3 DEF Fixed

(* A package that was fetched is there, and is right when nobody asked for *)
(* another commit of its repository.                                       *)
Alone(r) == asked[r.repo] = {Wanted(r)}
Pinned(r) ==
    /\ r.repo \in Archived => archive[Slot(r)] # "absent"
    /\ r.repo \notin Archived /\ Alone(r) => Fixed(r.repo, Wanted(r))
PinInv == \A p \in Process : \A k \in 1..Seen(p) : Pinned(asks[p][k])

LEMMA SeenTyped ==
    ASSUME TypeOK, WorkInv, AskedInv, NEW p \in Process, NEW k \in 1..Seen(p)
    PROVE  /\ k \in 1..Len(asks[p]) /\ asks[p][k].repo \in Repo
           /\ Wanted(asks[p][k]) \in Commit
           /\ asks[p][k].repo \in Archived => Slot(asks[p][k]) \in Key
           /\ asks[p][k].repo \notin Archived => Wanted(asks[p][k]) \in asked[asks[p][k].repo]
<1>1. k \in 1..Len(asks[p])
  BY LenTyped DEF AskedInv, Reads, Seen
<1> QED
  BY <1>1, RequestTyped DEF AskedInv, Asked

LEMMA ArchiveStays ==
    ASSUME TypeOK, WorkInv, ArchiveInv, NEW p \in Process, Steps(p), NEW k \in Key,
           archive[k] # "absent"
    PROVE  archive'[k] # "absent"
<1>1. CASE Publish(p)
  BY <1>1 DEF Publish, TypeOK
<1>2. CASE UNCHANGED archive
  BY <1>2
<1> QED
  BY <1>1, <1>2 DEF Steps, Blocks, Proceeds, Start, LockProject, CreatePending, UseArchive,
     Download, Extract, LockRepo, Clone, Fetch, StayThere, BeginCheckout, EndCheckout,
     CheckoutOverChanges, HandOver, Prepare, Stage, Build, SetAside, PutInPlace, PutBack,
     FailToResolve, Fail, Release, DropPending, Kill

LEMMA PinnedKept ==
    ASSUME TypeOK, WorkInv, LockInv, ArchiveInv, AskedInv, NEW p \in Process, Steps(p),
           NEW r, r.repo \in Repo, Pinned(r),
           r.repo \in Archived => Slot(r) \in Key,
           r.repo \notin Archived => Wanted(r) \in asked[r.repo]
    PROVE  Pinned(r)' /\ (r.repo \notin Archived /\ Alone(r)' => Alone(r))
<1>1. r.repo \notin Archived /\ Alone(r)' => Alone(r)
  BY AskedGrows DEF Alone
<1>2. r.repo \in Archived => archive'[Slot(r)] # "absent"
  BY ArchiveStays DEF Pinned
<1>3. r.repo \notin Archived /\ Alone(r)' => Fixed(r.repo, Wanted(r))'
  BY <1>1, FixedKept DEF Pinned, Alone
<1> QED
  BY <1>1, <1>2, <1>3 DEF Pinned

LEMMA PinStep ==
    ASSUME TypeOK, WorkInv, LockInv, ArchiveInv, HeadInv, AskedInv, CloneInv, PinInv,
           NEW p \in Process, Steps(p)
    PROVE  PinInv'
<1> SUFFICES ASSUME NEW q \in Process, NEW k \in 1..Seen(q)'
             PROVE  Pinned(asks[q][k])'
  BY DEF PinInv
<1>1. CASE k \in 1..Seen(q) /\ asks'[q] = asks[q]
  <2>1. PICK r : r = asks[q][k]
    OBVIOUS
  <2>2. Pinned(r)'
    BY <1>1, <2>1, SeenTyped, PinnedKept DEF PinInv
  <2> QED
    BY <1>1, <2>1, <2>2
<1>2. CASE q = p /\ asks'[p][k] = Mine(p) /\ (HandOver(p) \/ UseArchive(p) \/ Publish(p))
  <2>0. /\ Mine(p).repo \in Repo /\ Wanted(Mine(p)) \in Commit
        /\ OnGithub(p) => Slot(Mine(p)) \in Key
    BY <1>2, MineTyped DEF HandOver, UseArchive, Publish, WorkInv, Works, Working, OnGithub
  <2>1. PICK r : r = Mine(p)
    OBVIOUS
  <2>2. asks'[q][k] = r
    BY <1>2, <2>1
  <2>3. CASE HandOver(p)
    <3>1. /\ pc[p] = "checkout" /\ moves[p] = << >> /\ pc'[p] = "fetched"
          /\ UNCHANGED <<present, head, dirty, asked, asks, read>>
      BY <2>3 DEF HandOver, TypeOK
    <3>2. head[r.repo] = Wanted(r) /\ r.repo \in present /\ r.repo \in Repo
      BY <2>0, <2>1, <3>1 DEF HeadInv, Heads, CloneInv, Gitting
    <3>3. NoClone(r.repo)
      BY <2>1, <3>1, OneHolder DEF NoClone, Gitting
    <3>4. NoClone(r.repo)'
      BY <3>2, <3>3, NoCloneKept
    <3>5. Alone(r) => dirty[r.repo] = None
      BY <3>2 DEF CloneInv, Kept, Alone
    <3>6. r.repo \notin Archived
      BY <2>1, <3>1 DEF WorkInv, Works, OnGithub, Gitting
    <3>7. Pinned(r)'
      BY <3>1, <3>2, <3>4, <3>5, <3>6 DEF Pinned, Alone, Fixed
    <3> QED
      BY <2>2, <3>7
  <2>4. CASE UseArchive(p) \/ Publish(p)
    <3>1. r.repo \in Archived /\ Slot(r) \in Key
      BY <2>0, <2>1, <2>4 DEF UseArchive, Publish, WorkInv, Works, OnGithub
    <3>2. archive'[Slot(r)] # "absent"
      BY <2>1, <2>4, <3>1 DEF UseArchive, Publish, ArchiveInv, Extracts, TypeOK
    <3>3. Pinned(r)'
      BY <3>1, <3>2 DEF Pinned
    <3> QED
      BY <2>2, <3>3
  <2> QED
    BY <1>2, <2>3, <2>4
<1>3. CASE q = p
  BY <1>1, <1>2, <1>3, SeenStep
<1>4. CASE q # p
  <2>1. Seen(q)' = Seen(q) /\ asks'[q] = asks[q]
    BY <1>4, OthersKeep DEF Seen
  <2> QED
    BY <1>1, <2>1
<1> QED
  BY <1>3, <1>4

(* What was prepared and copied.                                           *)
Right(p) == \A k \in 1..Len(read[p]) : LET r == asks[p][k] IN
    r.repo \in Archived \/ Alone(r) =>
        /\ read[p][k] = Wanted(r)
        /\ k \in 1..Len(copied[p]) => copied[p][k] = Wanted(r)

LEMMA FoundPinned ==
    ASSUME TypeOK, WorkInv, ArchiveInv, AskedInv, PinInv, NEW p \in Process,
           NEW k \in 1..Seen(p), asks[p][k].repo \in Archived \/ Alone(asks[p][k])
    PROVE  Found(asks[p][k]) = Wanted(asks[p][k])
<1>1. Pinned(asks[p][k]) /\ (asks[p][k].repo \in Archived => Slot(asks[p][k]) \in Key)
  BY SeenTyped DEF PinInv
<1> QED
  BY <1>1 DEF Pinned, Found, Fixed, ArchiveInv, ArchivesWhole

LEMMA PinnedStep ==
    ASSUME TypeOK, WorkInv, LockInv, ArchiveInv, AskedInv, PinInv, PinnedContent,
           NEW p \in Process, Steps(p)
    PROVE  PinnedContent'
<1> SUFFICES ASSUME NEW q \in Process PROVE Right(q)'
  BY DEF PinnedContent, Right, Alone
<1>0. Right(q) /\ Reads(q) /\ Len(read[q]) \in Nat /\ Len(copied[q]) \in Nat
  BY LenTyped DEF PinnedContent, Right, Alone, AskedInv
<1>a. ASSUME NEW k \in 1..Len(read[q]), NEW r, r = asks[q][k], r.repo \in Archived \/ Alone(r)'
      PROVE  /\ (r.repo \in Archived \/ Alone(r)) /\ k \in 1..Seen(q)
             /\ read[q][k] = Wanted(r)
             /\ k \in 1..Len(copied[q]) => copied[q][k] = Wanted(r)
  <2>1. k \in 1..Seen(q)
    BY <1>0 DEF Seen
  <2>2. r.repo \in Archived \/ Alone(r)
    BY <1>a, <2>1, SeenTyped, PinnedKept DEF PinInv
  <2> QED
    BY <1>0, <1>a, <2>1, <2>2 DEF Right
<1>1. CASE asks'[q] = asks[q] /\ read'[q] = read[q] /\ copied'[q] = copied[q]
  <2> SUFFICES ASSUME NEW k \in 1..Len(read[q]), NEW r, r = asks[q][k],
                      r.repo \in Archived \/ Alone(r)'
               PROVE  /\ read[q][k] = Wanted(r)
                      /\ k \in 1..Len(copied[q]) => copied[q][k] = Wanted(r)
    BY <1>1 DEF Right
  <2> QED
    BY <1>a
<1>2. CASE q = p /\ Prepare(p)
  <2> DEFINE n == Len(read[p]) + 1
  <2>1. /\ asks'[p] = asks[p] /\ copied'[p] = copied[p]
        /\ read'[p] = Append(read[p], Found(Mine(p)))
        /\ UNCHANGED asked /\ pc[p] = "fetched" /\ read[p] \in Seq(Tree) /\ asks[p][n] = Mine(p)
    BY <1>2 DEF Prepare, Mine, TypeOK
  <2>2. /\ Len(read'[p]) = n /\ read'[p][n] = Found(Mine(p)) /\ n \in 1..Seen(p)
        /\ \A k \in 1..Len(read[p]) : read'[p][k] = read[p][k]
    BY <1>0, <1>2, <2>1 DEF Seen
  <2>3. Mine(p).repo \in Archived \/ Alone(Mine(p)) => read'[p][n] = Wanted(Mine(p))
    BY <2>1, <2>2, FoundPinned
  <2>4. Len(copied[p]) < n
    BY <1>0, <1>2 DEF Reads
  <2> SUFFICES ASSUME NEW k \in 1..n, NEW r, r = asks[p][k], r.repo \in Archived \/ Alone(r)
               PROVE  /\ read'[p][k] = Wanted(r)
                      /\ k \in 1..Len(copied[p]) => copied[p][k] = Wanted(r)
    BY <1>2, <2>1, <2>2 DEF Right, Alone
  <2>5. CASE k = n
    BY <1>0, <2>1, <2>3, <2>4, <2>5
  <2>6. CASE k \in 1..Len(read[p])
    BY <1>0, <1>2, <2>2, <2>6 DEF Right
  <2> QED
    BY <1>0, <1>2, <2>5, <2>6
<1>3. CASE q = p /\ Stage(p)
  <2> DEFINE n == Len(copied[p]) + 1
  <2>1. /\ asks'[p] = asks[p] /\ read'[p] = read[p]
        /\ copied'[p] = Append(copied[p], Found(asks[p][n]))
        /\ UNCHANGED asked /\ copied[p] \in Seq(Tree) /\ n <= Len(asks[p]) /\ ~Fetching(p)
    BY <1>3 DEF Stage, TypeOK
  <2>2. /\ Len(copied'[p]) = n /\ copied'[p][n] = Found(asks[p][n])
        /\ \A k \in 1..Len(copied[p]) : copied'[p][k] = copied[p][k]
    BY <1>0, <1>3, <2>1
  <2>3. n \in 1..Seen(p)
    BY <1>0, <1>3, <2>1, LenTyped DEF Seen, Fetching
  <2>4. ASSUME NEW k \in 1..Len(read[p]),
               asks[p][k].repo \in Archived \/ Alone(asks[p][k])
        PROVE  /\ read[p][k] = Wanted(asks[p][k])
               /\ k \in 1..n => copied'[p][k] = Wanted(asks[p][k])
    <3>1. CASE k = n
      BY <1>0, <1>3, <2>2, <2>3, <2>4, <3>1, FoundPinned DEF Right
    <3>2. CASE k # n
      BY <1>0, <1>3, <2>2, <2>4, <3>2 DEF Right
    <3> QED
      BY <3>1, <3>2
  <2>5. \A r : Alone(r)' <=> Alone(r)
    BY <2>1 DEF Alone
  <2> HIDE DEF n
  <2> QED
    BY <1>3, <2>1, <2>2, <2>4, <2>5 DEF Right
<1>4. CASE Len(read'[q]) = 0
  BY <1>4 DEF Right
<1>5. q # p => asks'[q] = asks[q] /\ read'[q] = read[q] /\ copied'[q] = copied[q]
  BY OthersKeep
<1>6. CASE FailToResolve(p) \/ DropPending(p) \/ Kill(p)
  BY <1>1, <1>4, <1>5, <1>6, Forgets
<1>7. CASE Start(p)
  BY <1>0, <1>1, <1>4, <1>5, <1>7, EmptySeq DEF Start, Reads
<1>8. CASE UNCHANGED <<asks, read, copied>>
  BY <1>1, <1>8
<1> QED
  BY <1>1, <1>2, <1>3, <1>5, <1>6, <1>7, <1>8 DEF Steps, Blocks, Proceeds, LockProject,
     CreatePending, UseArchive, Download, Extract, Publish, LockRepo, Clone, Fetch, StayThere,
     BeginCheckout, EndCheckout, CheckoutOverChanges, HandOver, Build, SetAside, PutInPlace,
     PutBack, Fail, Release

-----------------------------------------------------------------------------
(* The inductive invariant.                                                *)

IInv ==
    /\ TypeOK /\ WorkInv /\ LockInv
    /\ ArchiveInv /\ BuildInv
    /\ HeadInv /\ DirtyInv
    /\ AskedInv /\ CloneInv /\ PinInv /\ PinnedContent

LEMMA InitIInv == Init => IInv
<1> SUFFICES ASSUME Init PROVE IInv
  OBVIOUS
<1> USE DEF Init
<1>0. \A S : << >> \in Seq(S) /\ Len(<< >>) = 0
  BY EmptySeq
<1>1. TypeOK
  BY <1>0, BoundAssumption DEF TypeOK, Extraction
<1>2. WorkInv /\ LockInv
  BY <1>0 DEF WorkInv, Works, LockInv, Locks, Working, Holding, Gitting
<1>3. ArchiveInv /\ BuildInv
  BY DEF ArchiveInv, ArchivesWhole, Extracts, BuildInv, Builds
<1>4. HeadInv /\ DirtyInv
  BY DEF HeadInv, Heads, DirtyInv
<1>5. \A p \in Process : Seen(p) = 0
  BY <1>0 DEF Seen
<1>6. AskedInv
  BY <1>0, <1>5 DEF AskedInv, Asked, Reads, Gitting
<1>7. CloneInv /\ PinInv /\ PinnedContent
  BY <1>0, <1>5 DEF CloneInv, Kept, Gitting, PinInv, PinnedContent
<1> QED
  BY <1>1, <1>2, <1>3, <1>4, <1>6, <1>7 DEF IInv

LEMMA TypeStep ==
    ASSUME TypeOK, WorkInv, NEW p \in Process, Steps(p) PROVE TypeOK'
<1>1. ClonesType' /\ ArchivesType' /\ StagesType' /\ PcType' /\ SyncType'
  BY ClonesTypeStep, ArchivesTypeStep, StagesTypeStep, PcTypeStep, SyncTypeStep
<1> QED
  BY <1>1 DEF TypeOK, ClonesType, ArchivesType, StagesType, PcType, SyncType, Holding, Working

LEMMA NextIInv == IInv /\ [Next]_vars => IInv'
<1> SUFFICES ASSUME IInv, [Next]_vars PROVE IInv'
  OBVIOUS
<1>1. ASSUME NEW p \in Process, Steps(p) PROVE IInv'
  BY <1>1, TypeStep, WorkStep, LockStep, ArchiveStep, BuildStep, HeadStep, DirtyStep, AskedStep,
     CloneStep, PinStep, PinnedStep DEF IInv
<1>2. CASE UNCHANGED vars
  <2> USE <1>2 DEF vars, IInv
  <2>1. TypeOK' /\ WorkInv' /\ LockInv'
    BY DEF TypeOK, WorkInv, Works, Fetching, OnGithub, Mine, LockInv, Locks
  <2>2. ArchiveInv' /\ BuildInv'
    BY DEF ArchiveInv, ArchivesWhole, Extracts, Mine, BuildInv, Builds, Full
  <2>3. HeadInv' /\ DirtyInv'
    BY DEF HeadInv, Heads, Mine, DirtyInv
  <2>4. AskedInv'
    BY DEF AskedInv, Asked, Reads, Seen, Mine
  <2>5. CloneInv'
    BY DEF CloneInv, Kept, NoClone, Mine
  <2>6. PinInv'
    BY DEF PinInv, Pinned, Alone, Fixed, Seen, NoClone, Mine
  <2>7. PinnedContent'
    BY DEF PinnedContent
  <2> QED
    BY <2>1, <2>2, <2>3, <2>4, <2>5, <2>6, <2>7
<1> QED
  BY <1>1, <1>2 DEF Next, Steps

(* IInv is an invariant.                                                   *)
THEOREM Invariance == Spec => []IInv
BY InitIInv, NextIInv, PTL DEF Spec

-----------------------------------------------------------------------------
(* The theorems.                                                           *)

(* Every variable keeps its type.                                          *)
THEOREM TypeCorrect == Spec => []TypeOK
<1>1. IInv => TypeOK
  BY DEF IInv
<1> QED
  BY <1>1, Invariance, PTL

(* The archive cache never shows less than the whole tree of a commit,     *)
(* however many syncs fetch it at once and are killed (`fetch_archive`,    *)
(* `publish_cache_dir_if_absent`).                                         *)
THEOREM ArchivesAreWhole == Spec => []ArchivesWhole
<1>1. IInv => ArchivesWhole
  BY DEF IInv, ArchiveInv
<1> QED
  BY <1>1, Invariance, PTL

(* The flock of a clone is enough for `fetch_git_clone` to return with HEAD *)
(* at the commit it was asked for, and with its files as long as nothing    *)
(* was killed.                                                              *)
THEOREM HandsOverRight == Spec => []HandedOverRight
<1>1. IInv => HandedOverRight
  <2> SUFFICES ASSUME IInv, NEW p \in Process, pc[p] = "checkout", moves[p] = << >>
               PROVE  /\ head[Mine(p).repo] = Wanted(Mine(p))
                      /\ faults = 0 => dirty[Mine(p).repo] = None
    BY DEF HandedOverRight
  <2>1. head[Mine(p).repo] = Wanted(Mine(p))
    BY DEF IInv, HeadInv, Heads
  <2>2. ASSUME faults = 0, dirty[Mine(p).repo] # None PROVE FALSE
    <3>1. Mine(p).repo \in Repo
      BY MineTyped DEF IInv, WorkInv, Works, Working
    <3>2. PICK q \in Process : pc[q] = "moving" /\ Mine(q).repo = Mine(p).repo
      BY <2>2, <3>1 DEF IInv, DirtyInv
    <3> QED
      BY <3>2, OneHolder DEF IInv, Gitting
  <2> QED
    BY <2>1, <2>2
<1> QED
  BY <1>1, Invariance, PTL

(* What is prepared and staged for a package is the commit its request     *)
(* names, if it comes as an archive or nobody ever asked for another       *)
(* commit of its repository: a clone that was once at the only commit ever *)
(* asked for is never moved again.                                         *)
THEOREM ContentPinned == Spec => []PinnedContent
<1>1. IInv => PinnedContent
  BY DEF IInv
<1> QED
  BY <1>1, Invariance, PTL

(* A sync that published its generation finds it in .mars/staging, however *)
(* late a previous sync removes what it takes for its own pending one.     *)
THEOREM GenerationIsOwn == Spec => []OwnGeneration
<1>1. IInv => OwnGeneration
  BY DEF IInv, BuildInv, Builds, Full, OwnGeneration
<1> QED
  BY <1>1, Invariance, PTL

=============================================================================
