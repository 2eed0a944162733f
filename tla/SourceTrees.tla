------------------------------ MODULE SourceTrees ------------------------------
(***************************************************************************)
(* How syncs get the files of their packages. A source on github.com is    *)
(* downloaded as an archive of one commit, extracted aside and published   *)
(* by a rename; any other repository has one clone in the cache that all   *)
(* projects share and that every fetch moves to the commit it wants, under *)
(* a flock that ends with the fetch. A sync fetches and reads (`prepare`)  *)
(* one package after the other, then copies their payload into its staging *)
(* generation, and publishes that after the plan is applied. The project's *)
(* own flock, sync.lock, is held meanwhile.                                *)
(*                                                                         *)
(* A tree is the commit whose files it holds, or Mixed.                    *)
(***************************************************************************)
EXTENDS Naturals, Sequences, FiniteSets

CONSTANTS
    Process,      \* processes that run syncs; each has its own process id
    Project,
    ProjectOf,    \* the project each process syncs
    Repo,
    Archived,     \* the repositories on github.com, fetched by https
    Commit,
    Asks,         \* what a sync may have to fetch, in order
    MaxSyncs,     \* bound on the syncs that are run
    MaxFaults,    \* bound on killed processes
    Mixed,        \* files of more than one commit, or not all of one
    None

(* A request names a tag, by the commit it stands for upstream, or an      *)
(* exact commit (a branch, a locked commit), or both when a tag's lock is  *)
(* replayed.                                                               *)
Request == [repo : Repo, tag : Commit \cup {None}, exact : Commit \cup {None}]
Tree == Commit \cup {None, Mixed}
Extraction == {"absent", "part", "whole"}
Key == Archived \X Commit

ASSUME AsksAssumption ==
    \A s \in Asks : s \in Seq(Request) /\ \A k \in 1..Len(s) : s[k].tag # None \/ s[k].exact # None
ASSUME ProjectAssumption == ProjectOf \in [Process -> Project]
ASSUME ArchivedAssumption == Archived \subseteq Repo
ASSUME NoneAssumption == None \notin Process \cup Commit /\ Mixed \notin Commit \cup {None}
ASSUME BoundAssumption == MaxSyncs \in Nat /\ MaxFaults \in Nat

VARIABLES
    present,      \* repositories whose clone directory exists
    head,         \* the commit a clone's HEAD and index name
    dirty,        \* the commit whose checkout is under way or was cut short
    broken,       \* clones with a lock file that a killed git left
    gitLock,      \* flock beside each clone
    archive,      \* archives/<key>
    tmp,          \* archives/<key>.tmp.<pid>
    syncLock,     \* flock on .mars/sync.lock
    pending,      \* .mars/.staging.pending: who made it and the packages in it
    staging,      \* .mars/staging, the generation published last
    backup,       \* .mars/.staging.old
    pc,
    asks,         \* what the sync fetches
    moves,        \* the checkouts that the fetch under way still has to make
    read,         \* the tree each package was prepared from
    copied,       \* the tree its payload was copied from
    asked,        \* commits that any fetch of a repository has asked for
    syncs,
    faults

clones == <<present, head, dirty, broken, gitLock>>
archives == <<archive, tmp>>
stages == <<syncLock, pending, staging, backup>>
sync == <<asks, moves, read, copied>>
bounds == <<syncs, faults>>
vars == <<clones, archives, stages, pc, sync, asked, bounds>>

Goes(p, here, there) == pc[p] = here /\ pc' = [pc EXCEPT ![p] = there]
Wanted(r) == IF r.exact # None THEN r.exact ELSE r.tag
Slot(r) == <<r.repo, Wanted(r)>>
Mine(p) == asks[p][Len(read[p]) + 1]
Fetching(p) == Len(read[p]) < Len(asks[p])
OnGithub(p) == Mine(p).repo \in Archived

(* What a reader of the path that a fetch returned finds there now.        *)
Found(r) ==
    IF r.repo \in Archived
    THEN IF archive[Slot(r)] = "whole" THEN Wanted(r) ELSE Mixed
    ELSE IF dirty[r.repo] = None THEN head[r.repo] ELSE Mixed

Init ==
    /\ present = {} /\ broken = {}
    /\ head = [u \in Repo |-> None]
    /\ dirty = [u \in Repo |-> None]
    /\ gitLock = [u \in Repo |-> None]
    /\ archive = [k \in Key |-> "absent"]
    /\ tmp = [p \in Process |-> [k \in Key |-> "absent"]]
    /\ syncLock = [j \in Project |-> None]
    /\ pending = [j \in Project |-> None]
    /\ staging = [j \in Project |-> None]
    /\ backup = [j \in Project |-> None]
    /\ pc = [p \in Process |-> "idle"]
    /\ asks = [p \in Process |-> << >>]
    /\ moves = [p \in Process |-> << >>]
    /\ read = [p \in Process |-> << >>]
    /\ copied = [p \in Process |-> << >>]
    /\ asked = [u \in Repo |-> {}]
    /\ syncs = 0 /\ faults = 0

----------------------------------------------------------------------------
(* The sync lock and the pending generation.                               *)

Start(p) ==
    /\ Goes(p, "idle", "waiting")
    /\ syncs < MaxSyncs
    /\ syncs' = syncs + 1
    /\ \E s \in Asks : asks' = [asks EXCEPT ![p] = s]
    /\ UNCHANGED <<clones, archives, stages, moves, read, copied, asked, faults>>

(* [mutant] A sync does not wait for the lock of its project.              *)
LockProjectAtOnce(p) ==
    /\ Goes(p, "waiting", "loading")
    /\ syncLock' = [syncLock EXCEPT ![ProjectOf[p]] = p]
    /\ pending' = [pending EXCEPT ![ProjectOf[p]] = None]
    /\ UNCHANGED <<clones, archives, staging, backup, sync, asked, bounds>>

(* load_config waits for the flock and reclaims what an interrupted sync   *)
(* left.                                                                   *)
LockProject(p) ==
    /\ Goes(p, "waiting", "loading")
    /\ syncLock[ProjectOf[p]] = None
    /\ syncLock' = [syncLock EXCEPT ![ProjectOf[p]] = p]
    /\ pending' = [pending EXCEPT ![ProjectOf[p]] = None]
    /\ UNCHANGED <<clones, archives, staging, backup, sync, asked, bounds>>

(* fs::create_dir refuses a directory that exists.                         *)
CreateRefused(p) == pc[p] = "loading" /\ pending[ProjectOf[p]] # None

CreatePending(p) ==
    /\ Goes(p, "loading", "resolving")
    /\ ~CreateRefused(p)
    /\ pending' = [pending EXCEPT ![ProjectOf[p]] = [by |-> p, has |-> {}]]
    /\ UNCHANGED <<clones, archives, syncLock, staging, backup, sync, asked, bounds>>

----------------------------------------------------------------------------
(* fetch_archive.                                                          *)

UseArchive(p) ==
    /\ Goes(p, "resolving", "fetched")
    /\ Fetching(p) /\ OnGithub(p)
    /\ archive[Slot(Mine(p))] # "absent"
    /\ UNCHANGED <<clones, archives, stages, sync, asked, bounds>>

(* A directory of the same name, from a killed process that had this       *)
(* process id, is removed first.                                           *)
Download(p) ==
    /\ Goes(p, "resolving", "extracting")
    /\ Fetching(p) /\ OnGithub(p)
    /\ archive[Slot(Mine(p))] = "absent"
    /\ tmp' = [tmp EXCEPT ![p][Slot(Mine(p))] = "part"]
    /\ UNCHANGED <<clones, archive, stages, sync, asked, bounds>>

Extract(p) ==
    /\ Goes(p, "extracting", "extracted")
    /\ tmp' = [tmp EXCEPT ![p][Slot(Mine(p))] = "whole"]
    /\ UNCHANGED <<clones, archive, stages, sync, asked, bounds>>

(* publish_cache_dir_if_absent: whoever comes second drops its own copy.   *)
(* The rename refuses a directory that appeared since the look.            *)
Publish(p) ==
    LET k == Slot(Mine(p)) IN
    /\ Goes(p, "extracted", "fetched")
    /\ archive' = [archive EXCEPT ![k] = IF @ = "absent" THEN tmp[p][k] ELSE @]
    /\ tmp' = [tmp EXCEPT ![p][k] = "absent"]
    /\ UNCHANGED <<clones, stages, sync, asked, bounds>>

----------------------------------------------------------------------------
(* fetch_git_clone. What git does to a clone is its own code, modelled by  *)
(* its effect on HEAD and on the files.                                    *)

(* [mutant] Fetches of one clone do not exclude each other.                *)
LockRepoShared(p) ==
    LET u == Mine(p).repo IN
    /\ Fetching(p) /\ ~OnGithub(p)
    /\ Goes(p, "resolving", IF u \in present THEN "fetching" ELSE "cloning")
    /\ gitLock' = [gitLock EXCEPT ![u] = p]
    /\ present' = present \cup {u}
    /\ asked' = [asked EXCEPT ![u] = @ \cup ({Mine(p).tag, Mine(p).exact} \ {None})]
    /\ UNCHANGED <<head, dirty, broken, archives, stages, sync, bounds>>

LockRepo(p) ==
    LET u == Mine(p).repo IN
    /\ Fetching(p) /\ ~OnGithub(p)
    /\ Goes(p, "resolving", IF u \in present THEN "fetching" ELSE "cloning")
    /\ gitLock[u] = None
    /\ gitLock' = [gitLock EXCEPT ![u] = p]
    /\ present' = present \cup {u}
    /\ asked' = [asked EXCEPT ![u] = @ \cup ({Mine(p).tag, Mine(p).exact} \ {None})]
    /\ UNCHANGED <<head, dirty, broken, archives, stages, sync, bounds>>

(* `git clone` leaves the tag, or the default branch, checked out; an      *)
(* exact commit is checked out afterwards.                                 *)
Clone(p) ==
    LET r == Mine(p) IN
    /\ Goes(p, "cloning", "checkout")
    /\ \E c \in IF r.tag # None THEN {r.tag} ELSE Commit :
           head' = [head EXCEPT ![r.repo] = c]
    /\ moves' = [moves EXCEPT ![p] = IF r.exact = None THEN << >> ELSE <<r.exact>>]
    /\ UNCHANGED <<present, dirty, broken, gitLock, archives, stages, asks, read,
                   copied, asked, bounds>>

(* [mutant] An exact commit is checked out in a fresh clone only.          *)
FetchTag(p) ==
    /\ Goes(p, "fetching", "checkout")
    /\ moves' = [moves EXCEPT ![p] = IF Mine(p).tag = None THEN << >> ELSE <<Mine(p).tag>>]
    /\ UNCHANGED <<clones, archives, stages, asks, read, copied, asked, bounds>>

Checkouts(r) ==
    CASE r.exact = None -> <<r.tag>>
      [] r.tag = None -> <<r.exact>>
      [] OTHER -> <<r.tag, r.exact>>

(* The fetches of a clone that exists bring commits and tags and leave the *)
(* files alone.                                                            *)
Fetch(p) ==
    /\ Goes(p, "fetching", "checkout")
    /\ moves' = [moves EXCEPT ![p] = Checkouts(Mine(p))]
    /\ UNCHANGED <<clones, archives, stages, asks, read, copied, asked, bounds>>

(* git keeps local changes when HEAD is already at the commit, and says so *)
(* without an error.                                                       *)
StayThere(p) ==
    LET u == Mine(p).repo IN
    /\ pc[p] = "checkout" /\ moves[p] # << >> /\ u \notin broken
    /\ head[u] = Head(moves[p])
    /\ moves' = [moves EXCEPT ![p] = Tail(@)]
    /\ UNCHANGED <<clones, archives, stages, pc, asks, read, copied, asked, bounds>>

BeginCheckout(p) ==
    LET u == Mine(p).repo IN
    /\ moves[p] # << >> /\ u \notin broken
    /\ Goes(p, "checkout", "moving")
    /\ head[u] # Head(moves[p]) /\ dirty[u] = None
    /\ dirty' = [dirty EXCEPT ![u] = Head(moves[p])]
    /\ UNCHANGED <<present, head, broken, gitLock, archives, stages, sync, asked, bounds>>

EndCheckout(p) ==
    LET u == Mine(p).repo IN
    /\ Goes(p, "moving", "checkout")
    /\ head' = [head EXCEPT ![u] = Head(moves[p])]
    /\ dirty' = [dirty EXCEPT ![u] = None]
    /\ moves' = [moves EXCEPT ![p] = Tail(@)]
    /\ UNCHANGED <<present, broken, gitLock, archives, stages, asks, read, copied,
                   asked, bounds>>

(* Over files that an interrupted checkout left, git refuses to go where   *)
(* that checkout went; elsewhere it may keep them.                         *)
CheckoutOverChanges(p) ==
    LET u == Mine(p).repo IN
    /\ pc[p] = "checkout" /\ moves[p] # << >> /\ u \notin broken
    /\ dirty[u] # None /\ Head(moves[p]) \notin {head[u], dirty[u]}
    /\ head' = [head EXCEPT ![u] = Head(moves[p])]
    /\ moves' = [moves EXCEPT ![p] = Tail(@)]
    /\ UNCHANGED <<present, dirty, broken, gitLock, archives, stages, pc, asks, read,
                   copied, asked, bounds>>

(* fetch_git_clone returns the path and drops the flock.                   *)
Unlock(u) == gitLock' = [gitLock EXCEPT ![u] = None]

(* [mutant] The flock outlives the fetch and is never dropped.             *)
HandOverLocked(p) ==
    /\ Goes(p, "checkout", "fetched")
    /\ moves[p] = << >>
    /\ UNCHANGED <<clones, archives, stages, sync, asked, bounds>>

HandOver(p) ==
    /\ Goes(p, "checkout", "fetched")
    /\ moves[p] = << >>
    /\ Unlock(Mine(p).repo)
    /\ UNCHANGED <<present, head, dirty, broken, archives, stages, sync, asked, bounds>>

----------------------------------------------------------------------------
(* Preparation, staging and publication.                                   *)

Prepare(p) ==
    /\ Goes(p, "fetched", "resolving")
    /\ read' = [read EXCEPT ![p] = Append(@, Found(Mine(p)))]
    /\ UNCHANGED <<clones, archives, stages, asks, moves, copied, asked, bounds>>

(* materialize_prepared_tree writes what was prepared and copies payload,  *)
(* hooks and MCP servers from the fetched path. It makes the directories   *)
(* it needs, the generation's included.                                    *)
Stage(p) ==
    LET j == ProjectOf[p]
        k == Len(copied[p]) + 1 IN
    /\ pc[p] = "resolving" /\ ~Fetching(p) /\ k <= Len(asks[p])
    /\ copied' = [copied EXCEPT ![p] = Append(@, Found(asks[p][k]))]
    /\ pending' = [pending EXCEPT ![j] =
           [by |-> p, has |-> {k} \cup (IF @ = None THEN {} ELSE @.has)]]
    /\ UNCHANGED <<clones, archives, syncLock, staging, backup, pc, asks, moves, read,
                   asked, bounds>>

(* The target is built from the staged trees: one that is gone is an error. *)
Build(p) ==
    /\ Goes(p, "resolving", "built")
    /\ Len(copied[p]) = Len(asks[p])
    /\ pending[ProjectOf[p]] = [by |-> p, has |-> 1..Len(asks[p])]
    /\ UNCHANGED <<clones, archives, stages, sync, asked, bounds>>

(* replace_generated_dir: the plan is applied; the published generation is *)
(* renamed away, and the pending one into its place.                       *)
SetAside(p) ==
    LET j == ProjectOf[p] IN
    /\ Goes(p, "built", "swapping")
    /\ backup' = [backup EXCEPT ![j] = staging[j]]
    /\ staging' = [staging EXCEPT ![j] = None]
    /\ UNCHANGED <<clones, archives, syncLock, pending, sync, asked, bounds>>

PutInPlace(p) ==
    LET j == ProjectOf[p] IN
    /\ Goes(p, "swapping", "published")
    /\ pending[j] # None
    /\ staging' = [staging EXCEPT ![j] = pending[j]]
    /\ pending' = [pending EXCEPT ![j] = None]
    /\ \E b \in {None, backup[j]} : backup' = [backup EXCEPT ![j] = b]
    /\ UNCHANGED <<clones, archives, syncLock, sync, asked, bounds>>

PutBack(p) ==
    LET j == ProjectOf[p] IN
    /\ Goes(p, "swapping", "failed")
    /\ staging' = [staging EXCEPT ![j] = backup[j]]
    /\ backup' = [backup EXCEPT ![j] = None]
    /\ pending' = IF backup[j] = None THEN pending ELSE [pending EXCEPT ![j] = None]
    /\ UNCHANGED <<clones, archives, syncLock, sync, asked, bounds>>

----------------------------------------------------------------------------
(* The end of a sync, by success, by an error or by a kill.                *)

(* The sync forgets what it knew.                                          *)
Forget(p) ==
    /\ asks' = [asks EXCEPT ![p] = << >>]
    /\ moves' = [moves EXCEPT ![p] = << >>]
    /\ read' = [read EXCEPT ![p] = << >>]
    /\ copied' = [copied EXCEPT ![p] = << >>]

(* `resolve_graph` fails. A failed fetch drops the flock of the clone and  *)
(* removes an extraction that failed; a clone that failed removes its      *)
(* directory. `preparation` is dropped, then the argument `loaded` with    *)
(* the flock; nothing is there to drop when `create` failed.               *)
FailToResolve(p) ==
    /\ \/ pc[p] \in {"loading", "extracting", "extracted", "cloning", "fetching", "checkout",
                     "fetched"}
       \/ pc[p] = "resolving" /\ copied[p] = << >>
    /\ pc' = [pc EXCEPT ![p] = "idle"]
    /\ gitLock' = [u \in Repo |-> IF gitLock[u] = p THEN None ELSE gitLock[u]]
    /\ present' = IF pc[p] = "cloning" THEN present \ {Mine(p).repo} ELSE present
    /\ IF pc[p] = "extracting"
       THEN tmp' = [tmp EXCEPT ![p][Slot(Mine(p))] = "absent"]
       ELSE UNCHANGED tmp
    /\ IF pc[p] = "loading"
       THEN UNCHANGED pending
       ELSE pending' = [pending EXCEPT ![ProjectOf[p]] = None]
    /\ syncLock' = [syncLock EXCEPT ![ProjectOf[p]] = None]
    /\ Forget(p)
    /\ UNCHANGED <<head, dirty, broken, archive, staging, backup, asked, bounds>>

(* Anything after it fails.                                                *)
Fail(p) ==
    /\ pc[p] = "built" \/ (pc[p] = "resolving" /\ ~Fetching(p))
    /\ pc' = [pc EXCEPT ![p] = "failed"]
    /\ UNCHANGED <<clones, archives, stages, sync, asked, bounds>>

(* From here on ResolvedState holds both, and drops its fields in order:   *)
(* `loaded`, with the flock, before `preparation`, which removes the       *)
(* pending generation.                                                     *)
Release(p) ==
    /\ pc[p] \in {"failed", "published"}
    /\ pc' = [pc EXCEPT ![p] = "dropping"]
    /\ syncLock' = [syncLock EXCEPT ![ProjectOf[p]] = None]
    /\ UNCHANGED <<clones, archives, pending, staging, backup, sync, asked, bounds>>

DropPending(p) ==
    /\ Goes(p, "dropping", "idle")
    /\ pending' = [pending EXCEPT ![ProjectOf[p]] = None]
    /\ Forget(p)
    /\ UNCHANGED <<clones, archives, syncLock, staging, backup, asked, bounds>>

(* A kill, of the process and of the git it runs: flocks end, everything   *)
(* else stays. A checkout may not have written a file yet, git may leave   *)
(* its own lock file, and a clone may still remove what it made. A git     *)
(* that fails half way is the same to the files.                           *)
Kill(p) ==
    LET u == Mine(p).repo IN
    /\ pc[p] # "idle" /\ faults < MaxFaults
    /\ faults' = faults + 1
    /\ pc' = [pc EXCEPT ![p] = "idle"]
    /\ syncLock' = [j \in Project |-> IF syncLock[j] = p THEN None ELSE syncLock[j]]
    /\ gitLock' = [v \in Repo |-> IF gitLock[v] = p THEN None ELSE gitLock[v]]
    /\ IF pc[p] = "moving"
       THEN \E d \in {None, dirty[u]} : dirty' = [dirty EXCEPT ![u] = d]
       ELSE UNCHANGED dirty
    /\ IF pc[p] \in {"cloning", "moving"}
       THEN broken' \in {broken, broken \cup {u}}
       ELSE UNCHANGED broken
    /\ IF pc[p] = "cloning"
       THEN present' \in {present, present \ {u}}
       ELSE UNCHANGED present
    /\ Forget(p)
    /\ UNCHANGED <<head, archives, pending, staging, backup, asked, syncs>>

(* What ends in an error whatever happens.                                 *)
Stuck(p) ==
    LET u == Mine(p).repo IN
    \/ CreateRefused(p)
    \/ /\ pc[p] = "checkout" /\ moves[p] # << >>
       /\ u \in broken \/ (dirty[u] = Head(moves[p]) /\ head[u] # Head(moves[p]))

Incomplete(p) ==
    /\ pc[p] = "resolving" /\ Len(copied[p]) = Len(asks[p])
    /\ pending[ProjectOf[p]] # [by |-> p, has |-> 1..Len(asks[p])]

Blocks(p) == LockProject(p) \/ LockRepo(p)
Proceeds(p) ==
    \/ CreatePending(p) \/ UseArchive(p) \/ Download(p) \/ Extract(p) \/ Publish(p)
    \/ Clone(p) \/ Fetch(p) \/ StayThere(p) \/ BeginCheckout(p) \/ EndCheckout(p)
    \/ CheckoutOverChanges(p) \/ HandOver(p)
    \/ Prepare(p) \/ Stage(p) \/ Build(p) \/ SetAside(p) \/ PutInPlace(p) \/ PutBack(p)
    \/ (Stuck(p) /\ FailToResolve(p)) \/ (Incomplete(p) /\ Fail(p)) \/ Release(p) \/ DropPending(p)

Next == \E p \in Process : Start(p) \/ Blocks(p) \/ Proceeds(p) \/ FailToResolve(p) \/ Fail(p)
                               \/ Kill(p)

(* A running process goes on, and a flock is granted to whoever waits for  *)
(* it long enough.                                                         *)
Fairness ==
    \A p \in Process :
        WF_vars(Proceeds(p)) /\ SF_vars(LockProject(p)) /\ SF_vars(LockRepo(p))

Spec == Init /\ [][Next]_vars /\ Fairness

----------------------------------------------------------------------------
(* Properties.                                                             *)

Generation == [by : Process, has : SUBSET Nat]

TypeOK ==
    /\ present \subseteq Repo /\ broken \subseteq Repo
    /\ head \in [Repo -> Commit \cup {None}] /\ dirty \in [Repo -> Commit \cup {None}]
    /\ gitLock \in [Repo -> Process \cup {None}] /\ asked \in [Repo -> SUBSET Commit]
    /\ archive \in [Key -> Extraction] /\ tmp \in [Process -> [Key -> Extraction]]
    /\ syncLock \in [Project -> Process \cup {None}]
    /\ pending \in [Project -> Generation \cup {None}]
    /\ staging \in [Project -> Generation \cup {None}]
    /\ backup \in [Project -> Generation \cup {None}]
    /\ pc \in [Process -> {"idle", "waiting", "loading", "resolving", "extracting", "extracted",
                           "cloning", "fetching", "checkout", "moving", "fetched", "built",
                           "swapping", "published", "failed", "dropping"}]
    /\ asks \in [Process -> Seq(Request)] /\ moves \in [Process -> Seq(Commit)]
    /\ read \in [Process -> Seq(Tree)] /\ copied \in [Process -> Seq(Tree)]
    /\ syncs \in 0..MaxSyncs /\ faults \in 0..MaxFaults

(* What a sync finds in the archive cache is the whole tree of its commit, *)
(* although nobody locks it and a download may be killed while another     *)
(* sync extracts the same commit (`fetch_archive`,                         *)
(* `publish_cache_dir_if_absent`).                                         *)
ArchivesWhole == \A k \in Key : archive[k] \in {"absent", "whole"}

(* When a fetch hands its clone over, HEAD is at the commit it was asked   *)
(* for, whoever else fetches the same repository; and so are the files, as *)
(* long as no checkout was ever cut short (the flock in `fetch_git_clone`).*)
HandedOverRight ==
    \A p \in Process : pc[p] = "checkout" /\ moves[p] = << >> =>
        /\ head[Mine(p).repo] = Wanted(Mine(p))
        /\ faults = 0 => dirty[Mine(p).repo] = None

(* A package is prepared and copied from the commit its request names, if  *)
(* it comes as an archive, or if nobody ever asked for another commit of   *)
(* its repository: kills, failed fetches and other syncs do not matter.    *)
PinnedContent ==
    \A p \in Process : \A k \in 1..Len(read[p]) :
        LET r == asks[p][k] IN
        r.repo \in Archived \/ asked[r.repo] = {Wanted(r)} =>
            /\ read[p][k] = Wanted(r)
            /\ k \in 1..Len(copied[p]) => copied[p][k] = Wanted(r)

(* While a sync goes on after it published its staging generation, that is *)
(* what .mars/staging holds, with all of its packages                      *)
(* (`publish_staging_generation`; target sync reads from there), although  *)
(* the pending one may be lost before: to a sync that ends and removes it  *)
(* after it released the lock.                                             *)
OwnGeneration ==
    \A p \in Process : pc[p] = "published" =>
        staging[ProjectOf[p]] = [by |-> p, has |-> 1..Len(asks[p])]

(* Every sync ends: the flocks of project and clones are never held by two *)
(* that wait for each other, nor by one that is gone.                      *)
SyncsEnd == \A p \in Process : pc[p] # "idle" ~> pc[p] = "idle"
==============================================================================
