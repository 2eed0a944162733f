------------------------- MODULE PluginRelease_proofs -------------------------
(***************************************************************************)
(* Theorems about PluginRelease, for any number of commands, root files,   *)
(* inputs and versions, and any number of edits, faults and commands.      *)
(***************************************************************************)
EXTENDS PluginRelease, TLAPS

-----------------------------------------------------------------------------
(* Types                                                                   *)

PC == {"idle", "start", "recover first", "load", "recover", "plan", "capture", "bump",
       "publish", "aside", "swapped", "apply", "commit", "tag", "reset", "restore"}
Job == [inputs : Inputs, version : Version]
Plan == [writes : Record, deletes : SUBSET RootFile, prev : Record]
Snapshot == [head : Commit, root : SUBSET RootFile]
Path == RootFile \cup {"mars.toml", "plugin"}

DiskType ==
    /\ inputs \in Inputs /\ version \in Version /\ root \in Files
    /\ out \in Tree /\ new \in Tree /\ old \in Tree
    /\ head \in Commit /\ tags \in [Version -> Commit \cup {None}]
    /\ lock \in Proc \cup {Free}
    /\ sound \in BOOLEAN /\ disturbed \in BOOLEAN
SessionType ==
    /\ pc \in [Proc -> PC] /\ cmd \in [Proc -> {"build", "release", "bare"}]
    /\ job \in [Proc -> Job \cup {NoJob}]
    /\ known \in [Proc -> Record] /\ plan \in [Proc -> Plan]
    /\ done \in [Proc -> SUBSET Path] /\ start \in [Proc -> Snapshot \cup {None}]
CountType ==
    edits \in 0 .. MaxEdits /\ faults \in 0 .. MaxFaults /\ commands \in 0 .. MaxCommands
TypeOK == DiskType /\ SessionType /\ CountType

-----------------------------------------------------------------------------
(* Where a command is                                                      *)

BuildPC == {"idle", "load", "recover", "plan", "publish", "aside", "swapped", "apply"}
BarePC == {"start", "recover first", "load", "capture", "bump", "commit", "tag", "reset",
           "restore"}
BeforePC == {"start", "recover first", "load", "recover", "plan", "capture"}
AfterPC == {"bump", "publish", "aside", "swapped", "apply", "commit", "tag", "reset", "restore"}
AtHeadPC == {"bump", "publish", "aside", "swapped", "apply", "commit", "restore"}
UnlockedPC == {"commit", "tag", "reset", "restore"}
SwapPC == {"aside", "swapped", "apply"}

(* A release without plugins has no plan and does not stage.               *)
CmdInv(p) ==
    /\ cmd[p] = "build" => pc[p] \in BuildPC
    /\ pc[p] = "idle" => cmd[p] = "build"
    /\ cmd[p] = "bare" => pc[p] \in BarePC /\ plan[p] = NoPlan
    /\ pc[p] # "idle" => job[p] \in Job
    /\ pc[p] \in AfterPC /\ Releases(p) => start[p] \in Snapshot
OneRelease == \A p, q \in Proc : Releases(p) /\ Releases(q) => p = q

(* The lock is held from recovery to the end of publication.               *)
Staging(p) == pc[p] \in {"capture", "bump", "publish", "aside", "swapped", "apply"} /\ Staged(p)
Holds(p) == pc[p] \in {"recover first", "recover", "plan"} \/ Staging(p)
LockInv(p) == Holds(p) => lock = p

-----------------------------------------------------------------------------
(* Plans and trees                                                         *)

Made(p) == [version |-> job[p].version, root |-> plan[p].writes, prev |-> plan[p].prev]
NoRestore == \A p \in Proc : ~(pc[p] = "restore" /\ Staged(p))

PlanInv(p) ==
    /\ Written(p) \cap plan[p].deletes = {}
    /\ \A f \in RootFile : plan[p].prev[f] # None => f \in Written(p) \cup plan[p].deletes
    /\ Staging(p) /\ pc[p] # "apply" => done[p] = {}
    /\ pc[p] = "reset" => done[p] = {}

(* What the lock protects: nobody else touches the three trees, but for a  *)
(* rollback that runs at the same time.                                    *)
TreeInv(p) ==
    /\ pc[p] \in {"capture", "bump", "publish", "aside"} /\ Staged(p) => new = Made(p)
    /\ pc[p] \in {"plan", "publish", "apply"} => old = Missing
    /\ pc[p] \in {"capture", "bump"} /\ Staged(p) => old = Missing
    /\ pc[p] = "aside" => old \in Rollback
    /\ pc[p] \in {"swapped", "apply"} /\ (Releases(p) \/ (sound /\ NoRestore)) => out = Made(p)

-----------------------------------------------------------------------------
(* Releases                                                                *)

(* The version is free to be tagged, and the snapshot covers what the plan *)
(* touches.                                                                *)
ReleaseInv(p) == Releases(p) =>
    /\ pc[p] \notin {"start", "recover first", "load"} => tags[job[p].version] = None
    /\ pc[p] \in {"publish", "aside", "swapped", "apply", "commit"} => version = job[p].version
    /\ pc[p] = "tag" => head.version = job[p].version
    /\ pc[p] \in AfterPC =>
        /\ Written(p) \subseteq start[p].root
        /\ \A f \in plan[p].deletes \ start[p].root : start[p].head.root[f] = None
        /\ cmd[p] = "bare" => start[p].root = {}
    /\ pc[p] \in AtHeadPC => head = start[p].head
    /\ pc[p] = "restore" /\ "mars.toml" \in done[p] => version = start[p].head.version

(* As long as nobody else has touched the package, a release finds root    *)
(* files and trees as it left them.                                        *)
Gone == {Missing, Empty, Torn}
CalmRoot(p) ==
    /\ pc[p] \in BeforePC => root = head.root
    /\ pc[p] = "capture" => \A f \in Written(p) \cup plan[p].deletes : root[f] \notin UserBytes
    /\ pc[p] \in AfterPC =>
        /\ \A f \in RootFile \ start[p].root : root[f] = start[p].head.root[f]
        /\ \A f \in start[p].root :
               root[f] \notin UserBytes /\ start[p].head.root[f] \notin UserBytes
    /\ pc[p] = "restore" =>
           \A f \in start[p].root \cap done[p] : root[f] = start[p].head.root[f]
    /\ pc[p] = "apply" => \A f \in Written(p) \cap done[p] : root[f] = plan[p].writes[f]
    /\ pc[p] = "commit" => \A f \in Written(p) : root[f] = plan[p].writes[f]
CalmTrees(p) ==
    /\ pc[p] \in BeforePC => Tracked(out) = head.out /\ old \in Gone
    /\ pc[p] \in AfterPC => (start[p].head.out = Missing => old \in Gone)
    /\ pc[p] \in {"bump", "publish"} => Tracked(out) = start[p].head.out
    /\ pc[p] \in UnlockedPC => \A q \in Proc \ {p} : pc[q] \notin SwapPC
    /\ pc[p] = "commit" => out = Forgotten(p) /\ old = Missing
    /\ pc[p] = "tag" =>
        /\ head.out = Forgotten(p)
        /\ \A f \in RootFile :
               plan[p].writes[f] # None \/ (head.sound /\ head.root[f] \in Bytes) =>
                   head.root[f] = plan[p].writes[f]
    /\ pc[p] = "restore" /\ "plugin" \in done[p] =>
           out = start[p].head.out \/ (out = Empty /\ old = Missing /\ start[p].head.out = Missing)
CalmInv(p) == ~disturbed /\ Releases(p) => CalmRoot(p) /\ (Staged(p) => CalmTrees(p))

-----------------------------------------------------------------------------
(* Output that is on record                                                *)

OnRecord(files, tree) == \A f \in RootFile :
    files[f] \in Bytes => files[f] \in {SentinelOf(tree).root[f], SentinelOf(tree).prev[f]}

(* A commit that was sound can be gone back to.                            *)
GoodCommit(c) ==
    /\ c.out # Empty
    /\ c.sound => c.out \in Sentinel \cup {Missing} /\ OnRecord(c.root, c.out)
CommitInv(p) == pc[p] \in AfterPC /\ Releases(p) => GoodCommit(start[p].head)

(* What recovery would find accounts for every rendered root file, and so  *)
(* does the tree about to be published.                                    *)
Recoverable == old # Torn =>
    ~Ambiguous /\ RecoveredOut \in Replaceable /\ OnRecord(root, RecoveredOut)
Accounted(p) == \A f \in RootFile : root[f] \in Bytes =>
    /\ root[f] \in {plan[p].writes[f], plan[p].prev[f]}
    /\ f \in done[p] \cap Written(p) => root[f] = plan[p].writes[f]
    /\ f \notin done[p] \cap plan[p].deletes
SoundInv(p) == sound /\ NoRestore /\ Staging(p) => Accounted(p)

DiskInv ==
    /\ old # Foreign
    /\ GoodCommit(head)
    /\ sound /\ NoRestore => Recoverable
ProcInv(p) ==
    /\ CmdInv(p) /\ LockInv(p) /\ PlanInv(p) /\ TreeInv(p)
    /\ ReleaseInv(p) /\ CalmInv(p) /\ CommitInv(p) /\ SoundInv(p)
IInv == TypeOK /\ OneRelease /\ DiskInv /\ \A p \in Proc : ProcInv(p)

-----------------------------------------------------------------------------
(* Constants and helpers                                                   *)

LEMMA Names ==
    /\ \A t \in Sentinel : t \notin {Missing, Empty, Foreign, Torn}
    /\ Missing # Empty /\ Missing # Foreign /\ Missing # Torn
    /\ Empty # Foreign /\ Empty # Torn /\ Foreign # Torn
    /\ \A f \in RootFile : f # "mars.toml" /\ f # "plugin"
    /\ \A p \in Proc : p # Free
    /\ \A b \in Bytes : b # None /\ b \notin UserBytes
    /\ None \notin UserBytes
BY NamesDiffer, ConstantsOK

LEMMA Blanks == Blank \in Record /\ NoPlan \in Plan
BY DEF Blank, NoPlan, Record, Plan

LEMMA SentinelIntro ==
    ASSUME NEW v \in Version, NEW w \in Record, NEW r \in Record
    PROVE  /\ [version |-> v, root |-> w, prev |-> r] \in Sentinel
           /\ [version |-> v, root |-> w, prev |-> r] \in Tree
BY DEF Sentinel, Tree

LEMMA SentinelElim ==
    ASSUME NEW t \in Sentinel
    PROVE  t.version \in Version /\ t.root \in Record /\ t.prev \in Record /\ SentinelOf(t) = t
BY DEF Sentinel, SentinelOf

LEMMA SentinelOfType ==
    ASSUME NEW t PROVE SentinelOf(t).root \in Record /\ SentinelOf(t).prev \in Record
<1>1. CASE t \in Sentinel
    BY <1>1, SentinelElim
<1>2. CASE t \notin Sentinel
    BY <1>2, Blanks DEF SentinelOf
<1> QED BY <1>1, <1>2

LEMMA PlanElim ==
    ASSUME NEW x \in Plan
    PROVE  /\ x.writes \in Record /\ x.deletes \subseteq RootFile /\ x.prev \in Record
           /\ \A f \in RootFile : /\ x.writes[f] \in Bytes \cup {None}
                                  /\ x.prev[f] \in Bytes \cup {None}
BY DEF Plan, Record

LEMMA RecordFiles == Record \subseteq Files
BY DEF Record, Files

LEMMA CommitElim ==
    ASSUME NEW c \in Commit
    PROVE  /\ c.inputs \in Inputs /\ c.version \in Version /\ c.out \in Tree
           /\ c.root \in Files /\ c.sound \in BOOLEAN
BY DEF Commit

LEMMA SnapshotElim ==
    ASSUME NEW s \in Snapshot PROVE s.head \in Commit /\ s.root \subseteq RootFile
BY DEF Snapshot

LEMMA RenderType ==
    ASSUME NEW f \in RootFile, NEW i \in Inputs, NEW v \in Version
    PROVE  Render[f, i, v] \in Bytes
<1>1. <<f, i, v>> \in RootFile \X Inputs \X Version
    OBVIOUS
<1> QED BY <1>1, ConstantsOK

(* What a build plans over a tree.                                         *)
LEMMA PlannedType ==
    ASSUME TypeOK, NEW t, NEW i \in Inputs, NEW v \in Version
    PROVE  /\ Known(t) \in Record /\ Writes(i, v) \in Record /\ Replaced(t, i, v) \in Record
           /\ Deletes(t, i) \subseteq RootFile \ Expected[i]
           /\ Built(t, i, v) \in Sentinel
<1>1. SentinelOf(t).root \in Record /\ SentinelOf(t).prev \in Record
    BY SentinelOfType
<1>2. \A f \in RootFile : Ours(t, f) => root[f] \in Bytes \cup {None}
    BY <1>1 DEF Ours, Record
<1>3. Known(t) \in Record
    BY <1>1, <1>2 DEF Known, Record
<1>4. Writes(i, v) \in Record
    BY RenderType DEF Writes, Record
<1>5. Replaced(t, i, v) \in Record
    BY <1>2 DEF Replaced, Record
<1>6. Deletes(t, i) \subseteq RootFile \ Expected[i]
    BY DEF Deletes, Inspected
<1> QED BY <1>3, <1>4, <1>5, <1>6, SentinelIntro DEF Built

-----------------------------------------------------------------------------
(* What a step leaves to the other commands                                *)

Own(p) == \A q \in Proc \ {p} :
    /\ pc'[q] = pc[q] /\ cmd'[q] = cmd[q] /\ job'[q] = job[q] /\ known'[q] = known[q]
    /\ plan'[q] = plan[q] /\ done'[q] = done[q] /\ start'[q] = start[q]

(* A command goes on with what it has, but for what it has dealt with.     *)
Moves(p, label) ==
    /\ SessionType' /\ Own(p)
    /\ pc'[p] = label /\ cmd'[p] = cmd[p] /\ job'[p] = job[p] /\ known'[p] = known[p]
    /\ plan'[p] = plan[p] /\ start'[p] = start[p]

LEMMA GotoMoves ==
    ASSUME SessionType, NEW p \in Proc, NEW label \in PC, Goto(p, label), UNCHANGED session
    PROVE  Moves(p, label) /\ done'[p] = done[p]
BY DEF SessionType, Goto, session, Moves, Own

LEMMA DoneMoves ==
    ASSUME SessionType, NEW p \in Proc, NEW label \in PC, NEW S \in SUBSET Path,
           pc' = [pc EXCEPT ![p] = label], done' = [done EXCEPT ![p] = S],
           UNCHANGED <<cmd, job, known, plan, start>>
    PROVE  Moves(p, label) /\ done'[p] = S
BY DEF SessionType, Moves, Own

(* The end of a command, in success or not.                                *)
Leaves(p) == SessionType' /\ Own(p) /\ pc'[p] = "idle" /\ cmd'[p] = "build" /\ plan'[p] = NoPlan

LEMMA EndLeaves == ASSUME SessionType, NEW p \in Proc, End(p) PROVE Leaves(p)
<1>1. /\ pc' = [pc EXCEPT ![p] = "idle"] /\ cmd' = [cmd EXCEPT ![p] = "build"]
      /\ job' = [job EXCEPT ![p] = NoJob] /\ known' = [known EXCEPT ![p] = Blank]
      /\ plan' = [plan EXCEPT ![p] = NoPlan] /\ done' = [done EXCEPT ![p] = {}]
      /\ start' = [start EXCEPT ![p] = None]
    BY DEF End, Goto
<1> HIDE DEF NoPlan, NoJob, Blank
<1>2. SessionType'
    BY <1>1, Blanks DEF SessionType, PC
<1> QED BY <1>1, <1>2 DEF SessionType, Leaves, Own

(* What the others need of a step of p: that it leaves them the lock and,  *)
(* while they hold it, what the lock protects, and that a build does not   *)
(* move under a release without having it noted.                           *)
Recovers == out = Missing /\ old \in Rollback /\ out' = old /\ old' = Missing
Frame(p) ==
    /\ Own(p)
    /\ \A q \in Proc \ {p} : lock = q => lock' = q
    /\ lock \notin {p, Free} =>
        /\ new' = new /\ old' = old
        /\ sound' /\ NoRestore' => sound /\ NoRestore
        /\ \/ UNCHANGED <<root, out>>
           \/ Releases(p) /\ pc'[p] = "restore" /\ cmd'[p] # "bare"
    /\ ~Releases(p) /\ (\E q \in Proc \ {p} : Releases(q)) =>
        /\ UNCHANGED <<version, head, tags>>
        /\ cmd'[p] = "build"
        /\ ~disturbed' =>
            /\ ~disturbed /\ root' = root
            /\ pc'[p] \in SwapPC => pc[p] \in SwapPC
            /\ old \in Gone => old' \in Gone
            /\ old = Missing => old' = Missing
            /\ out' = out \/ (lock = p /\ Recovers)

LEMMA Others ==
    ASSUME IInv, NEW p \in Proc, Frame(p), NEW q \in Proc, q # p
    PROVE  ProcInv(q)'
<1>1. /\ pc'[q] = pc[q] /\ cmd'[q] = cmd[q] /\ job'[q] = job[q] /\ known'[q] = known[q]
      /\ plan'[q] = plan[q] /\ done'[q] = done[q] /\ start'[q] = start[q]
      /\ lock = q => lock' = q
    BY DEF Frame, Own
<1>2. /\ CmdInv(q) /\ LockInv(q) /\ PlanInv(q) /\ TreeInv(q)
      /\ ReleaseInv(q) /\ CalmInv(q) /\ CommitInv(q) /\ SoundInv(q)
    BY DEF IInv, ProcInv
<1>3. /\ Releases(q)' = Releases(q) /\ Staged(q)' = Staged(q) /\ Staging(q)' = Staging(q)
      /\ Holds(q)' = Holds(q) /\ Written(q)' = Written(q) /\ Made(q)' = Made(q)
      /\ Forgotten(q)' = Forgotten(q)
    BY <1>1 DEF Releases, Staged, Staging, Holds, Written, Made, Forgotten
<1>4. CmdInv(q)' /\ LockInv(q)' /\ PlanInv(q)'
    BY <1>1, <1>2, <1>3 DEF CmdInv, LockInv, PlanInv
<1>5. Releases(q) => ~Releases(p)
    BY DEF IInv, OneRelease
<1>6. Holds(q) =>
          /\ new' = new /\ old' = old
          /\ sound' /\ NoRestore' => sound /\ NoRestore
          /\ UNCHANGED <<root, out>> \/ (Releases(p) /\ ~NoRestore')
    <2>1. Holds(q) => lock \notin {p, Free}
        BY <1>2, Names DEF LockInv
    <2>2. pc'[p] = "restore" /\ cmd'[p] # "bare" => ~NoRestore'
        BY DEF NoRestore, Staged
    <2> QED BY <2>1, <2>2 DEF Frame
<1>7. TreeInv(q)'
    <2>1. /\ pc[q] = "plan" => Holds(q)
          /\ pc[q] \in {"capture", "bump", "publish", "aside", "swapped", "apply"} /\ Staged(q) =>
                 Holds(q)
          /\ pc[q] \in {"publish", "aside", "swapped", "apply"} => Staged(q)
        BY <1>2 DEF Holds, Staging, Staged, CmdInv, BarePC
    <2> QED BY <1>1, <1>2, <1>3, <1>5, <1>6, <2>1 DEF TreeInv
<1>8. Releases(q) => UNCHANGED <<version, head, tags>>
    BY <1>5 DEF Frame
<1>9. ReleaseInv(q)'
    BY <1>1, <1>2, <1>3, <1>8 DEF ReleaseInv
<1>10. CommitInv(q)'
    BY <1>1, <1>2, <1>3 DEF CommitInv
<1>11. SoundInv(q)'
    <2> SUFFICES ASSUME (sound /\ NoRestore)', Staging(q) PROVE Accounted(q)'
        BY <1>3 DEF SoundInv
    <2>1. root' = root /\ sound /\ NoRestore
        BY <1>6 DEF Holds
    <2> QED BY <1>1, <1>2, <1>3, <2>1 DEF SoundInv, Accounted
<1>12. CalmInv(q)'
    <2> SUFFICES ASSUME ~disturbed', Releases(q) PROVE CalmRoot(q)' /\ (Staged(q) => CalmTrees(q)')
        BY <1>3 DEF CalmInv
    <2>1. /\ ~disturbed /\ root' = root /\ head' = head
          /\ pc'[p] \in SwapPC => pc[p] \in SwapPC
          /\ old \in Gone => old' \in Gone
          /\ old = Missing => old' = Missing
          /\ out' = out \/ (lock = p /\ Recovers)
        BY <1>5 DEF Frame
    <2>2. CalmRoot(q) /\ (Staged(q) => CalmTrees(q))
        BY <1>2, <2>1 DEF CalmInv
    <2>3. CalmRoot(q)'
        BY <1>1, <1>3, <2>1, <2>2 DEF CalmRoot
    <2>4. ASSUME Staged(q) PROVE CalmTrees(q)'
        <3> DEFINE G == start[q].head
        <3>1. CalmTrees(q)
            BY <2>2, <2>4
        <3>2. \A r \in Proc \ {q} : pc'[r] \in SwapPC => pc[r] \in SwapPC
            BY <2>1 DEF Frame, Own
        <3>3. /\ pc[q] \in BeforePC => Tracked(out') = head.out /\ old' \in Gone
            <4>1. old \in Gone /\ Recovers => old = Empty
                BY Names DEF Recovers, Gone, Rollback
            <4> QED BY <2>1, <3>1, <4>1 DEF CalmTrees, Tracked, Recovers, Gone
        <3>4. pc[q] \in {"bump", "publish"} => Tracked(out') = G.out
            <4>1. pc[q] \in {"bump", "publish"} => Holds(q)
                BY <2>4 DEF Holds, Staging
            <4> QED BY <1>2, <2>1, <3>1, <4>1 DEF CalmTrees, LockInv
        <3>5. pc[q] = "commit" => out' = Forgotten(q) /\ old' = Missing
            <4>1. old = Missing => ~Recovers
                BY Names DEF Recovers, Rollback
            <4> QED BY <2>1, <3>1, <4>1 DEF CalmTrees
        <3>6. pc[q] = "restore" /\ "plugin" \in done[q] =>
                  out' = G.out \/ (out' = Empty /\ old' = Missing /\ G.out = Missing)
            <4>1. CASE Recovers
                <5>1. old = Missing => ~Recovers
                    BY Names DEF Recovers, Rollback
                <5>2. old \in Gone /\ Recovers => old = Empty
                    BY Names DEF Recovers, Gone, Rollback
                <5> QED BY <3>1, <4>1, <5>1, <5>2 DEF CalmTrees, Recovers, AfterPC
            <4>2. CASE ~Recovers
                BY <2>1, <3>1, <4>2 DEF CalmTrees
            <4> QED BY <4>1, <4>2
        <3> QED BY <1>1, <1>3, <2>1, <3>1, <3>2, <3>3, <3>4, <3>5, <3>6 DEF CalmTrees, Tracked
    <2> QED BY <2>3, <2>4
<1> QED BY <1>4, <1>7, <1>9, <1>10, <1>11, <1>12 DEF ProcInv

-----------------------------------------------------------------------------
(* Steps that leave the package and its trees alone                        *)

LEMMA Assemble ==
    ASSUME IInv, NEW p \in Proc, Frame(p), TypeOK', DiskInv', ProcInv(p)',
           Releases(p)' => Releases(p)
    PROVE  IInv'
<1>1. \A q \in Proc \ {p} : ProcInv(q)'
    BY Others
<1>2. \A q \in Proc \ {p} : Releases(q)' <=> Releases(q)
    BY DEF Frame, Own, Releases
<1>3. OneRelease'
    BY <1>2 DEF IInv, OneRelease
<1> QED BY <1>1, <1>3 DEF IInv

LEMMA IdleProc == ASSUME IInv, NEW p \in Proc, Leaves(p) PROVE ProcInv(p)'
<1>1. ~Releases(p)' /\ ~Staging(p)' /\ ~Holds(p)' /\ Written(p)' = {} /\ plan'[p].deletes = {}
      /\ \A f \in RootFile : plan'[p].prev[f] = None
    BY DEF Leaves, Releases, Staging, Holds, Written, NoPlan, Blank
<1> QED BY <1>1 DEF Leaves, ProcInv, CmdInv, LockInv, PlanInv, TreeInv, ReleaseInv, CalmInv,
                    CommitInv, SoundInv, BuildPC, AfterPC

(* A staged rollback does not end unless that is noted.                    *)
Restoring(p) == pc[p] = "restore" /\ Staged(p)
LEMMA RestoreEnds ==
    ASSUME NEW p \in Proc, Own(p), Restoring(p) => Restoring(p)' \/ ~sound', sound' => sound
    PROVE  sound' /\ NoRestore' => sound /\ NoRestore
BY DEF Own, Restoring, NoRestore, Staged

Plain(p) ==
    /\ SessionType' /\ Own(p)
    /\ UNCHANGED <<inputs, version, root, out, old, head, disturbed>>
    /\ tags' = tags \/ (Releases(p) /\ tags' \in [Version -> Commit \cup {None}])
    /\ sound' \in BOOLEAN /\ (sound' => sound)
    /\ Restoring(p) => Restoring(p)' \/ ~sound'
    /\ lock' = lock \/ lock' = Unlocked(p) \/ (lock = Free /\ lock' = p)
    /\ new' = new \/ (lock = p /\ new' \in Tree)
    /\ cmd'[p] \in {cmd[p], "build"}
    /\ Releases(p)' => Releases(p)
    /\ pc'[p] \in SwapPC => pc[p] \in SwapPC

LEMMA PlainFrame == ASSUME IInv, NEW p \in Proc, Plain(p) PROVE Frame(p)
<1>1. \A q \in Proc \ {p} : lock = q => lock' = q
    BY Names DEF Plain, Unlocked
<1>2. sound' /\ NoRestore' => sound /\ NoRestore
    BY RestoreEnds DEF Plain
<1>3. ~Releases(p) => cmd'[p] = "build"
    BY DEF Plain, Releases, IInv, ProcInv, CmdInv
<1> QED BY <1>1, <1>2, <1>3 DEF Plain, Frame

LEMMA PlainIInv ==
    ASSUME IInv, CountType', NEW p \in Proc, Plain(p), ProcInv(p)'
    PROVE  IInv'
<1>1. Frame(p) /\ (sound' /\ NoRestore' => sound /\ NoRestore)
    BY PlainFrame, RestoreEnds DEF Plain
<1>2. DiskType'
    BY DEF IInv, TypeOK, DiskType, Plain, Unlocked
<1>3. DiskInv'
    BY <1>1 DEF IInv, DiskInv, Plain, Recoverable, Ambiguous, RecoveredOut, OnRecord
<1> QED BY <1>1, <1>2, <1>3, Assemble DEF Plain, TypeOK

LEMMA QuitIInv ==
    ASSUME IInv, CountType', NEW p \in Proc, Plain(p), Leaves(p)
    PROVE  IInv'
BY IdleProc, PlainIInv

LEMMA TagExistsIInv ==
    ASSUME IInv, CountType', NEW p \in Proc, TagExists(p) \/ Tag(p)
    PROVE  IInv'
<1>1. Leaves(p) /\ pc[p] \in {"load", "tag"}
    BY EndLeaves DEF TagExists, Tag, IInv, TypeOK
<1>2. pc[p] = "tag" => Releases(p)
    BY DEF IInv, ProcInv, CmdInv, BuildPC, Releases
<1>3. tags' = tags \/ (pc[p] = "tag" /\ tags' \in [Version -> Commit \cup {None}])
    BY DEF TagExists, Tag, git, IInv, TypeOK, DiskType
<1>4. UNCHANGED <<disk, head, lock, sound, disturbed>>
    BY DEF TagExists, Tag, git
<1>5. sound' \in BOOLEAN
    BY <1>4 DEF IInv, TypeOK, DiskType
<1>6. Plain(p)
    BY <1>1, <1>2, <1>3, <1>4, <1>5 DEF Plain, Leaves, disk, Restoring, Releases, SwapPC
<1> QED BY <1>1, <1>6, QuitIInv

LEMMA StopIInv ==
    ASSUME IInv, CountType', NEW p \in Proc,
           RecoveryRefuses(p) \/ StageRefuses(p) \/ CaptureRefuses(p)
    PROVE  IInv'
<1>1. Stop(p) /\ pc[p] \in {"recover first", "recover", "plan", "capture"}
    BY DEF RecoveryRefuses, StageRefuses, CaptureRefuses
<1>2. Leaves(p)
    BY <1>1, EndLeaves DEF Stop, IInv, TypeOK
<1>3. sound' \in BOOLEAN /\ Missing \in Tree
    BY <1>1 DEF Stop, IInv, TypeOK, DiskType, Tree
<1>4. Plain(p)
    BY <1>1, <1>2, <1>3 DEF Plain, Stop, Leaves, git, Restoring, Releases, SwapPC
<1> QED BY <1>2, <1>4, QuitIInv

(* A step to a label outside the swap, with no file touched.               *)
LEMMA GotoPlain ==
    ASSUME IInv, NEW p \in Proc, NEW label \in PC \ SwapPC, Goto(p, label),
           UNCHANGED <<disk, git, session, sound, disturbed>>, pc[p] # "restore", pc[p] # "idle",
           lock' = lock \/ (lock = Free /\ lock' = p)
    PROVE  Plain(p) /\ Moves(p, label) /\ done'[p] = done[p]
<1>1. Moves(p, label) /\ done'[p] = done[p]
    BY GotoMoves DEF IInv, TypeOK
<1>2. sound' \in BOOLEAN
    BY DEF IInv, TypeOK, DiskType
<1> QED BY <1>1, <1>2 DEF Plain, Moves, disk, git, Restoring, Releases

LEMMA AcquireIInv == ASSUME IInv, CountType', NEW p \in Proc, Acquire(p) PROVE IInv'
<1>1. PICK label \in {"recover first", "recover"} :
          /\ Goto(p, label)
          /\ label = "recover first" => pc[p] = "start"
          /\ label = "recover" => pc[p] = "load" /\ Staged(p) /\ TagFree(p)
    BY DEF Acquire
<1>2. Plain(p) /\ Moves(p, label) /\ done'[p] = done[p]
    BY <1>1, GotoPlain DEF Acquire, PC, SwapPC
<1>3. ProcInv(p) /\ lock' = p /\ UNCHANGED <<root, out, old, head, tags, disturbed>>
    BY DEF IInv, Acquire, disk, git
<1>4. Releases(p)' = Releases(p) /\ Staged(p)' = Staged(p) /\ ~Staging(p)' /\ Written(p)' = Written(p)
    BY <1>1, <1>2 DEF Moves, Releases, Staged, Staging, Written
<1>5. CmdInv(p)' /\ LockInv(p)' /\ PlanInv(p)' /\ TreeInv(p)' /\ CommitInv(p)' /\ SoundInv(p)'
    BY <1>1, <1>2, <1>3, <1>4
       DEF Moves, ProcInv, CmdInv, BuildPC, BarePC, LockInv, PlanInv, TreeInv, CommitInv, SoundInv,
           AfterPC, Staged
<1>6. ReleaseInv(p)'
    BY <1>1, <1>2, <1>3, <1>4
       DEF Moves, ReleaseInv, Releases, TagFree, AfterPC, AtHeadPC
<1>7. CalmInv(p)'
    BY <1>1, <1>2, <1>3, <1>4
       DEF Moves, ProcInv, CalmInv, CalmRoot, CalmTrees, BeforePC, AfterPC, UnlockedPC, Tracked
<1> QED BY <1>2, <1>5, <1>6, <1>7, PlainIInv DEF ProcInv

LEMMA NoPlanTouches == NoPlan.deletes = {} /\ \A f \in RootFile : NoPlan.writes[f] = None /\ NoPlan.prev[f] = None
BY DEF NoPlan, Blank

LEMMA SkipStagingIInv == ASSUME IInv, CountType', NEW p \in Proc, SkipStaging(p) PROVE IInv'
<1>1. /\ Goto(p, "capture") /\ pc[p] = "load" /\ ~Staged(p) /\ TagFree(p)
      /\ UNCHANGED <<disk, git, lock, session, sound, disturbed>>
    BY DEF SkipStaging
<1>2. Plain(p) /\ Moves(p, "capture") /\ done'[p] = done[p]
    BY <1>1, GotoPlain DEF PC, SwapPC
<1>3. ProcInv(p) /\ plan[p] = NoPlan /\ cmd[p] = "bare"
    BY <1>1 DEF IInv, ProcInv, CmdInv, Staged
<1>4. Releases(p)' = Releases(p) /\ ~Staged(p)' /\ ~Staging(p)' /\ Written(p)' = {} /\ plan'[p].deletes = {}
    BY <1>1, <1>2, <1>3, NoPlanTouches DEF Moves, Releases, Staged, Staging, Written
<1>5. CmdInv(p)' /\ LockInv(p)' /\ PlanInv(p)' /\ TreeInv(p)' /\ CommitInv(p)' /\ SoundInv(p)'
    BY <1>1, <1>2, <1>3, <1>4, NoPlanTouches
       DEF Moves, ProcInv, CmdInv, BarePC, LockInv, Holds, PlanInv, TreeInv, CommitInv, SoundInv, AfterPC
<1>6. ReleaseInv(p)'
    BY <1>1, <1>2, <1>3, <1>4
       DEF Moves, ReleaseInv, TagFree, AfterPC, AtHeadPC, git
<1>7. CalmInv(p)'
    BY <1>1, <1>2, <1>3, <1>4
       DEF Moves, ProcInv, CalmInv, CalmRoot, BeforePC, AfterPC, disk, git
<1> QED BY <1>2, <1>5, <1>6, <1>7, PlainIInv DEF ProcInv

LEMMA StartBuildIInv == ASSUME IInv, CountType', NEW p \in Proc, StartBuild(p) PROVE IInv'
<1>1. /\ pc[p] = "idle" /\ cmd' = [cmd EXCEPT ![p] = "build"] /\ pc' = [pc EXCEPT ![p] = "load"]
      /\ job' = [job EXCEPT ![p] = [inputs |-> inputs, version |-> version]]
      /\ UNCHANGED <<disk, git, lock, known, plan, done, start, sound, disturbed>>
    BY DEF StartBuild, Goto
<1>2. [inputs |-> inputs, version |-> version] \in Job
    BY DEF IInv, TypeOK, DiskType, Job
<1>3. SessionType' /\ Own(p)
    BY <1>1, <1>2 DEF IInv, TypeOK, SessionType, Own, PC
<1>4. pc'[p] = "load" /\ cmd'[p] = "build" /\ job'[p] \in Job /\ plan'[p] = plan[p]
    BY <1>1, <1>2 DEF IInv, TypeOK, SessionType
<1>5. Plain(p)
    BY <1>1, <1>3, <1>4 DEF Plain, IInv, TypeOK, DiskType, disk, git, Restoring, Releases, SwapPC
<1>6. ProcInv(p)'
    <2>1. ProcInv(p) /\ Written(p)' = Written(p) /\ ~Releases(p)' /\ ~Staging(p)'
        BY <1>4 DEF IInv, Written, Releases, Staging
    <2> QED BY <1>4, <2>1 DEF ProcInv, CmdInv, BuildPC, LockInv, Holds, PlanInv, TreeInv, ReleaseInv,
                              CalmInv, CommitInv, SoundInv
<1> QED BY <1>5, <1>6, PlainIInv

LEMMA StartReleaseIInv ==
    ASSUME IInv, CountType', NEW p \in Proc, NEW c \in {"release", "bare"}, StartRelease(p, c)
    PROVE  IInv'
<1>1. /\ pc[p] = "idle" /\ \A q \in Proc : ~Releases(q)
      /\ Clean /\ version + 1 \in Version
      /\ cmd' = [cmd EXCEPT ![p] = c] /\ pc' = [pc EXCEPT ![p] = "start"]
      /\ job' = [job EXCEPT ![p] = [inputs |-> inputs, version |-> version + 1]]
      /\ plan' = [plan EXCEPT ![p] = NoPlan]
      /\ disturbed' = FALSE
      /\ UNCHANGED <<inputs, version, root, out, new, old, head, tags, lock, known, done, start, sound>>
    BY DEF StartRelease, Goto, disk, git
<1>2. [inputs |-> inputs, version |-> version + 1] \in Job
    BY <1>1 DEF IInv, TypeOK, DiskType, Job
<1> HIDE DEF NoPlan
<1>3. SessionType' /\ Own(p)
    BY <1>1, <1>2, Blanks DEF IInv, TypeOK, SessionType, Own, PC
<1>4. pc'[p] = "start" /\ cmd'[p] = c /\ job'[p] \in Job /\ plan'[p] = NoPlan
    BY <1>1, <1>2 DEF IInv, TypeOK, SessionType
<1>5. TypeOK'
    BY <1>1, <1>3 DEF IInv, TypeOK, DiskType
<1>6. NoRestore' => NoRestore
    BY <1>1, <1>3 DEF Own, NoRestore, Staged
<1>7. Frame(p)
    BY <1>1, <1>3, <1>6 DEF Frame
<1>8. DiskInv'
    BY <1>1, <1>6 DEF IInv, DiskInv, Recoverable, Ambiguous, RecoveredOut, OnRecord
<1>9. OneRelease'
    BY <1>1, <1>3 DEF OneRelease, Own, Releases
<1>10. Written(p)' = {} /\ plan'[p].deletes = {} /\ (\A f \in RootFile : plan'[p].prev[f] = None)
       /\ ~Staging(p)' /\ ~Holds(p)'
    BY <1>4, NoPlanTouches DEF Written, Staging, Holds
<1>11. CmdInv(p)' /\ LockInv(p)' /\ PlanInv(p)' /\ TreeInv(p)' /\ ReleaseInv(p)' /\ CommitInv(p)'
       /\ SoundInv(p)'
    BY <1>4, <1>10 DEF CmdInv, BarePC, AfterPC, AtHeadPC, LockInv, PlanInv, TreeInv, ReleaseInv,
                       CommitInv, SoundInv
<1>12. CalmInv(p)'
    <2>1. root = head.root /\ Tracked(out) = head.out /\ old \in Gone
        BY <1>1 DEF Clean, Tracked, Gone
    <2> QED BY <1>1, <1>4, <2>1 DEF CalmInv, CalmRoot, CalmTrees, BeforePC, AfterPC, UnlockedPC, Tracked
<1> QED BY <1>5, <1>7, <1>8, <1>9, <1>11, <1>12, Others DEF IInv, ProcInv

-----------------------------------------------------------------------------
(* Recovery, staging, the snapshot                                         *)

LEMMA RecoverFacts ==
    ASSUME IInv, ~Ambiguous
    PROVE  /\ old # Torn
           /\ RecoveredOut \in Tree
           /\ RecoveredOut = out \/ (out = Missing /\ old \in Rollback /\ RecoveredOut = old)
           /\ old \in Gone => Tracked(RecoveredOut) = Tracked(out)
<1>1. old # Torn
    BY Names DEF Ambiguous, Rollback
<1>2. RecoveredOut \in Tree
    BY DEF IInv, TypeOK, DiskType, RecoveredOut
<1>3. RecoveredOut = out \/ (out = Missing /\ old \in Rollback /\ RecoveredOut = old)
    BY DEF RecoveredOut
<1>4. old \in Gone /\ old \in Rollback => old = Empty
    BY Names DEF Gone, Rollback
<1> QED BY <1>1, <1>2, <1>3, <1>4 DEF Tracked

LEMMA RecoverIInv == ASSUME IInv, CountType', NEW p \in Proc, Recover(p) PROVE IInv'
<1>1. PICK label \in {"plan", "load"} :
          /\ Goto(p, label) /\ ~Ambiguous
          /\ label = "plan" => pc[p] = "recover" /\ lock' = lock
          /\ label = "load" => pc[p] = "recover first" /\ lock' = Free
    BY DEF Recover
<1>2. /\ new' = Missing /\ old' = Missing /\ out' = RecoveredOut
      /\ UNCHANGED <<inputs, version, root, head, tags, session, sound, disturbed>>
    BY DEF Recover, git
<1>3. ProcInv(p) /\ lock = p /\ DiskInv /\ TypeOK
    BY <1>1 DEF IInv, ProcInv, LockInv, Holds
<1>4. Moves(p, label) /\ done'[p] = done[p]
    BY <1>1, <1>2, <1>3, GotoMoves DEF TypeOK, PC
<1>5. TypeOK'
    BY <1>1, <1>2, <1>3, <1>4, RecoverFacts DEF TypeOK, DiskType, Moves, Tree
<1>6. sound' /\ NoRestore' => sound /\ NoRestore
    BY <1>1, <1>2, <1>4, RestoreEnds DEF Moves, Restoring
<1>7. out' = out \/ Recovers
    BY <1>1, <1>2, RecoverFacts DEF Recovers
<1>8. cmd'[p] = cmd[p] /\ (~Releases(p) => cmd[p] = "build") /\ (Releases(p)' = Releases(p))
    BY <1>1, <1>3, <1>4 DEF Moves, Releases, ProcInv, CmdInv
<1>9. Frame(p)
    <2>1. label \notin SwapPC /\ Missing \in Gone
        BY DEF SwapPC, Gone
    <2> QED BY <1>1, <1>2, <1>3, <1>4, <1>6, <1>7, <1>8, <2>1, Names DEF Frame, Moves
<1>10. DiskInv'
    <2>1. sound' /\ NoRestore' => Recoverable'
        <3> SUFFICES ASSUME sound', NoRestore' PROVE Recoverable'
            OBVIOUS
        <3>1. RecoveredOut \in Replaceable /\ OnRecord(root, RecoveredOut)
            BY <1>1, <1>3, <1>6, RecoverFacts DEF DiskInv, Recoverable
        <3>2. ~Ambiguous' /\ RecoveredOut' = RecoveredOut
            BY <1>2, Names DEF Ambiguous, RecoveredOut, Rollback
        <3> QED BY <1>2, <3>1, <3>2 DEF Recoverable, OnRecord
    <2> QED BY <1>2, <1>3, <2>1, Names DEF DiskInv
<1>11. Staged(p)' = Staged(p) /\ ~Staging(p)' /\ Written(p)' = Written(p)
    BY <1>1, <1>4 DEF Moves, Staged, Staging, Written
<1>12. CmdInv(p)' /\ LockInv(p)' /\ PlanInv(p)' /\ TreeInv(p)' /\ CommitInv(p)' /\ SoundInv(p)'
    BY <1>1, <1>2, <1>3, <1>4, <1>11
       DEF Moves, ProcInv, CmdInv, BuildPC, BarePC, LockInv, Holds, PlanInv, TreeInv, CommitInv,
           SoundInv, AfterPC
<1>13. ReleaseInv(p)'
    BY <1>1, <1>2, <1>3, <1>4, <1>8, <1>11 DEF Moves, ProcInv, ReleaseInv, AfterPC, AtHeadPC
<1>14. CalmInv(p)'
    <2>1. old \in Gone => Tracked(out') = Tracked(out)
        BY <1>1, <1>2, RecoverFacts
    <2> QED BY <1>1, <1>2, <1>3, <1>4, <1>8, <1>11, <2>1
            DEF Moves, ProcInv, CalmInv, CalmRoot, CalmTrees, BeforePC, AfterPC, UnlockedPC, Gone, Tracked
<1> QED BY <1>5, <1>8, <1>9, <1>10, <1>12, <1>13, <1>14, Assemble DEF ProcInv

(* The plan accounts for every root file of Mars that is on record.        *)
LEMMA PlanFacts ==
    ASSUME TypeOK, NEW t, NEW i \in Inputs, NEW v \in Version
    PROVE  /\ \A f \in RootFile :
                  /\ Writes(i, v)[f] # None => f \in Expected[i]
                  /\ f \in Expected[i] => Writes(i, v)[f] = Render[f, i, v] /\ Render[f, i, v] # None
                  /\ Replaced(t, i, v)[f] # None => f \in Expected[i] \cup Deletes(t, i)
           /\ OnRecord(root, t) => \A f \in RootFile :
                  root[f] \in Bytes => root[f] \in {Writes(i, v)[f], Replaced(t, i, v)[f]}
           /\ Accepts(t, i, v) =>
                  \A f \in Expected[i] \cup Deletes(t, i) : root[f] \notin UserBytes
<1>1. \A f \in RootFile :
          /\ Writes(i, v)[f] # None => f \in Expected[i]
          /\ f \in Expected[i] => Writes(i, v)[f] = Render[f, i, v] /\ Render[f, i, v] # None
          /\ Replaced(t, i, v)[f] # None => f \in Expected[i] \cup Deletes(t, i)
    BY RenderType, Names DEF Writes, Replaced
<1>2. ASSUME OnRecord(root, t), NEW f \in RootFile, root[f] \in Bytes
      PROVE  root[f] \in {Writes(i, v)[f], Replaced(t, i, v)[f]}
    <2>1. Ours(t, f)
        BY <1>2, Names DEF OnRecord, Ours
    <2>2. Known(t)[f] = root[f] /\ root[f] # None
        BY <1>2, <2>1, Names DEF Known
    <2>3. f \in Expected[i] \/ f \in Deletes(t, i)
        BY <2>1, <2>2 DEF Deletes, Inspected
    <2> QED BY <1>1, <2>1, <2>3 DEF Replaced
<1>3. ASSUME Accepts(t, i, v), NEW f \in Expected[i] \cup Deletes(t, i)
      PROVE  root[f] \notin UserBytes
    <2>1. f \in RootFile /\ Known(t)[f] \in Bytes \cup {None}
        BY PlannedType, ConstantsOK DEF Record
    <2>2. f \in Expected[i] => Render[f, i, v] \in Bytes
        BY <2>1, RenderType
    <2> QED BY <1>3, <2>1, <2>2, Names DEF Accepts, MayWrite, MayDelete
<1> QED BY <1>1, <1>2, <1>3

LEMMA StageIInv == ASSUME IInv, CountType', NEW p \in Proc, Stage(p) PROVE IInv'
<1> DEFINE i == job[p].inputs
           v == job[p].version
           made == [writes |-> Writes(i, v), deletes |-> Deletes(out, i), prev |-> Replaced(out, i, v)]
<1>1. PICK label \in {"publish", "capture"} :
          /\ pc' = [pc EXCEPT ![p] = label]
          /\ label = "publish" <=> cmd[p] = "build"
    BY DEF Stage, Goto
<1>2. /\ pc[p] = "plan" /\ out \in Replaceable /\ Accepts(out, i, v)
      /\ new' = Built(out, i, v)
      /\ known' = [known EXCEPT ![p] = Known(out)]
      /\ plan' = [plan EXCEPT ![p] = made]
      /\ done' = [done EXCEPT ![p] = {}]
      /\ UNCHANGED <<inputs, version, root, out, old, head, tags, lock, cmd, job, start, sound, disturbed>>
    BY DEF Stage, git
<1>3. ProcInv(p) /\ lock = p /\ DiskInv /\ TypeOK /\ old = Missing /\ job[p] \in Job /\ cmd[p] # "bare"
    BY <1>2 DEF IInv, ProcInv, LockInv, Holds, TreeInv, CmdInv, BarePC
<1>4. i \in Inputs /\ v \in Version
    BY <1>3 DEF Job
<1>5. made \in Plan /\ Built(out, i, v) \in Tree /\ Known(out) \in Record
    BY <1>3, <1>4, PlannedType, ConstantsOK DEF Plan, Tree
<1> HIDE DEF made
<1>6. SessionType' /\ Own(p)
    BY <1>1, <1>2, <1>3, <1>5 DEF TypeOK, SessionType, Own, PC
<1>7. /\ pc'[p] = label /\ cmd'[p] = cmd[p] /\ job'[p] = job[p] /\ plan'[p] = made
      /\ done'[p] = {} /\ start'[p] = start[p]
    BY <1>1, <1>2, <1>3 DEF TypeOK, SessionType
<1>8. TypeOK'
    BY <1>2, <1>3, <1>5, <1>6 DEF TypeOK, DiskType
<1>9. sound' /\ NoRestore' => sound /\ NoRestore
    BY <1>1, <1>2, <1>6, RestoreEnds DEF Restoring
<1>10. (Releases(p)' <=> Releases(p)) /\ (Releases(p) <=> label = "capture") /\ Staged(p)' = TRUE
    BY <1>1, <1>2, <1>3, <1>7 DEF Releases, Staged
<1>11. Frame(p)
    BY <1>1, <1>2, <1>3, <1>6, <1>7, <1>9, <1>10 DEF Frame, SwapPC
<1>12. DiskInv'
    BY <1>2, <1>3, <1>9 DEF DiskInv, Recoverable, Ambiguous, RecoveredOut, OnRecord
<1>13. made.writes = Writes(i, v) /\ made.deletes = Deletes(out, i) /\ made.prev = Replaced(out, i, v)
    BY DEF made
<1>14. /\ \A f \in RootFile :
              /\ made.writes[f] # None <=> f \in Expected[i]
              /\ made.prev[f] # None => f \in Expected[i] \cup made.deletes
       /\ made.deletes \subseteq RootFile \ Expected[i] /\ Expected[i] \subseteq RootFile
       /\ OnRecord(root, out) => \A f \in RootFile :
              root[f] \in Bytes => root[f] \in {made.writes[f], made.prev[f]}
       /\ \A f \in Expected[i] \cup made.deletes : root[f] \notin UserBytes
    <2> HIDE DEF i, v
    <2>1. Expected[i] \subseteq RootFile
        BY <1>4, ConstantsOK
    <2>2. /\ \A f \in RootFile :
                 /\ Writes(i, v)[f] # None => f \in Expected[i]
                 /\ f \in Expected[i] => Writes(i, v)[f] = Render[f, i, v] /\ Render[f, i, v] # None
                 /\ Replaced(out, i, v)[f] # None => f \in Expected[i] \cup Deletes(out, i)
          /\ OnRecord(root, out) => \A f \in RootFile :
                 root[f] \in Bytes => root[f] \in {Writes(i, v)[f], Replaced(out, i, v)[f]}
          /\ \A f \in Expected[i] \cup Deletes(out, i) : root[f] \notin UserBytes
        BY <1>2, <1>3, <1>4, PlanFacts
    <2>3. Deletes(out, i) \subseteq RootFile \ Expected[i]
        BY <1>3, <1>4, PlannedType
    <2> QED BY <1>13, <2>1, <2>2, <2>3
<1>15. Written(p)' = Expected[i] /\ new' = Made(p)'
    BY <1>2, <1>7, <1>13, <1>14 DEF Written, Built, Made
<1>16. PlanInv(p)'
    BY <1>1, <1>3, <1>7, <1>14, <1>15 DEF PlanInv
<1>17. CmdInv(p)' /\ LockInv(p)' /\ TreeInv(p)' /\ CommitInv(p)' /\ ReleaseInv(p)'
    BY <1>1, <1>2, <1>3, <1>7, <1>10, <1>15
       DEF ProcInv, CmdInv, BuildPC, LockInv, TreeInv, CommitInv, ReleaseInv, AfterPC, AtHeadPC
<1>18. CalmInv(p)'
    <2> SUFFICES ASSUME ~disturbed', Releases(p) PROVE CalmRoot(p)' /\ CalmTrees(p)'
        BY <1>10 DEF CalmInv
    <2>1. root = head.root /\ Tracked(out) = head.out /\ old \in Gone
        BY <1>2, <1>3 DEF ProcInv, CalmInv, CalmRoot, CalmTrees, BeforePC, Staged
    <2>2. \A f \in Written(p)' \cup plan'[p].deletes : root[f] \notin UserBytes
        BY <1>7, <1>14, <1>15
    <2> QED BY <1>2, <1>7, <1>10, <2>1, <2>2
            DEF CalmRoot, CalmTrees, AfterPC, UnlockedPC, Tracked
<1>19. SoundInv(p)'
    <2> SUFFICES ASSUME sound', NoRestore' PROVE Accounted(p)'
        BY DEF SoundInv
    <2>1. Recoverable /\ RecoveredOut = out
        BY <1>3, <1>9, Names DEF DiskInv, RecoveredOut, Rollback
    <2>2. OnRecord(root, out)
        BY <1>3, <2>1, Names DEF Recoverable
    <2> QED BY <1>2, <1>7, <1>14, <2>2 DEF Accounted
<1> QED BY <1>8, <1>10, <1>11, <1>12, <1>16, <1>17, <1>18, <1>19, Assemble DEF ProcInv

LEMMA CaptureIInv == ASSUME IInv, CountType', NEW p \in Proc, Capture(p) PROVE IInv'
<1> DEFINE s == [head |-> head, root |-> Touched(p)]
<1>1. /\ pc[p] = "capture"
      /\ start' = [start EXCEPT ![p] = s] /\ pc' = [pc EXCEPT ![p] = "bump"]
      /\ UNCHANGED <<inputs, version, root, out, new, old, head, tags, lock, cmd, job, known, plan,
                     done, sound, disturbed>>
    BY DEF Capture, Goto, disk, git
<1>2. ProcInv(p) /\ TypeOK /\ DiskInv /\ cmd[p] # "build" /\ Releases(p) /\ plan[p] \in Plan
    BY <1>1 DEF IInv, TypeOK, SessionType, ProcInv, CmdInv, BuildPC, Releases
<1>3. /\ Written(p) \subseteq Touched(p) /\ Touched(p) \subseteq Written(p) \cup plan[p].deletes
      /\ Touched(p) \subseteq RootFile
      /\ \A f \in plan[p].deletes \ Touched(p) : head.root[f] = None
    BY <1>2, PlanElim DEF Touched, Written
<1>4. s \in Snapshot /\ s.head = head /\ s.root = Touched(p)
    BY <1>2, <1>3 DEF Snapshot, TypeOK, DiskType
<1> HIDE DEF s
<1>5. /\ SessionType' /\ Own(p)
      /\ pc'[p] = "bump" /\ cmd'[p] = cmd[p] /\ job'[p] = job[p] /\ plan'[p] = plan[p]
      /\ done'[p] = done[p] /\ start'[p] = s
    BY <1>1, <1>2, <1>4 DEF TypeOK, SessionType, Own, PC
<1>6. Plain(p)
    BY <1>1, <1>2, <1>5 DEF Plain, TypeOK, DiskType, Restoring, Releases, SwapPC
<1>7. /\ Releases(p)' /\ Staged(p)' = Staged(p) /\ Staging(p)' = Staged(p) /\ Staging(p) = Staged(p)
      /\ Written(p)' = Written(p) /\ Made(p)' = Made(p)
    BY <1>1, <1>2, <1>5 DEF Releases, Staged, Staging, Written, Made
<1>8. sound' /\ NoRestore' => sound /\ NoRestore
    BY <1>6, RestoreEnds DEF Plain
<1>9. CmdInv(p)' /\ LockInv(p)' /\ PlanInv(p)' /\ TreeInv(p)'
    BY <1>1, <1>2, <1>4, <1>5, <1>7
       DEF ProcInv, CmdInv, BarePC, LockInv, Holds, PlanInv, TreeInv
<1>10. CommitInv(p)' /\ SoundInv(p)'
    BY <1>1, <1>2, <1>4, <1>5, <1>7, <1>8
       DEF DiskInv, ProcInv, CommitInv, SoundInv, Accounted
<1>11. ReleaseInv(p)'
    <2>1. cmd[p] = "bare" => Touched(p) = {}
        BY <1>2, <1>3, NoPlanTouches DEF ProcInv, CmdInv, Written
    <2> QED BY <1>1, <1>2, <1>3, <1>4, <1>5, <1>7, <2>1 DEF ProcInv, ReleaseInv
<1>12. CalmInv(p)'
    <2> SUFFICES ASSUME ~disturbed PROVE CalmRoot(p)' /\ (Staged(p) => CalmTrees(p)')
        BY <1>1, <1>7 DEF CalmInv
    <2>1. /\ root = head.root
          /\ \A f \in Written(p) \cup plan[p].deletes : root[f] \notin UserBytes
          /\ Staged(p) => Tracked(out) = head.out /\ old \in Gone
        BY <1>1, <1>2 DEF ProcInv, CalmInv, CalmRoot, CalmTrees, BeforePC
    <2> QED BY <1>1, <1>3, <1>4, <1>5, <2>1
            DEF CalmRoot, CalmTrees, BeforePC, UnlockedPC, Tracked
<1> QED BY <1>6, <1>9, <1>10, <1>11, <1>12, PlainIInv DEF ProcInv

LEMMA BumpIInv == ASSUME IInv, CountType', NEW p \in Proc, Bump(p) PROVE IInv'
<1>1. PICK label \in {"publish", "commit"} :
          Goto(p, label) /\ (label = "publish" <=> Staged(p))
    BY DEF Bump
<1>2. /\ pc[p] = "bump" /\ version' = job[p].version
      /\ UNCHANGED <<inputs, root, out, new, old, head, tags, lock, session, sound, disturbed>>
    BY DEF Bump, git
<1>3. ProcInv(p) /\ TypeOK /\ DiskInv /\ cmd[p] # "build" /\ Releases(p) /\ job[p] \in Job
    BY <1>2 DEF IInv, ProcInv, CmdInv, BuildPC, Releases
<1>4. Moves(p, label) /\ done'[p] = done[p]
    BY <1>1, <1>2, <1>3, GotoMoves DEF TypeOK, PC
<1>5. TypeOK'
    BY <1>2, <1>3, <1>4 DEF TypeOK, DiskType, Moves, Job
<1>6. sound' /\ NoRestore' => sound /\ NoRestore
    BY <1>1, <1>2, <1>4, RestoreEnds DEF Moves, Restoring
<1>7. Frame(p)
    BY <1>1, <1>2, <1>3, <1>4, <1>6 DEF Frame, Moves
<1>8. DiskInv'
    BY <1>2, <1>3, <1>6 DEF DiskInv, Recoverable, Ambiguous, RecoveredOut, OnRecord
<1>9. /\ Releases(p)' /\ Staged(p)' = Staged(p) /\ Staging(p)' = Staged(p) /\ Staging(p) = Staged(p)
      /\ Written(p)' = Written(p) /\ Made(p)' = Made(p)
    BY <1>1, <1>2, <1>3, <1>4 DEF Moves, Releases, Staged, Staging, Written, Made
<1>10. CmdInv(p)' /\ LockInv(p)' /\ PlanInv(p)' /\ TreeInv(p)' /\ CommitInv(p)' /\ SoundInv(p)'
    BY <1>1, <1>2, <1>3, <1>4, <1>6, <1>9
       DEF Moves, ProcInv, CmdInv, BarePC, AfterPC, LockInv, Holds, PlanInv, TreeInv, CommitInv,
           SoundInv, Accounted, Staged
<1>11. ReleaseInv(p)'
    BY <1>1, <1>2, <1>3, <1>4, <1>9 DEF Moves, ProcInv, ReleaseInv, AfterPC, AtHeadPC
<1>12. CalmInv(p)'
    <2>1. ~Staged(p) => Written(p) = {}
        BY <1>3, NoPlanTouches DEF ProcInv, CmdInv, Staged, Written
    <2> QED BY <1>1, <1>2, <1>3, <1>4, <1>9, <2>1
            DEF Moves, ProcInv, CalmInv, CalmRoot, CalmTrees, BeforePC, AfterPC, UnlockedPC, Tracked
<1> QED BY <1>5, <1>7, <1>8, <1>9, <1>10, <1>11, <1>12, <1>3, Assemble DEF ProcInv

-----------------------------------------------------------------------------
(* Commands that fail, or are killed                                       *)

LEMMA RemnantsGone ==
    /\ \A t \in Gone : Remnants(t) \subseteq Gone
    /\ Remnants(Missing) = {Missing}
    /\ \A t \in Tree : Remnants(t) \subseteq Tree /\ (t # Foreign => Foreign \notin Remnants(t))
<1>1. Missing \in Gone /\ Empty \in Gone /\ Torn \in Gone /\ {Missing, Empty, Torn} \subseteq Tree
    BY DEF Gone, Tree
<1> QED BY <1>1, Names DEF Remnants

LEMMA InSwap ==
    ASSUME IInv, NEW p \in Proc, pc[p] \in {"publish", "aside", "swapped", "apply"}
    PROVE  /\ Staged(p) /\ Staging(p) /\ Holds(p) /\ lock = p
           /\ \A q \in Proc \ {p} : ~Holds(q) /\ pc[q] \notin SwapPC
<1>1. \A q \in Proc : pc[q] \in {"publish", "aside", "swapped", "apply"} => Holds(q)
    BY DEF IInv, ProcInv, CmdInv, BarePC, Holds, Staging, Staged
<1>2. Staged(p) /\ Staging(p)
    BY DEF IInv, ProcInv, CmdInv, BarePC, Staging, Staged
<1>3. \A q \in Proc : Holds(q) => lock = q
    BY DEF IInv, ProcInv, LockInv
<1> QED BY <1>1, <1>2, <1>3 DEF SwapPC

(* The tree in place when another is removed is the one just built.        *)
LEMMA RecoverableFrom ==
    ASSUME out' \in Sentinel, old' \in Rollback \cup {Missing, Torn}, OnRecord(root', out')
    PROVE  Recoverable'
<1>1. old' # Torn => ~Ambiguous' /\ RecoveredOut' = out'
    BY Names DEF Ambiguous, RecoveredOut
<1> QED BY <1>1 DEF Recoverable, Replaceable, OnRecord

LEMMA AccountedOnRecord ==
    ASSUME IInv, NEW p \in Proc, Accounted(p), pc[p] # "idle"
    PROVE  Made(p) \in Sentinel /\ OnRecord(root, Made(p))
<1>1. plan[p].writes \in Record /\ plan[p].prev \in Record /\ job[p].version \in Version
    BY PlanElim DEF IInv, TypeOK, SessionType, ProcInv, CmdInv, Job
<1>2. Made(p) \in Sentinel
    BY <1>1, SentinelIntro DEF Made
<1>3. SentinelOf(Made(p)) = Made(p) /\ Made(p).root = plan[p].writes /\ Made(p).prev = plan[p].prev
    BY <1>2, SentinelElim DEF Made
<1> QED BY <1>2, <1>3 DEF OnRecord, Accounted

LEMMA AbortSession ==
    ASSUME IInv, NEW p \in Proc, Abort(p)
    PROVE  /\ cmd[p] = "build" => Leaves(p)
           /\ cmd[p] # "build" => Moves(p, "reset") /\ done'[p] = {}
<1>1. CASE cmd[p] = "build"
    BY <1>1, EndLeaves DEF Abort, IInv, TypeOK
<1>2. CASE cmd[p] # "build"
    <2>1. /\ pc' = [pc EXCEPT ![p] = "reset"] /\ done' = [done EXCEPT ![p] = {}]
          /\ UNCHANGED <<cmd, job, known, plan, start>>
        BY <1>2 DEF Abort, Goto
    <2>2. "reset" \in PC /\ {} \in SUBSET Path
        BY DEF PC
    <2> QED BY <1>2, <2>1, <2>2, DoneMoves DEF IInv, TypeOK
<1> QED BY <1>1, <1>2

FailPC == {"bump", "publish", "aside", "swapped", "apply", "commit", "tag"}
LEMMA AbortIInv ==
    ASSUME IInv, CountType', NEW p \in Proc, Abort(p), pc[p] \in FailPC,
           UNCHANGED <<root, sound, disturbed>>, version' \in Version,
           version' = version \/ pc[p] = "bump",
           \/ UNCHANGED <<out, old>>
           \/ pc[p] = "aside" /\ Recovers
           \/ pc[p] = "swapped" /\ out' = out /\ old' \in Remnants(old)
    PROVE  IInv'
<1>1. ProcInv(p) /\ DiskInv /\ TypeOK
    BY DEF IInv
<1>2. /\ new' = IF lock = p THEN Missing ELSE new
      /\ lock' = Unlocked(p)
      /\ UNCHANGED <<inputs, head, tags>>
    BY DEF Abort, git
<1>3. /\ SessionType' /\ Own(p) /\ cmd'[p] = cmd[p] /\ pc'[p] \in {"idle", "reset"}
      /\ cmd[p] = "build" => Leaves(p)
      /\ cmd[p] # "build" => Moves(p, "reset") /\ done'[p] = {}
    BY AbortSession DEF Leaves, Moves
<1>4. /\ old \in Gone => old' \in Gone
      /\ old = Missing => old' = Missing
      /\ out' \in Tree /\ old' \in Tree /\ old' # Foreign
      /\ lock = p \/ UNCHANGED <<out, old>>
      /\ out' = out \/ Recovers
    <2>1. Missing \in Gone /\ Missing \in Tree /\ Missing \notin Rollback /\ Missing # Foreign
        BY Names DEF Gone, Tree, Rollback
    <2>2. lock = p \/ UNCHANGED <<out, old>>
        BY InSwap
    <2> QED BY <1>1, <2>1, <2>2, RemnantsGone DEF TypeOK, DiskType, DiskInv, Recovers
<1>5. TypeOK'
    BY <1>1, <1>2, <1>3, <1>4 DEF TypeOK, DiskType, Unlocked, Tree
<1>6. sound' /\ NoRestore' => sound /\ NoRestore
    BY <1>3, RestoreEnds DEF Restoring, FailPC
<1>7. (Releases(p)' <=> Releases(p)) /\ (Releases(p) <=> cmd[p] # "build")
    BY <1>3 DEF Leaves, Moves, Releases, FailPC
<1>8. Frame(p)
    <2>1. \A q \in Proc \ {p} : lock = q => lock' = q
        BY <1>2 DEF Unlocked
    <2>2. ~Releases(p) => version' = version
        BY <1>1 DEF ProcInv, CmdInv, BuildPC, Releases
    <2> QED BY <1>2, <1>3, <1>4, <1>6, <1>7, <2>1, <2>2 DEF Frame, SwapPC
<1>9. DiskInv'
    <2> SUFFICES ASSUME sound', NoRestore' PROVE Recoverable'
        BY <1>1, <1>2, <1>4 DEF DiskInv
    <2>1. Recoverable /\ sound /\ NoRestore
        BY <1>1, <1>6 DEF DiskInv
    <2>2. CASE UNCHANGED <<out, old>>
        BY <2>1, <2>2 DEF Recoverable, Ambiguous, RecoveredOut, OnRecord
    <2>3. CASE pc[p] = "aside" /\ Recovers
        <3>1. old # Torn /\ RecoveredOut = old /\ ~Ambiguous' /\ RecoveredOut' = old
            BY <2>3, Names DEF Recovers, RecoveredOut, Ambiguous, Rollback
        <3> QED BY <2>1, <3>1 DEF Recoverable, OnRecord
    <2>4. CASE pc[p] = "swapped" /\ out' = out /\ old' \in Remnants(old)
        <3>1. out = Made(p) /\ Accounted(p)
            BY <1>1, <2>1, <2>4, InSwap DEF ProcInv, TreeInv, SoundInv
        <3>2. out \in Sentinel /\ OnRecord(root, out)
            BY <2>4, <3>1, AccountedOnRecord
        <3>3. old' \in Rollback \cup {Missing, Torn}
            BY <1>4 DEF Tree, Rollback
        <3> QED BY <2>4, <3>2, <3>3, RecoverableFrom
    <2> QED BY <2>2, <2>3, <2>4
<1>10. CASE cmd[p] = "build"
    BY <1>3, <1>5, <1>7, <1>8, <1>9, <1>10, IdleProc, Assemble
<1>11. CASE cmd[p] # "build"
    <2>1. /\ pc'[p] = "reset" /\ job'[p] = job[p] /\ plan'[p] = plan[p] /\ start'[p] = start[p]
          /\ done'[p] = {} /\ Releases(p) /\ Releases(p)'
          /\ Staged(p)' = Staged(p) /\ Written(p)' = Written(p) /\ ~Staging(p)' /\ ~Holds(p)'
        BY <1>3, <1>7, <1>11 DEF Moves, Staged, Written, Staging, Holds
    <2>2. pc[p] \in AfterPC /\ pc[p] \notin {"start", "recover first", "load"}
        BY DEF FailPC, AfterPC
    <2>3. CmdInv(p)' /\ LockInv(p)' /\ PlanInv(p)' /\ TreeInv(p)' /\ CommitInv(p)' /\ SoundInv(p)'
        BY <1>1, <1>3, <1>11, <2>1, <2>2
           DEF ProcInv, CmdInv, BarePC, LockInv, PlanInv, TreeInv, CommitInv, SoundInv
    <2>4. ReleaseInv(p)'
        BY <1>1, <1>2, <1>3, <2>1, <2>2 DEF ProcInv, ReleaseInv, AtHeadPC
    <2>5. CalmInv(p)'
        <3> SUFFICES ASSUME ~disturbed PROVE CalmRoot(p)' /\ (Staged(p) => CalmTrees(p)')
            BY <2>1 DEF CalmInv
        <3>1. CalmRoot(p) /\ (Staged(p) => CalmTrees(p))
            BY <1>1, <2>1 DEF ProcInv, CalmInv
        <3>2. CalmRoot(p)'
            BY <2>1, <2>2, <3>1 DEF CalmRoot, BeforePC
        <3>3. ASSUME Staged(p) PROVE \A q \in Proc \ {p} : pc'[q] \notin SwapPC
            <4>1. pc[p] \in UnlockedPC \/ Holds(p)
                BY <3>3 DEF FailPC, UnlockedPC, Holds, Staging
            <4>2. Holds(p) => \A q \in Proc \ {p} : ~Holds(q)
                BY DEF IInv, ProcInv, LockInv
            <4>3. \A q \in Proc : pc[q] \in SwapPC => Holds(q)
                BY InSwap DEF SwapPC
            <4> QED BY <1>3, <3>1, <3>3, <4>1, <4>2, <4>3 DEF CalmTrees, Own
        <3>4. ASSUME Staged(p) PROVE CalmTrees(p)'
            BY <1>4, <2>1, <2>2, <3>1, <3>3, <3>4 DEF CalmTrees, BeforePC
        <3> QED BY <3>2, <3>4
    <2> QED BY <1>5, <1>7, <1>8, <1>9, <2>3, <2>4, <2>5, Assemble DEF ProcInv
<1> QED BY <1>10, <1>11

LEMMA AbortsIInv ==
    ASSUME IInv, CountType', NEW p \in Proc,
           PublishRefused(p) \/ PlaceRefused(p) \/ ApplyRefused(p) \/ CommitRefused(p) \/ Fails(p)
    PROVE  IInv'
<1>1. version \in Version
    BY DEF IInv, TypeOK, DiskType
<1>2. CASE PublishRefused(p) \/ PlaceRefused(p) \/ ApplyRefused(p) \/ CommitRefused(p)
    <2>1. /\ Abort(p) /\ pc[p] \in FailPC
          /\ UNCHANGED <<version, root, out, old, sound, disturbed>>
        BY <1>2 DEF PublishRefused, PlaceRefused, ApplyRefused, CommitRefused, FailPC
    <2> QED BY <1>1, <2>1, AbortIInv
<1>3. CASE Fails(p)
    <2>1. /\ Abort(p) /\ pc[p] \in FailPC /\ UNCHANGED <<root, sound, disturbed>>
          /\ version' = version \/ (pc[p] = "bump" /\ version' = job[p].version)
        BY <1>3 DEF Fails, FailPC
    <2>2. version' \in Version
        BY <1>1, <2>1 DEF IInv, ProcInv, CmdInv, Job
    <2>3. pc[p] = "aside" => old \in Rollback
        BY DEF IInv, ProcInv, TreeInv
    <2>4. \/ UNCHANGED <<out, old>>
          \/ pc[p] = "aside" /\ Recovers
          \/ pc[p] = "swapped" /\ out' = out /\ old' \in Remnants(old)
        BY <1>3, <2>3 DEF Fails, Recovers
    <2> QED BY <2>1, <2>2, <2>4, AbortIInv
<1> QED BY <1>2, <1>3

LEMMA KillIInv == ASSUME IInv, CountType', NEW p \in Proc, Kill(p) PROVE IInv'
<1>1. /\ pc[p] # "idle" /\ lock' = Unlocked(p)
      /\ new' = IF pc[p] = "plan" THEN Torn ELSE new
      /\ sound' = (sound /\ pc[p] # "restore")
      /\ UNCHANGED <<inputs, version, root, out, head, tags, disturbed>>
    BY DEF Kill, git
<1>2. \/ old' = old
      \/ pc[p] = "swapped" /\ old' \in Remnants(old)
      \/ /\ pc[p] \in {"recover first", "recover"} /\ ~Ambiguous /\ out \in Sentinel
         /\ old' \in Remnants(old)
    BY DEF Kill
<1>3. Leaves(p) /\ ProcInv(p)' /\ ~Releases(p)'
    BY EndLeaves, IdleProc DEF Kill, IInv, TypeOK, Leaves, Releases
<1>4. lock = p \/ (old' = old /\ new' = new)
    BY <1>1, <1>2, InSwap DEF IInv, ProcInv, LockInv, Holds
<1>5. /\ old \in Gone => old' \in Gone
      /\ old = Missing => old' = Missing
      /\ old' \in Tree /\ old' # Foreign /\ new' \in Tree
    <2>1. old' = old \/ old' \in Remnants(old)
        BY <1>2
    <2>2. old \in Tree /\ old # Foreign /\ new \in Tree /\ Torn \in Tree
        BY DEF IInv, TypeOK, DiskType, DiskInv, Tree
    <2> QED BY <1>1, <2>1, <2>2, RemnantsGone
<1>6. TypeOK'
    BY <1>1, <1>3, <1>5 DEF IInv, TypeOK, DiskType, Leaves, Unlocked
<1>7. sound' /\ NoRestore' => sound /\ NoRestore
    BY <1>1, <1>3, RestoreEnds DEF Leaves, Restoring
<1>8. Frame(p)
    <2>1. \A q \in Proc \ {p} : lock = q => lock' = q
        BY <1>1 DEF Unlocked
    <2> QED BY <1>1, <1>3, <1>4, <1>5, <1>7, <2>1 DEF Frame, Leaves, SwapPC
<1>9. DiskInv'
    <2> SUFFICES ASSUME sound', NoRestore' PROVE Recoverable'
        BY <1>1, <1>5 DEF IInv, DiskInv
    <2>1. Recoverable /\ sound /\ NoRestore
        BY <1>7 DEF IInv, DiskInv
    <2>2. CASE old' = old
        BY <1>1, <2>1, <2>2 DEF Recoverable, Ambiguous, RecoveredOut, OnRecord
    <2>3. CASE old' # old
        <3>1. out \in Sentinel /\ OnRecord(root, out)
            <4>1. CASE pc[p] = "swapped"
                <5>1. out = Made(p) /\ Accounted(p)
                    BY <2>1, <4>1, InSwap DEF IInv, ProcInv, TreeInv, SoundInv
                <5> QED BY <4>1, <5>1, AccountedOnRecord
            <4>2. CASE ~Ambiguous /\ out \in Sentinel
                <5>1. RecoveredOut = out /\ old # Torn
                    BY <4>2, Names DEF RecoveredOut, Ambiguous, Rollback
                <5> QED BY <2>1, <4>2, <5>1 DEF Recoverable
            <4> QED BY <1>2, <2>3, <4>1, <4>2
        <3>2. old' \in Rollback \cup {Missing, Torn}
            BY <1>5 DEF Tree, Rollback
        <3> QED BY <1>1, <3>1, <3>2, RecoverableFrom
    <2> QED BY <2>2, <2>3
<1> QED BY <1>3, <1>6, <1>8, <1>9, Assemble

-----------------------------------------------------------------------------
(* Publication                                                             *)

(* Whoever publishes under somebody else's release has it noted.           *)
LEMMA NotedFrame ==
    ASSUME IInv, NEW p \in Proc, lock = p, Own(p), UNCHANGED <<version, head, tags>>,
           disturbed' = Disturbs(p), cmd'[p] \in {cmd[p], "build"}
    PROVE  Frame(p) /\ disturbed' \in BOOLEAN /\ (~disturbed' => ~disturbed)
<1>1. disturbed' \in BOOLEAN /\ (~disturbed' => ~disturbed)
    BY DEF Disturbs
<1>2. (\E q \in Proc \ {p} : Releases(q)) => disturbed'
    BY DEF Disturbs
<1>3. ~Releases(p) => cmd'[p] = "build"
    BY DEF IInv, ProcInv, CmdInv, Releases
<1>4. \A q \in Proc \ {p} : lock # q
    OBVIOUS
<1> QED BY <1>1, <1>2, <1>3, <1>4 DEF Frame

(* What a step of the publication keeps, for all but root files and trees. *)
LEMMA PublishProc ==
    ASSUME IInv, NEW p \in Proc, NEW label \in SwapPC,
           pc[p] \in {"publish", "aside", "swapped", "apply"}, Moves(p, label),
           UNCHANGED <<version, head, tags>>, lock' = lock
    PROVE  /\ CmdInv(p)' /\ LockInv(p)' /\ ReleaseInv(p)' /\ CommitInv(p)'
           /\ Releases(p)' = Releases(p) /\ Staged(p) /\ Staged(p)' /\ Staging(p) /\ Staging(p)'
           /\ Written(p)' = Written(p) /\ Made(p)' = Made(p)
<1>1. ProcInv(p) /\ Staged(p) /\ Staging(p)
    BY InSwap DEF IInv
<1>2. /\ Releases(p)' = Releases(p) /\ Staged(p)' /\ Staging(p)'
      /\ Written(p)' = Written(p) /\ Made(p)' = Made(p)
    BY <1>1 DEF Moves, Releases, Staged, Staging, Written, Made, SwapPC
<1>3. CmdInv(p)' /\ LockInv(p)'
    BY <1>1 DEF Moves, ProcInv, CmdInv, LockInv, Holds, BuildPC, BarePC, AfterPC, SwapPC, Staged, Releases
<1>4. ReleaseInv(p)' /\ CommitInv(p)'
    BY <1>1, <1>2 DEF Moves, ProcInv, ReleaseInv, CommitInv, AfterPC, AtHeadPC, SwapPC
<1> QED BY <1>1, <1>2, <1>3, <1>4

LEMMA MoveAsideIInv == ASSUME IInv, CountType', NEW p \in Proc, MoveAside(p) PROVE IInv'
<1>1. /\ pc[p] = "publish" /\ old = Missing /\ out \in Rollback
      /\ old' = out /\ out' = Missing /\ Goto(p, "aside") /\ disturbed' = Disturbs(p)
      /\ UNCHANGED <<inputs, version, root, new, head, tags, lock, session, sound>>
    BY DEF MoveAside, Replaceable, Rollback, git
<1>2. ProcInv(p) /\ TypeOK /\ DiskInv /\ lock = p
    BY <1>1, InSwap DEF IInv
<1>3. Moves(p, "aside") /\ done'[p] = done[p]
    BY <1>1, <1>2, GotoMoves DEF TypeOK, PC
<1>4. Frame(p) /\ disturbed' \in BOOLEAN /\ (~disturbed' => ~disturbed)
    BY <1>1, <1>2, <1>3, NotedFrame DEF Moves
<1>5. TypeOK'
    BY <1>1, <1>2, <1>3, <1>4 DEF TypeOK, DiskType, Moves, Tree
<1>6. sound' /\ NoRestore' => sound /\ NoRestore
    BY <1>1, <1>3, RestoreEnds DEF Moves, Restoring
<1>7. DiskInv'
    <2>1. old' # Foreign /\ old' # Torn /\ old' # Missing
        BY <1>1, Names DEF Rollback
    <2>2. RecoveredOut = out /\ RecoveredOut' = out /\ ~Ambiguous' /\ old # Torn
        BY <1>1, <2>1, Names DEF RecoveredOut, Ambiguous, Rollback
    <2> QED BY <1>1, <1>2, <1>6, <2>1, <2>2 DEF DiskInv, Recoverable, OnRecord
<1>8. /\ CmdInv(p)' /\ LockInv(p)' /\ ReleaseInv(p)' /\ CommitInv(p)'
      /\ Releases(p)' = Releases(p) /\ Staged(p) /\ Staged(p)' /\ Staging(p) /\ Staging(p)'
      /\ Written(p)' = Written(p) /\ Made(p)' = Made(p)
    BY <1>1, <1>3, PublishProc DEF SwapPC
<1>9. PlanInv(p)' /\ TreeInv(p)' /\ SoundInv(p)'
    BY <1>1, <1>2, <1>3, <1>6, <1>8 DEF Moves, ProcInv, PlanInv, TreeInv, SoundInv, Accounted
<1>10. CalmInv(p)'
    <2>1. Tracked(out) = Missing => out \in Gone
        BY <1>1, Names DEF Tracked, Gone
    <2> QED BY <1>1, <1>2, <1>3, <1>4, <1>8, <2>1
            DEF Moves, ProcInv, CalmInv, CalmRoot, CalmTrees, BeforePC, AfterPC, UnlockedPC
<1> QED BY <1>4, <1>5, <1>7, <1>8, <1>9, <1>10, Assemble DEF ProcInv

LEMMA PlaceIInv == ASSUME IInv, CountType', NEW p \in Proc, Place(p) PROVE IInv'
<1>1. PICK label \in {"swapped", "apply"} :
          /\ Goto(p, label)
          /\ label = "swapped" => pc[p] = "aside"
          /\ label = "apply" => pc[p] = "publish" /\ old = Missing
    BY DEF Place
<1>2. /\ out' = new /\ new' = Missing /\ disturbed' = Disturbs(p)
      /\ UNCHANGED <<inputs, version, root, old, head, tags, lock, session, sound>>
    BY DEF Place, git
<1>3. ProcInv(p) /\ TypeOK /\ DiskInv /\ lock = p
    BY <1>1, InSwap DEF IInv
<1>4. Moves(p, label) /\ done'[p] = done[p]
    BY <1>1, <1>2, <1>3, GotoMoves DEF TypeOK, PC
<1>5. Frame(p) /\ disturbed' \in BOOLEAN /\ (~disturbed' => ~disturbed)
    BY <1>2, <1>3, <1>4, NotedFrame DEF Moves
<1>6. TypeOK'
    BY <1>2, <1>3, <1>4, <1>5 DEF TypeOK, DiskType, Moves, Tree
<1>7. sound' /\ NoRestore' => sound /\ NoRestore
    BY <1>1, <1>2, <1>4, RestoreEnds DEF Moves, Restoring
<1>8. /\ CmdInv(p)' /\ LockInv(p)' /\ ReleaseInv(p)' /\ CommitInv(p)'
      /\ Releases(p)' = Releases(p) /\ Staged(p) /\ Staged(p)' /\ Staging(p) /\ Staging(p)'
      /\ Written(p)' = Written(p) /\ Made(p)' = Made(p)
    BY <1>1, <1>2, <1>4, PublishProc DEF SwapPC
<1>9. new = Made(p) /\ done[p] = {} /\ (label = "swapped" => old \in Rollback)
    BY <1>1, <1>3, <1>8 DEF ProcInv, TreeInv, PlanInv
<1>10. DiskInv'
    <2> SUFFICES ASSUME sound', NoRestore' PROVE Recoverable'
        BY <1>2, <1>3 DEF DiskInv
    <2>1. Accounted(p)
        BY <1>3, <1>7, <1>8 DEF ProcInv, SoundInv
    <2>2. out' \in Sentinel /\ OnRecord(root, out')
        BY <1>1, <1>2, <1>9, <2>1, AccountedOnRecord
    <2> QED BY <1>1, <1>2, <1>9, <2>2, RecoverableFrom
<1>11. PlanInv(p)' /\ TreeInv(p)' /\ SoundInv(p)'
    BY <1>1, <1>2, <1>3, <1>4, <1>7, <1>8, <1>9 DEF Moves, ProcInv, PlanInv, TreeInv, SoundInv, Accounted
<1>12. CalmInv(p)'
    BY <1>1, <1>2, <1>3, <1>4, <1>5, <1>8, <1>9
       DEF Moves, ProcInv, CalmInv, CalmRoot, CalmTrees, BeforePC, AfterPC, UnlockedPC
<1> QED BY <1>5, <1>6, <1>8, <1>10, <1>11, <1>12, Assemble DEF ProcInv

LEMMA RemoveOldIInv == ASSUME IInv, CountType', NEW p \in Proc, RemoveOld(p) PROVE IInv'
<1>1. /\ pc[p] = "swapped" /\ old' = Missing /\ Goto(p, "apply")
      /\ UNCHANGED <<inputs, version, root, out, new, head, tags, lock, session, sound, disturbed>>
    BY DEF RemoveOld, git
<1>2. ProcInv(p) /\ TypeOK /\ DiskInv /\ lock = p
    BY <1>1, InSwap DEF IInv
<1>3. Moves(p, "apply") /\ done'[p] = done[p]
    BY <1>1, <1>2, GotoMoves DEF TypeOK, PC
<1>4. TypeOK'
    BY <1>1, <1>2, <1>3 DEF TypeOK, DiskType, Moves, Tree
<1>5. sound' /\ NoRestore' => sound /\ NoRestore
    BY <1>1, <1>3, RestoreEnds DEF Moves, Restoring
<1>6. /\ CmdInv(p)' /\ LockInv(p)' /\ ReleaseInv(p)' /\ CommitInv(p)'
      /\ Releases(p)' = Releases(p) /\ Staged(p) /\ Staged(p)' /\ Staging(p) /\ Staging(p)'
      /\ Written(p)' = Written(p) /\ Made(p)' = Made(p)
    BY <1>1, <1>3, PublishProc DEF SwapPC
<1>7. Frame(p)
    <2>1. ~Releases(p) => cmd'[p] = "build"
        BY <1>2, <1>3 DEF Moves, ProcInv, CmdInv, Releases
    <2> QED BY <1>1, <1>2, <1>3, <2>1 DEF Frame, Moves, SwapPC, Gone
<1>8. DiskInv'
    <2> SUFFICES ASSUME sound', NoRestore' PROVE Recoverable'
        BY <1>1, <1>2, Names DEF DiskInv
    <2>1. out = Made(p) /\ Accounted(p)
        BY <1>1, <1>2, <1>5, <1>6 DEF ProcInv, TreeInv, SoundInv
    <2>2. out \in Sentinel /\ OnRecord(root, out)
        BY <1>1, <2>1, AccountedOnRecord
    <2> QED BY <1>1, <2>2, RecoverableFrom
<1>9. PlanInv(p)' /\ TreeInv(p)' /\ SoundInv(p)'
    BY <1>1, <1>2, <1>3, <1>5, <1>6 DEF Moves, ProcInv, PlanInv, TreeInv, SoundInv, Accounted
<1>10. CalmInv(p)'
    <2>1. done[p] = {}
        BY <1>1, <1>2, <1>6 DEF ProcInv, PlanInv
    <2> QED BY <1>1, <1>2, <1>3, <1>6, <2>1
            DEF Moves, ProcInv, CalmInv, CalmRoot, CalmTrees, BeforePC, AfterPC, UnlockedPC, Gone
<1> QED BY <1>4, <1>6, <1>7, <1>8, <1>9, <1>10, Assemble DEF ProcInv

LEMMA ApplyIInv ==
    ASSUME IInv, CountType', NEW p \in Proc, NEW f \in RootFile,
           ApplyWrite(p, f) \/ ApplyDelete(p, f)
    PROVE  IInv'
<1>1. PICK bytes \in Bytes \cup {None} :
          /\ root' = [root EXCEPT ![f] = bytes]
          /\ \/ f \in Written(p) /\ bytes = plan[p].writes[f]
             \/ f \in plan[p].deletes /\ bytes = None
    <2>1. plan[p] \in Plan
        BY DEF IInv, TypeOK, SessionType
    <2> QED BY <2>1, PlanElim DEF ApplyWrite, ApplyDelete
<1>2. /\ pc[p] = "apply" /\ pc' = pc
      /\ done' = [done EXCEPT ![p] = @ \cup {f}] /\ disturbed' = Disturbs(p)
      /\ UNCHANGED <<inputs, version, out, new, old, head, tags, lock, cmd, job, known, plan, start, sound>>
    BY DEF ApplyWrite, ApplyDelete, git
<1>3. ProcInv(p) /\ TypeOK /\ DiskInv /\ lock = p /\ old = Missing
    BY <1>2, InSwap DEF IInv, ProcInv, TreeInv
<1>4. Moves(p, "apply") /\ done'[p] = done[p] \cup {f}
    <2>1. pc' = [pc EXCEPT ![p] = "apply"] /\ done[p] \cup {f} \in SUBSET Path /\ "apply" \in PC
        BY <1>2, <1>3 DEF TypeOK, SessionType, Path, PC
    <2> QED BY <1>2, <1>3, <2>1, DoneMoves DEF TypeOK
<1>5. Frame(p) /\ disturbed' \in BOOLEAN /\ (~disturbed' => ~disturbed)
    BY <1>2, <1>3, <1>4, NotedFrame DEF Moves
<1>6. /\ root' \in Files /\ root'[f] = bytes
      /\ \A g \in RootFile \ {f} : root'[g] = root[g]
    BY <1>1, <1>3 DEF TypeOK, DiskType, Files
<1>7. TypeOK'
    BY <1>2, <1>3, <1>4, <1>5, <1>6 DEF TypeOK, DiskType, Moves
<1>8. sound' /\ NoRestore' => sound /\ NoRestore
    BY <1>2, <1>4, RestoreEnds DEF Moves, Restoring
<1>9. /\ CmdInv(p)' /\ LockInv(p)' /\ ReleaseInv(p)' /\ CommitInv(p)'
      /\ Releases(p)' = Releases(p) /\ Staged(p) /\ Staged(p)' /\ Staging(p) /\ Staging(p)'
      /\ Written(p)' = Written(p) /\ Made(p)' = Made(p)
    BY <1>2, <1>4, PublishProc DEF SwapPC
<1>10. PlanInv(p)' /\ TreeInv(p)'
    BY <1>2, <1>3, <1>4, <1>8, <1>9 DEF Moves, ProcInv, PlanInv, TreeInv
<1>11. SoundInv(p)'
    <2> SUFFICES ASSUME sound', NoRestore' PROVE Accounted(p)'
        BY DEF SoundInv
    <2>1. Accounted(p) /\ Written(p) \cap plan[p].deletes = {}
        BY <1>3, <1>8, <1>9 DEF ProcInv, SoundInv, PlanInv
    <2> SUFFICES ASSUME NEW g \in RootFile, root'[g] \in Bytes
                 PROVE  /\ root'[g] \in {plan[p].writes[g], plan[p].prev[g]}
                        /\ g \in done'[p] \cap Written(p) => root'[g] = plan[p].writes[g]
                        /\ g \notin done'[p] \cap plan[p].deletes
        BY <1>4, <1>9 DEF Accounted, Moves
    <2>2. CASE g = f
        BY <1>1, <1>6, <2>1, <2>2, Names
    <2>3. CASE g # f
        BY <1>4, <1>6, <2>1, <2>3 DEF Accounted
    <2> QED BY <2>2, <2>3
<1>12. DiskInv'
    <2> SUFFICES ASSUME sound', NoRestore' PROVE Recoverable'
        BY <1>2, <1>3 DEF DiskInv
    <2>1. out = Made(p) /\ Accounted(p) /\ Accounted(p)'
        BY <1>2, <1>3, <1>8, <1>9, <1>11 DEF ProcInv, TreeInv, SoundInv
    <2>2. out \in Sentinel /\ SentinelOf(out) = out /\ out.root = plan[p].writes /\ out.prev = plan[p].prev
        BY <1>2, <2>1, AccountedOnRecord, SentinelElim DEF Made
    <2>3. OnRecord(root', out)
        BY <1>4, <2>1, <2>2 DEF OnRecord, Accounted, Moves
    <2> QED BY <1>2, <1>3, <2>2, <2>3, RecoverableFrom
<1>13. CalmInv(p)'
    <2> SUFFICES ASSUME ~disturbed', Releases(p) PROVE CalmRoot(p)' /\ CalmTrees(p)'
        BY <1>9 DEF CalmInv
    <2>1. CalmRoot(p) /\ CalmTrees(p)
        BY <1>3, <1>5, <1>9 DEF ProcInv, CalmInv
    <2>2. CalmTrees(p)'
        BY <1>2, <1>4, <2>1 DEF Moves, CalmTrees, BeforePC, AfterPC, UnlockedPC
    <2>3. /\ Written(p) \subseteq start[p].root
          /\ \A g \in plan[p].deletes \ start[p].root : start[p].head.root[g] = None
          /\ Written(p) \cap plan[p].deletes = {} /\ start[p].root \subseteq RootFile
        BY <1>2, <1>3, SnapshotElim DEF ProcInv, ReleaseInv, PlanInv, CmdInv, AfterPC
    <2>4. \A g \in RootFile \ start[p].root : root'[g] = start[p].head.root[g]
        BY <1>1, <1>2, <1>6, <2>1, <2>3 DEF CalmRoot, AfterPC
    <2>5. \A g \in start[p].root :
              root'[g] \notin UserBytes /\ start[p].head.root[g] \notin UserBytes
        BY <1>1, <1>2, <1>6, <2>1, <2>3, Names DEF CalmRoot, AfterPC
    <2>6. \A g \in Written(p) \cap done'[p] : root'[g] = plan[p].writes[g]
        BY <1>1, <1>2, <1>4, <1>6, <2>1, <2>3 DEF CalmRoot, Written
    <2> QED BY <1>2, <1>4, <1>9, <2>2, <2>4, <2>5, <2>6 DEF Moves, CalmRoot, BeforePC
<1> QED BY <1>5, <1>7, <1>9, <1>10, <1>11, <1>12, <1>13, Assemble DEF ProcInv

LEMMA ClearIInv == ASSUME IInv, CountType', NEW p \in Proc, Clear(p) PROVE IInv'
<1>1. /\ pc[p] = "apply" /\ Written(p) \cup plan[p].deletes \subseteq done[p]
      /\ out' = IF plan[p].prev = Blank THEN out ELSE Forgotten(p)
      /\ lock' = Unlocked(p) /\ disturbed' = Disturbs(p)
      /\ sound' = (sound \/ (out' \in Sentinel /\ old = Missing /\
                    \A f \in RootFile : root[f] \in Bytes => root[f] = out'.root[f]))
      /\ UNCHANGED <<inputs, version, root, new, old, head, tags>>
    BY DEF Clear, git
<1>2. ProcInv(p) /\ TypeOK /\ DiskInv /\ lock = p /\ old = Missing /\ Staged(p) /\ Staging(p)
    BY <1>1, InSwap DEF IInv, ProcInv, TreeInv
<1>3. /\ cmd[p] = "build" => Leaves(p)
      /\ cmd[p] # "build" => Moves(p, "commit") /\ done'[p] = done[p]
    BY <1>2, EndLeaves, GotoMoves DEF Clear, TypeOK, PC
<1>4. Own(p) /\ SessionType' /\ cmd'[p] = cmd[p] /\ pc'[p] \in {"idle", "commit"}
    BY <1>3 DEF Leaves, Moves
<1>5. Frame(p) /\ disturbed' \in BOOLEAN /\ (~disturbed' => ~disturbed)
    BY <1>1, <1>2, <1>4, NotedFrame
<1>6. Forgotten(p) \in Sentinel /\ (out = Made(p) => out' = Forgotten(p))
    <2>1. plan[p].writes \in Record /\ job[p].version \in Version
        BY <1>1, <1>2, PlanElim DEF TypeOK, SessionType, ProcInv, CmdInv, Job
    <2> QED BY <1>1, <2>1, Blanks, SentinelIntro DEF Forgotten, Made
<1>7. TypeOK'
    <2>1. out' \in Tree /\ sound' \in BOOLEAN
        BY <1>1, <1>2, <1>6 DEF TypeOK, DiskType, Tree
    <2> QED BY <1>1, <1>2, <1>4, <1>5, <2>1 DEF TypeOK, DiskType, Unlocked
<1>8. NoRestore' => NoRestore
    BY <1>1, <1>4 DEF NoRestore, Own, Staged
<1>9. DiskInv'
    <2> SUFFICES ASSUME sound', NoRestore' PROVE Recoverable'
        BY <1>1, <1>2 DEF DiskInv
    <2>1. CASE sound
        <3>1. out = Made(p) /\ Accounted(p)
            BY <1>1, <1>2, <1>8, <2>1 DEF ProcInv, TreeInv, SoundInv
        <3>2. out' \in Sentinel /\ SentinelOf(out') = out' /\ out'.root = plan[p].writes
            BY <1>6, <3>1, SentinelElim DEF Forgotten
        <3>3. OnRecord(root, out')
            <4> SUFFICES ASSUME NEW f \in RootFile, root[f] \in Bytes
                         PROVE  root[f] = plan[p].writes[f]
                BY <3>2 DEF OnRecord
            <4>1. plan[p].prev[f] # None => f \in Written(p) \cup plan[p].deletes
                BY <1>2 DEF ProcInv, PlanInv
            <4> QED BY <1>1, <3>1, <4>1, Names DEF Accounted
        <3> QED BY <1>1, <1>2, <3>2, <3>3, RecoverableFrom
    <2>2. CASE ~sound
        <3>1. /\ out' \in Sentinel /\ \A f \in RootFile : root[f] \in Bytes => root[f] = out'.root[f]
            BY <1>1, <2>2
        <3>2. OnRecord(root, out')
            BY <3>1, SentinelElim DEF OnRecord
        <3> QED BY <1>1, <1>2, <3>1, <3>2, RecoverableFrom
    <2> QED BY <2>1, <2>2
<1>10. CASE cmd[p] = "build"
    <2>1. ~Releases(p)'
        BY <1>3, <1>10 DEF Leaves, Releases
    <2> QED BY <1>3, <1>5, <1>7, <1>9, <1>10, <2>1, IdleProc, Assemble
<1>11. CASE cmd[p] # "build"
    <2>1. /\ pc'[p] = "commit" /\ job'[p] = job[p] /\ plan'[p] = plan[p] /\ start'[p] = start[p]
          /\ done'[p] = done[p] /\ Releases(p) /\ Releases(p)' /\ cmd'[p] = cmd[p] /\ cmd[p] # "bare"
          /\ Written(p)' = Written(p) /\ ~Staging(p)' /\ ~Holds(p)' /\ Forgotten(p)' = Forgotten(p)
        BY <1>1, <1>2, <1>3, <1>11 DEF Moves, Releases, Written, Staging, Holds, Forgotten, Staged
    <2>2. CmdInv(p)' /\ LockInv(p)' /\ PlanInv(p)' /\ TreeInv(p)' /\ CommitInv(p)' /\ SoundInv(p)'
        BY <1>1, <1>2, <1>11, <2>1
           DEF ProcInv, CmdInv, AfterPC, LockInv, PlanInv, TreeInv, CommitInv, SoundInv, Staged
    <2>3. ReleaseInv(p)'
        BY <1>1, <1>2, <2>1 DEF ProcInv, ReleaseInv, AfterPC, AtHeadPC
    <2>4. CalmInv(p)'
        <3> SUFFICES ASSUME ~disturbed' PROVE CalmRoot(p)' /\ CalmTrees(p)'
            BY DEF CalmInv
        <3>1. CalmRoot(p) /\ CalmTrees(p)
            BY <1>2, <1>5, <2>1 DEF ProcInv, CalmInv
        <3>2. CalmRoot(p)'
            BY <1>1, <2>1, <3>1 DEF CalmRoot, AfterPC, BeforePC
        <3>3. out' = Forgotten(p)
            BY <1>1, <1>2, <1>6, <2>1 DEF ProcInv, TreeInv
        <3>4. \A q \in Proc \ {p} : pc'[q] \notin SwapPC
            BY <1>1, <1>4, InSwap DEF Own
        <3>5. CalmTrees(p)'
            BY <1>1, <1>2, <2>1, <3>1, <3>3, <3>4 DEF CalmTrees, AfterPC, BeforePC
        <3> QED BY <3>2, <3>5
    <2> QED BY <1>5, <1>7, <1>9, <2>1, <2>2, <2>3, <2>4, Assemble DEF ProcInv
<1> QED BY <1>10, <1>11

-----------------------------------------------------------------------------
(* The commit of a release, and the way back                               *)

(* Commands that are past publication do not hold the lock for it.         *)
LEMMA UnlockedProc ==
    ASSUME IInv, NEW p \in Proc, pc[p] \in UnlockedPC
    PROVE  /\ Releases(p) /\ cmd[p] # "build" /\ start[p] \in Snapshot /\ pc[p] \in AfterPC
           /\ job[p] \in Job
           /\ \A q \in Proc \ {p} : ~Releases(q)
<1>1. cmd[p] # "build" /\ Releases(p)
    BY DEF IInv, ProcInv, CmdInv, BuildPC, UnlockedPC, Releases
<1>2. pc[p] \in AfterPC /\ pc[p] # "idle"
    BY DEF UnlockedPC, AfterPC
<1> QED BY <1>1, <1>2 DEF IInv, ProcInv, CmdInv, OneRelease

LEMMA UnlockedNext ==
    ASSUME IInv, NEW p \in Proc, pc[p] \in UnlockedPC, NEW label \in UnlockedPC, Moves(p, label),
           label = "reset" => done'[p] = {}
    PROVE  /\ CmdInv(p)' /\ LockInv(p)' /\ PlanInv(p)' /\ TreeInv(p)' /\ SoundInv(p)'
           /\ Releases(p)' /\ Staged(p)' = Staged(p) /\ ~Staging(p)' /\ Written(p)' = Written(p)
<1>1. ProcInv(p) /\ Releases(p) /\ cmd[p] # "build" /\ start[p] \in Snapshot /\ job[p] \in Job
    BY UnlockedProc DEF IInv
<1>2. /\ Releases(p)' /\ Staged(p)' = Staged(p) /\ ~Staging(p)' /\ ~Holds(p)'
      /\ Written(p)' = Written(p) /\ label # "idle"
    BY <1>1 DEF Moves, Releases, Staged, Staging, Holds, Written, UnlockedPC
<1>3. CmdInv(p)'
    BY <1>1, <1>2 DEF Moves, ProcInv, CmdInv, BarePC, UnlockedPC
<1> QED BY <1>1, <1>2, <1>3
        DEF Moves, ProcInv, LockInv, PlanInv, TreeInv, SoundInv, UnlockedPC

LEMMA CommitReleaseIInv == ASSUME IInv, CountType', NEW p \in Proc, CommitRelease(p) PROVE IInv'
<1> DEFINE files == [f \in RootFile |-> IF f \in start[p].root THEN root[f] ELSE head.root[f]]
           tree == IF Staged(p) THEN Tracked(out) ELSE head.out
           clean == IF Staged(p) THEN sound /\ ~disturbed ELSE head.sound
<1>1. /\ pc[p] = "commit" /\ Goto(p, "tag")
      /\ head' = [inputs |-> head.inputs, version |-> version, out |-> tree, root |-> files,
                  sound |-> clean]
      /\ UNCHANGED <<inputs, version, root, out, new, old, tags, lock, session, sound, disturbed>>
    BY DEF CommitRelease, disk
<1>2. ProcInv(p) /\ TypeOK /\ DiskInv /\ Releases(p) /\ start[p] \in Snapshot /\ head = start[p].head
    BY <1>1, UnlockedProc DEF IInv, UnlockedPC, ProcInv, ReleaseInv, AtHeadPC
<1>3. files \in Files /\ tree \in Tree /\ clean \in BOOLEAN
    <2>1. head \in Commit /\ root \in Files /\ out \in Tree
        BY <1>2 DEF TypeOK, DiskType
    <2>2. tree \in Tree
        BY <2>1, CommitElim DEF Tracked, Tree
    <2>3. files \in Files
        BY <2>1, CommitElim DEF Files
    <2>4. clean \in BOOLEAN
        BY <1>2, <2>1, CommitElim DEF TypeOK, DiskType
    <2> QED BY <2>2, <2>3, <2>4
<1> HIDE DEF files, tree, clean
<1>4. /\ head' \in Commit
      /\ head'.version = version /\ head'.out = tree /\ head'.root = files /\ head'.sound = clean
    <2>1. head.inputs \in Inputs /\ version \in Version
        BY <1>2, CommitElim DEF TypeOK, DiskType
    <2> QED BY <1>1, <1>3, <2>1 DEF Commit
<1>5. Moves(p, "tag") /\ done'[p] = done[p]
    BY <1>1, <1>2, GotoMoves DEF TypeOK, PC
<1>6. TypeOK'
    BY <1>1, <1>2, <1>4, <1>5 DEF TypeOK, DiskType, Moves
<1>7. sound' /\ NoRestore' => sound /\ NoRestore
    BY <1>1, <1>5, RestoreEnds DEF Moves, Restoring
<1>8. Frame(p)
    BY <1>1, <1>2, <1>5, <1>7 DEF Frame, Moves
<1>9. /\ CmdInv(p)' /\ LockInv(p)' /\ PlanInv(p)' /\ TreeInv(p)' /\ SoundInv(p)'
      /\ Releases(p)' /\ Staged(p)' = Staged(p) /\ ~Staging(p)' /\ Written(p)' = Written(p)
    BY <1>1, <1>5, UnlockedNext DEF UnlockedPC
<1>10. ASSUME Staged(p), ~disturbed
       PROVE  /\ tree = Forgotten(p) /\ tree \in Sentinel /\ SentinelOf(tree) = tree
              /\ tree.root = plan[p].writes /\ tree.prev = Blank
              /\ \A f \in RootFile : files[f] = root[f]
              /\ sound => OnRecord(root, tree)
    <2>1. CalmRoot(p) /\ CalmTrees(p)
        BY <1>2, <1>10 DEF ProcInv, CalmInv
    <2>2. out = Forgotten(p) /\ old = Missing
        BY <1>1, <2>1 DEF CalmTrees
    <2>3. Forgotten(p) \in Sentinel
        <3>1. plan[p].writes \in Record /\ job[p].version \in Version
            BY <1>1, <1>2, PlanElim DEF TypeOK, SessionType, ProcInv, CmdInv, Job
        <3> QED BY <3>1, Blanks, SentinelIntro DEF Forgotten
    <2>4. tree = Forgotten(p)
        BY <1>10, <2>2, <2>3, Names DEF tree, Tracked
    <2>5. SentinelOf(tree) = tree /\ tree.root = plan[p].writes /\ tree.prev = Blank
        BY <2>3, <2>4, SentinelElim DEF Forgotten
    <2>6. \A f \in RootFile : files[f] = root[f]
        BY <1>1, <1>2, <2>1 DEF files, CalmRoot, AfterPC
    <2>7. ASSUME sound PROVE OnRecord(root, tree)
        <3>1. NoRestore
            <4> SUFFICES ASSUME NEW q \in Proc, pc[q] = "restore" PROVE FALSE
                BY DEF NoRestore
            <4> QED BY <1>1, UnlockedProc DEF UnlockedPC
        <3>2. Recoverable
            BY <1>2, <2>7, <3>1 DEF DiskInv
        <3>3. RecoveredOut = out /\ old # Torn
            BY <2>2, Names DEF RecoveredOut, Rollback
        <3> QED BY <2>2, <2>4, <3>2, <3>3 DEF Recoverable
    <2> QED BY <2>3, <2>4, <2>5, <2>6, <2>7
<1>11. GoodCommit(head)'
    <2>1. CASE Staged(p)
        <3>1. tree # Empty
            BY <2>1, Names DEF tree, Tracked
        <3>2. clean => sound /\ ~disturbed
            BY <2>1 DEF clean
        <3> QED BY <1>4, <1>10, <2>1, <3>1, <3>2 DEF GoodCommit, OnRecord
    <2>2. CASE ~Staged(p)
        <3>1. start[p].root = {}
            BY <1>1, <1>2, <2>2 DEF ProcInv, ReleaseInv, AfterPC, Staged
        <3>2. tree = head.out /\ clean = head.sound /\ \A f \in RootFile : files[f] = head.root[f]
            BY <2>2, <3>1 DEF tree, clean, files
        <3> QED BY <1>2, <1>4, <3>2 DEF DiskInv, GoodCommit, OnRecord
    <2> QED BY <2>1, <2>2
<1>12. DiskInv'
    BY <1>1, <1>2, <1>7, <1>11 DEF DiskInv, Recoverable, Ambiguous, RecoveredOut, OnRecord
<1>13. ReleaseInv(p)' /\ CommitInv(p)'
    BY <1>1, <1>2, <1>4, <1>5, <1>9 DEF Moves, ProcInv, ReleaseInv, CommitInv, AfterPC, AtHeadPC
<1>14. CalmInv(p)'
    <2> SUFFICES ASSUME ~disturbed PROVE CalmRoot(p)' /\ (Staged(p) => CalmTrees(p)')
        BY <1>1, <1>9 DEF CalmInv
    <2>1. CalmRoot(p) /\ (Staged(p) => CalmTrees(p))
        BY <1>2, <2>1 DEF ProcInv, CalmInv
    <2>2. CalmRoot(p)'
        BY <1>1, <1>5, <1>9, <2>1 DEF Moves, CalmRoot, BeforePC, AfterPC
    <2>3. ASSUME Staged(p) PROVE CalmTrees(p)'
        <3>1. head'.out = Forgotten(p)'
            BY <1>4, <1>5, <1>10, <2>3 DEF Moves, Forgotten
        <3>2. \A f \in RootFile :
                  plan[p].writes[f] # None \/ (clean /\ files[f] \in Bytes) =>
                      files[f] = plan[p].writes[f]
            <4> SUFFICES ASSUME NEW f \in RootFile,
                                plan[p].writes[f] # None \/ (sound /\ root[f] \in Bytes)
                         PROVE  root[f] = plan[p].writes[f]
                BY <1>10, <2>3 DEF clean
            <4>1. CASE plan[p].writes[f] # None
                BY <1>1, <2>1, <4>1 DEF CalmRoot, Written
            <4>2. CASE plan[p].writes[f] = None /\ sound /\ root[f] \in Bytes
                BY <1>10, <2>3, <4>2, Names DEF OnRecord, Blank
            <4> QED BY <4>1, <4>2
        <3>3. \A q \in Proc \ {p} : pc'[q] \notin SwapPC
            BY <1>1, <1>5, <2>1, <2>3 DEF CalmTrees, Moves, Own, UnlockedPC
        <3> QED BY <1>1, <1>4, <1>5, <2>1, <2>3, <3>1, <3>2, <3>3
                DEF Moves, CalmTrees, BeforePC, AfterPC
    <2> QED BY <2>2, <2>3
<1> QED BY <1>2, <1>6, <1>8, <1>9, <1>12, <1>13, <1>14, Assemble DEF ProcInv

LEMMA ResetHeadIInv == ASSUME IInv, CountType', NEW p \in Proc, ResetHead(p) PROVE IInv'
<1>1. /\ pc[p] = "reset" /\ head' = start[p].head /\ Goto(p, "restore")
      /\ UNCHANGED <<inputs, version, root, out, new, old, tags, lock, session, sound, disturbed>>
    BY DEF ResetHead, disk
<1>2. ProcInv(p) /\ TypeOK /\ DiskInv /\ Releases(p) /\ start[p] \in Snapshot /\ done[p] = {}
    BY <1>1, UnlockedProc DEF IInv, UnlockedPC, ProcInv, PlanInv
<1>3. Moves(p, "restore") /\ done'[p] = done[p]
    BY <1>1, <1>2, GotoMoves DEF TypeOK, PC
<1>4. TypeOK'
    BY <1>1, <1>2, <1>3, SnapshotElim DEF TypeOK, DiskType, Moves
<1>5. sound' /\ NoRestore' => sound /\ NoRestore
    BY <1>1, <1>3, RestoreEnds DEF Moves, Restoring
<1>6. Frame(p)
    BY <1>1, <1>2, <1>3, <1>5 DEF Frame, Moves
<1>7. /\ CmdInv(p)' /\ LockInv(p)' /\ PlanInv(p)' /\ TreeInv(p)' /\ SoundInv(p)'
      /\ Releases(p)' /\ Staged(p)' = Staged(p) /\ ~Staging(p)' /\ Written(p)' = Written(p)
    BY <1>1, <1>3, UnlockedNext DEF UnlockedPC
<1>8. GoodCommit(head)'
    BY <1>1, <1>2 DEF ProcInv, CommitInv, AfterPC, GoodCommit, OnRecord
<1>9. DiskInv'
    BY <1>1, <1>2, <1>5, <1>8 DEF DiskInv, Recoverable, Ambiguous, RecoveredOut, OnRecord
<1>10. ReleaseInv(p)' /\ CommitInv(p)'
    BY <1>1, <1>2, <1>3, <1>7 DEF Moves, ProcInv, ReleaseInv, CommitInv, AfterPC, AtHeadPC
<1>11. CalmInv(p)'
    BY <1>1, <1>2, <1>3, <1>7
       DEF Moves, Own, ProcInv, CalmInv, CalmRoot, CalmTrees, BeforePC, AfterPC, UnlockedPC
<1> QED BY <1>2, <1>4, <1>6, <1>7, <1>9, <1>10, <1>11, Assemble DEF ProcInv

LEMMA RestorePathIInv ==
    ASSUME IInv, CountType', NEW p \in Proc, NEW path \in Path,
           RestorePath(p, path) \/ RestoreFails(p, path)
    PROVE  IInv'
<1> DEFINE G == start[p].head
<1>1. /\ pc[p] = "restore" /\ path \in TouchedPaths(p) /\ pc' = pc
      /\ done' = [done EXCEPT ![p] = @ \cup {path}]
      /\ version' = (IF path = "mars.toml" THEN G.version ELSE version)
      /\ out' \in {out, G.out, Missing} /\ (path # "plugin" => out' = out)
      /\ disturbed' \in {disturbed, TRUE}
      /\ UNCHANGED <<inputs, new, old, head, tags, lock, cmd, job, known, plan, start, sound>>
    BY DEF RestorePath, RestoreFails, git
<1>2. /\ ProcInv(p) /\ TypeOK /\ DiskInv /\ Releases(p) /\ start[p] \in Snapshot
      /\ G \in Commit /\ start[p].root \subseteq RootFile
    BY <1>1, UnlockedProc, SnapshotElim DEF IInv, UnlockedPC
<1>3. /\ root' \in Files
      /\ \A f \in RootFile : f # path => root'[f] = root[f]
      /\ ~disturbed' => \A f \in RootFile : f = path => root'[f] = G.root[f]
    <2>1. G.root \in Files /\ root \in Files
        BY <1>2, CommitElim DEF TypeOK, DiskType
    <2>2. CASE RestorePath(p, path)
        BY <2>1, <2>2 DEF RestorePath, Files
    <2>3. CASE RestoreFails(p, path)
        <3>1. root' = [f \in RootFile |-> IF f = path THEN None ELSE root[f]] \/ root' = root
            BY <2>3 DEF RestoreFails
        <3>2. disturbed'
            BY <2>3 DEF RestoreFails
        <3> QED BY <2>1, <3>1, <3>2 DEF Files
    <2> QED BY <2>2, <2>3
<1>4. Moves(p, "restore") /\ done'[p] = done[p] \cup {path}
    <2>1. pc' = [pc EXCEPT ![p] = "restore"] /\ done[p] \cup {path} \in SUBSET Path /\ "restore" \in PC
        BY <1>1, <1>2 DEF TypeOK, SessionType, PC
    <2> QED BY <1>1, <1>2, <2>1, DoneMoves DEF TypeOK
<1>5. TypeOK'
    BY <1>1, <1>2, <1>3, <1>4, CommitElim DEF TypeOK, DiskType, Moves, Tree
<1>6. sound' /\ NoRestore' => sound /\ NoRestore
    BY <1>1, <1>4, RestoreEnds DEF Moves, Restoring, Staged
<1>7. ~Staged(p) => UNCHANGED <<root, out>>
    <2> SUFFICES ASSUME ~Staged(p) PROVE UNCHANGED <<root, out>>
        OBVIOUS
    <2>1. path = "mars.toml"
        BY <1>1, <1>2 DEF TouchedPaths, ProcInv, ReleaseInv, AfterPC, Staged
    <2>2. out' = out /\ \A f \in RootFile : root'[f] = root[f]
        BY <1>1, <1>3, <2>1, Names
    <2> QED BY <1>2, <1>3, <2>2 DEF TypeOK, DiskType, Files
<1>8. Frame(p)
    BY <1>1, <1>2, <1>4, <1>6, <1>7 DEF Frame, Moves, Staged
<1>9. /\ CmdInv(p)' /\ LockInv(p)' /\ PlanInv(p)' /\ TreeInv(p)' /\ SoundInv(p)'
      /\ Releases(p)' /\ Staged(p)' = Staged(p) /\ ~Staging(p)' /\ Written(p)' = Written(p)
    BY <1>1, <1>4, UnlockedNext DEF UnlockedPC
<1>10. DiskInv'
    <2>1. NoRestore' => ~Staged(p)
        BY <1>4, <1>9 DEF Moves, NoRestore
    <2> QED BY <1>1, <1>2, <1>6, <1>7, <2>1
            DEF DiskInv, Recoverable, Ambiguous, RecoveredOut, OnRecord
<1>11. ReleaseInv(p)' /\ CommitInv(p)'
    BY <1>1, <1>2, <1>4, <1>9 DEF Moves, ProcInv, ReleaseInv, CommitInv, AfterPC, AtHeadPC
<1>12. CalmInv(p)'
    <2> SUFFICES ASSUME ~disturbed' PROVE CalmRoot(p)' /\ (Staged(p) => CalmTrees(p)')
        BY <1>9 DEF CalmInv
    <2>1. RestorePath(p, path) /\ ~disturbed
        BY DEF RestoreFails, RestorePath
    <2>2. CalmRoot(p) /\ (Staged(p) => CalmTrees(p))
        BY <1>2, <2>1 DEF ProcInv, CalmInv
    <2>3. \A f \in RootFile : f = path => f \in start[p].root
        BY <1>1, Names DEF TouchedPaths
    <2>4. CalmRoot(p)'
        BY <1>1, <1>2, <1>3, <1>4, <2>2, <2>3 DEF Moves, CalmRoot, BeforePC, AfterPC
    <2>5. ASSUME Staged(p) PROVE CalmTrees(p)'
        <3>1. CalmTrees(p) /\ (path = "plugin" => out' = G.out)
            BY <2>1, <2>2, <2>5 DEF RestorePath
        <3> QED BY <1>1, <1>4, <3>1 DEF Moves, Own, CalmTrees, BeforePC, AfterPC, UnlockedPC
    <2> QED BY <2>4, <2>5
<1> QED BY <1>2, <1>5, <1>8, <1>9, <1>10, <1>11, <1>12, Assemble DEF ProcInv

(* What a rollback without others' doing has brought back when it ends.    *)
LEMMA RolledBack ==
    ASSUME IInv, NEW p \in Proc, pc[p] = "restore", done[p] = TouchedPaths(p)
    PROVE  /\ head = start[p].head /\ tags[job[p].version] = None /\ version = head.version
           /\ head \in Commit
           /\ ~disturbed /\ Staged(p) =>
                /\ root = head.root
                /\ out = head.out \/ (out = Empty /\ old = Missing /\ head.out = Missing)
<1>1. ProcInv(p) /\ TypeOK /\ Releases(p) /\ pc[p] \in AfterPC /\ pc[p] \in AtHeadPC
    BY UnlockedProc DEF IInv, UnlockedPC, AtHeadPC
<1>2. /\ head = start[p].head /\ tags[job[p].version] = None
      /\ version = head.version /\ head \in Commit
    BY <1>1 DEF ProcInv, ReleaseInv, TouchedPaths, TypeOK, DiskType
<1>3. ASSUME ~disturbed, Staged(p)
      PROVE  /\ root = head.root
             /\ out = head.out \/ (out = Empty /\ old = Missing /\ head.out = Missing)
    <2>1. CalmRoot(p) /\ CalmTrees(p)
        BY <1>1, <1>3 DEF ProcInv, CalmInv
    <2>2. \A f \in RootFile : root[f] = head.root[f]
        BY <1>1, <1>2, <2>1 DEF CalmRoot, TouchedPaths
    <2>3. root \in Files /\ head.root \in Files
        BY <1>1, <1>2, CommitElim DEF TypeOK, DiskType
    <2>4. root = head.root
        BY <2>2, <2>3 DEF Files
    <2>5. "plugin" \in done[p]
        BY <1>3 DEF TouchedPaths
    <2> QED BY <1>2, <2>1, <2>4, <2>5 DEF CalmTrees
<1> QED BY <1>2, <1>3

(* A tree that a sound commit holds, or an empty directory that stands for *)
(* none: recovery can go on from there.                                    *)
LEMMA RecoverableCommit ==
    ASSUME TypeOK, old # Foreign, GoodCommit(head), head.sound, root = head.root,
           out = head.out \/ (out = Empty /\ old = Missing /\ head.out = Missing)
    PROVE  Recoverable
<1>1. head.out \in Sentinel \cup {Missing} /\ OnRecord(root, head.out)
    BY DEF GoodCommit
<1>2. old \in Rollback \cup {Missing, Torn}
    BY DEF TypeOK, DiskType, Tree, Rollback
<1>3. ASSUME head.out = Missing PROVE \A f \in RootFile : root[f] \notin Bytes
    BY <1>1, <1>3, Names DEF OnRecord, SentinelOf, Blank
<1>4. CASE out = head.out
    <2>1. CASE out \in Sentinel
        <3>1. old # Torn => ~Ambiguous /\ RecoveredOut = out
            BY <1>2, <2>1, Names DEF Ambiguous, RecoveredOut
        <3> QED BY <1>1, <1>4, <2>1, <3>1 DEF Recoverable, Replaceable
    <2>2. CASE out = Missing
        <3>1. old # Torn => ~Ambiguous /\ RecoveredOut \in Replaceable
            BY <1>2, <2>2, Names DEF Ambiguous, RecoveredOut, Rollback, Replaceable
        <3> QED BY <1>3, <1>4, <2>2, <3>1 DEF Recoverable, OnRecord
    <2> QED BY <1>1, <1>4, <2>1, <2>2
<1>5. CASE out = Empty /\ old = Missing /\ head.out = Missing
    <2>1. ~Ambiguous /\ RecoveredOut = out
        BY <1>5, Names DEF Ambiguous, RecoveredOut, Rollback
    <2> QED BY <1>3, <1>5, <2>1 DEF Recoverable, OnRecord, Replaceable
<1> QED BY <1>4, <1>5

LEMMA EndRollbackIInv == ASSUME IInv, CountType', NEW p \in Proc, EndRollback(p) PROVE IInv'
<1>1. /\ pc[p] = "restore" /\ done[p] = TouchedPaths(p)
      /\ sound' = IF Staged(p) THEN ~disturbed /\ lock = Free /\ start[p].head.sound ELSE sound
      /\ UNCHANGED <<inputs, version, root, out, new, old, head, tags, lock, disturbed>>
    BY DEF EndRollback, disk, git
<1>2. ProcInv(p) /\ TypeOK /\ DiskInv /\ Releases(p) /\ head = start[p].head /\ head \in Commit
    BY <1>1, UnlockedProc, RolledBack DEF IInv, UnlockedPC
<1>3. Leaves(p) /\ ProcInv(p)' /\ ~Releases(p)'
    BY <1>2, EndLeaves, IdleProc DEF EndRollback, TypeOK, Leaves, Releases
<1>4. sound' \in BOOLEAN
    BY <1>1, <1>2, CommitElim DEF TypeOK, DiskType
<1>5. TypeOK'
    BY <1>1, <1>2, <1>3, <1>4 DEF TypeOK, DiskType, Leaves
<1>6. ~Staged(p) => sound' = sound /\ (NoRestore' => NoRestore)
    BY <1>1, <1>3 DEF Leaves, Own, NoRestore, Staged
<1>7. Frame(p)
    BY <1>1, <1>2, <1>3, <1>6 DEF Frame, Leaves
<1>8. DiskInv'
    <2>1. CASE Staged(p)
        <3> SUFFICES ASSUME sound' PROVE Recoverable'
            BY <1>1, <1>2 DEF DiskInv
        <3>1. ~disturbed /\ head.sound
            BY <1>1, <1>2, <2>1
        <3>2. Recoverable
            BY <1>1, <1>2, <2>1, <3>1, RolledBack, RecoverableCommit DEF DiskInv
        <3> QED BY <1>1, <3>2 DEF Recoverable, Ambiguous, RecoveredOut, OnRecord
    <2>2. CASE ~Staged(p)
        BY <1>1, <1>2, <1>6, <2>2 DEF DiskInv, Recoverable, Ambiguous, RecoveredOut, OnRecord
    <2> QED BY <2>1, <2>2
<1> QED BY <1>3, <1>5, <1>7, <1>8, Assemble

-----------------------------------------------------------------------------
(* The user                                                                *)

(* A command outlasts what the user does: edits during a release are       *)
(* noted, and the trees are the user's only while nobody has the lock.     *)
LEMMA UserProc ==
    ASSUME IInv, NEW q \in Proc, UNCHANGED <<tags, lock, pc, session>>,
           \/ UNCHANGED <<version, root, out, new, old, head, sound, disturbed>>
           \/ /\ disturbed' /\ UNCHANGED <<version, out, new, old, head, sound>>
              /\ \A f \in RootFile : root'[f] \in Bytes => root'[f] = root[f]
           \/ lock = Free /\ disturbed' /\ ~sound' /\ UNCHANGED <<version, root, new, old, head>>
           \/ lock = Free /\ \A r \in Proc : ~Releases(r)
    PROVE  ProcInv(q)'
<1>1. /\ CmdInv(q) /\ LockInv(q) /\ PlanInv(q) /\ TreeInv(q)
      /\ ReleaseInv(q) /\ CalmInv(q) /\ CommitInv(q) /\ SoundInv(q)
    BY DEF IInv, ProcInv
<1>2. UNCHANGED <<pc, cmd, job, known, plan, done, start, lock, tags>>
    BY DEF session
<1>3. /\ Releases(q)' = Releases(q) /\ Staged(q)' = Staged(q) /\ Staging(q)' = Staging(q)
      /\ Holds(q)' = Holds(q) /\ Written(q)' = Written(q) /\ Made(q)' = Made(q)
      /\ Forgotten(q)' = Forgotten(q) /\ NoRestore' = NoRestore
    BY <1>2 DEF Releases, Staged, Staging, Holds, Written, Made, Forgotten, NoRestore
<1>4. CmdInv(q)' /\ LockInv(q)' /\ PlanInv(q)' /\ CommitInv(q)'
    BY <1>1, <1>2, <1>3 DEF CmdInv, LockInv, PlanInv, CommitInv
<1>5. lock = Free => ~Holds(q)
    BY <1>1, Names DEF LockInv
<1>6. TreeInv(q)'
    <2>1. /\ pc[q] = "plan" => Holds(q)
          /\ pc[q] \in {"capture", "bump", "publish", "aside", "swapped", "apply"} /\ Staged(q) =>
                 Holds(q)
          /\ pc[q] \in {"publish", "aside", "swapped", "apply"} => Staged(q)
        BY <1>1 DEF Holds, Staging, Staged, CmdInv, BarePC
    <2> QED BY <1>1, <1>2, <1>3, <1>5, <2>1 DEF TreeInv
<1>7. ReleaseInv(q)'
    BY <1>1, <1>2, <1>3 DEF ReleaseInv
<1>8. SoundInv(q)'
    <2>1. Staging(q) => Holds(q)
        BY DEF Holds
    <2> QED BY <1>1, <1>2, <1>3, <1>5, <2>1 DEF SoundInv, Accounted
<1>9. CalmInv(q)'
    BY <1>1, <1>2, <1>3 DEF CalmInv, CalmRoot, CalmTrees, Tracked
<1> QED BY <1>4, <1>6, <1>7, <1>8, <1>9 DEF ProcInv

LEMMA UserAssemble ==
    ASSUME IInv, TypeOK', DiskInv', UNCHANGED <<pc, session>>, \A q \in Proc : ProcInv(q)'
    PROVE  IInv'
<1>1. OneRelease'
    BY DEF IInv, OneRelease, Releases, session
<1> QED BY <1>1 DEF IInv

LEMMA StutterIInv ==
    ASSUME IInv, CountType', inputs' \in Inputs,
           UNCHANGED <<version, root, out, new, old, git, lock, pc, session, sound, disturbed>>
    PROVE  IInv'
<1>1. UNCHANGED <<head, tags>>
    BY DEF git
<1>2. TypeOK'
    BY <1>1 DEF IInv, TypeOK, DiskType, SessionType, session
<1>3. NoRestore' = NoRestore
    BY DEF NoRestore, Staged, session
<1>4. DiskInv'
    BY <1>1, <1>3 DEF IInv, DiskInv, Recoverable, Ambiguous, RecoveredOut, OnRecord
<1>5. \A q \in Proc : ProcInv(q)'
    BY <1>1, UserProc
<1> QED BY <1>2, <1>4, <1>5, UserAssemble

(* What the user writes to a root file needs no record.                    *)
LEMMA EditRootIInv ==
    ASSUME IInv, CountType', NEW f \in RootFile, NEW bytes \in UserBytes \cup {None},
           EditRoot(f, bytes)
    PROVE  IInv'
<1>1. /\ root' = [root EXCEPT ![f] = bytes] /\ disturbed'
      /\ UNCHANGED <<inputs, version, out, new, old, head, tags, lock, pc, session, sound>>
    BY DEF EditRoot, git
<1>2. disturbed' \in BOOLEAN
    BY DEF EditRoot
<1>3. /\ root' \in Files
      /\ \A g \in RootFile : root'[g] \in Bytes => root'[g] = root[g]
    BY <1>1, Names DEF IInv, TypeOK, DiskType, Files
<1>4. TypeOK'
    BY <1>1, <1>2, <1>3 DEF IInv, TypeOK, DiskType, SessionType, session
<1>5. NoRestore' = NoRestore
    BY <1>1 DEF NoRestore, Staged, session
<1>6. DiskInv'
    BY <1>1, <1>3, <1>5 DEF IInv, DiskInv, Recoverable, Ambiguous, RecoveredOut, OnRecord
<1>7. \A q \in Proc : ProcInv(q)'
    BY <1>1, <1>3, UserProc
<1> QED BY <1>1, <1>4, <1>6, <1>7, UserAssemble

LEMMA EditOutIInv ==
    ASSUME IInv, CountType', NEW t \in {Missing, Foreign}, EditOut(t)
    PROVE  IInv'
<1>1. /\ out' = t /\ ~sound' /\ disturbed' /\ lock = Free
      /\ UNCHANGED <<inputs, version, root, new, old, head, tags, lock, pc, session>>
    BY DEF EditOut, git
<1>2. sound' \in BOOLEAN /\ disturbed' \in BOOLEAN /\ t \in Tree
    BY DEF EditOut, Tree
<1>3. TypeOK'
    BY <1>1, <1>2 DEF IInv, TypeOK, DiskType, SessionType, session
<1>4. DiskInv'
    BY <1>1 DEF IInv, DiskInv
<1>5. \A q \in Proc : ProcInv(q)'
    BY <1>1, UserProc
<1> QED BY <1>1, <1>3, <1>4, <1>5, UserAssemble

(* The commit of a package that is in order can be gone back to.           *)
LEMMA CommitAllIInv == ASSUME IInv, CountType', CommitAll PROVE IInv'
<1> DEFINE c == [inputs |-> inputs, version |-> version, out |-> Tracked(out), root |-> root,
                 sound |-> sound]
<1>1. /\ lock = Free /\ \A p \in Proc : ~Releases(p)
      /\ Tracked(old) = Missing
      /\ head' = c
      /\ UNCHANGED <<inputs, version, root, out, new, old, tags, lock, pc, session, sound, disturbed>>
    BY DEF CommitAll, Quiet, disk
<1>2. TypeOK /\ DiskInv
    BY DEF IInv
<1>3. Tracked(out) \in Tree
    BY <1>2 DEF TypeOK, DiskType, Tree, Tracked
<1>4. c \in Commit
    BY <1>2, <1>3 DEF TypeOK, DiskType, Commit
<1>5. c.out = Tracked(out) /\ c.root = root /\ c.sound = sound
    OBVIOUS
<1> HIDE DEF c
<1>6. TypeOK'
    BY <1>1, <1>2, <1>4 DEF TypeOK, DiskType, SessionType, session
<1>7. NoRestore /\ NoRestore' = NoRestore
    <2>1. \A p \in Proc : pc[p] = "restore" => Releases(p)
        BY DEF IInv, ProcInv, CmdInv, BuildPC, Releases
    <2>2. NoRestore
        BY <1>1, <2>1 DEF NoRestore
    <2> QED BY <1>1, <2>2 DEF NoRestore, Staged, session
<1>8. GoodCommit(c)
    <2>1. Tracked(out) # Empty
        BY Names DEF Tracked
    <2>2. ASSUME sound
          PROVE  Tracked(out) \in Sentinel \cup {Missing} /\ OnRecord(root, Tracked(out))
        <3>1. old \in {Missing, Empty}
            BY <1>1, Names DEF Tracked
        <3>2. ~Ambiguous /\ RecoveredOut \in Replaceable /\ OnRecord(root, RecoveredOut)
            BY <1>2, <1>7, <2>2, <3>1, Names DEF DiskInv, Recoverable
        <3>3. SentinelOf(Empty) = SentinelOf(Missing)
            BY Names DEF SentinelOf
        <3>4. \/ RecoveredOut = out
              \/ RecoveredOut = Empty /\ out = Missing
            BY <3>1, Names DEF RecoveredOut, Rollback
        <3> QED BY <3>2, <3>3, <3>4, Names DEF Replaceable, Tracked, OnRecord
    <2> QED BY <1>5, <2>1, <2>2 DEF GoodCommit
<1>9. DiskInv'
    BY <1>1, <1>2, <1>7, <1>8
       DEF DiskInv, GoodCommit, Recoverable, Ambiguous, RecoveredOut, OnRecord
<1>10. \A q \in Proc : ProcInv(q)'
    BY <1>1, UserProc
<1> QED BY <1>1, <1>6, <1>9, <1>10, UserAssemble

LEMMA RestoreIInv == ASSUME IInv, CountType', Restore PROVE IInv'
<1>1. /\ lock = Free /\ \A p \in Proc : ~Releases(p)
      /\ inputs' = head.inputs /\ version' = head.version /\ root' = head.root
      /\ out' = head.out /\ new' = Missing /\ old' = Missing
      /\ sound' = head.sound
      /\ UNCHANGED <<head, tags, lock, pc, session, disturbed>>
    BY DEF Restore, Quiet, git
<1>2. TypeOK /\ DiskInv /\ head \in Commit
    BY DEF IInv, TypeOK, DiskType
<1>3. TypeOK'
    BY <1>1, <1>2, CommitElim DEF TypeOK, DiskType, SessionType, session, Tree
<1>4. DiskInv'
    <2>1. GoodCommit(head) /\ GoodCommit(head)'
        BY <1>1, <1>2 DEF DiskInv, GoodCommit, OnRecord
    <2>2. sound' => Recoverable'
        BY <1>1, <2>1, Names
           DEF GoodCommit, Recoverable, Ambiguous, RecoveredOut, Rollback, Replaceable, OnRecord
    <2> QED BY <1>1, <2>1, <2>2, Names DEF DiskInv
<1>5. \A q \in Proc : ProcInv(q)'
    BY <1>1, UserProc
<1> QED BY <1>1, <1>3, <1>4, <1>5, UserAssemble

-----------------------------------------------------------------------------
(* The specification                                                       *)

LEMMA StepCounts ==
    ASSUME CountType, NEW p \in Proc, Start(p) \/ (Step(p) /\ UNCHANGED commands)
    PROVE  CountType'
<1>1. {MaxEdits, MaxFaults, MaxCommands} \subseteq Nat
    BY ConstantsOK
<1>2. CASE Start(p)
    <2>1. UNCHANGED <<edits, faults>> /\ commands < MaxCommands /\ commands' = commands + 1
        BY <1>2 DEF Start, StartBuild, StartRelease
    <2> QED BY <1>1, <2>1 DEF CountType
<1>3. CASE Step(p) /\ UNCHANGED commands
    <2>1. edits' = edits
        BY <1>3 DEF Step, Acquire, SkipStaging, TagExists, Recover, RecoveryRefuses, Stage,
              StageRefuses, Stop, Capture, CaptureRefuses, Bump, PublishRefused, MoveAside, Place,
              PlaceRefused, RemoveOld, ApplyWrite, ApplyDelete, ApplyRefused, Clear, CommitRelease,
              CommitRefused, Tag, ResetHead, EndRollback, RestorePath, RestoreFails, Fails, Kill,
              Abort
    <2>2. faults' = faults \/ Fault
        BY <1>3 DEF Step, Acquire, SkipStaging, TagExists, Recover, RecoveryRefuses, Stage,
              StageRefuses, Stop, Capture, CaptureRefuses, Bump, PublishRefused, MoveAside, Place,
              PlaceRefused, RemoveOld, ApplyWrite, ApplyDelete, ApplyRefused, Clear, CommitRelease,
              CommitRefused, Tag, ResetHead, EndRollback, RestorePath, RestoreFails, Fails, Kill
    <2> QED BY <1>1, <1>3, <2>1, <2>2 DEF CountType, Fault
<1> QED BY <1>2, <1>3

LEMMA Counts == ASSUME TypeOK, [Next]_vars PROVE CountType'
<1>1. CountType /\ {MaxEdits, MaxFaults, MaxCommands} \subseteq Nat
    BY ConstantsOK DEF TypeOK
<1>2. CASE \E p \in Proc : Start(p) \/ (Step(p) /\ UNCHANGED commands)
    BY <1>1, <1>2, StepCounts
<1>3. CASE User /\ UNCHANGED commands
    <2>1. faults' = faults /\ (edits' = edits \/ Edit)
        BY <1>3 DEF User, EditInputs, EditRoot, EditOut, CommitAll, Restore
    <2> QED BY <1>1, <1>3, <2>1 DEF CountType, Edit
<1>4. CASE Rest \/ UNCHANGED vars
    BY <1>1, <1>4 DEF CountType, Rest, vars
<1> QED BY <1>2, <1>3, <1>4 DEF Next

LEMMA InitIInv == Init => IInv
<1> SUFFICES ASSUME Init PROVE IInv
    OBVIOUS
<1> DEFINE c == [inputs |-> inputs, version |-> 1, root |-> Blank, sound |-> TRUE, out |-> Missing]
<1>1. /\ inputs \in Inputs /\ version = 1 /\ root = Blank
      /\ out = Missing /\ new = Missing /\ old = Missing /\ head = c
      /\ lock = Free /\ sound = TRUE /\ disturbed = FALSE
      /\ edits = 0 /\ faults = 0 /\ commands = 0
      /\ tags = [v \in Version |-> None]
      /\ pc = [p \in Proc |-> "idle"]
      /\ cmd = [p \in Proc |-> "build"] /\ job = [p \in Proc |-> NoJob]
      /\ known = [p \in Proc |-> Blank] /\ plan = [p \in Proc |-> NoPlan]
      /\ done = [p \in Proc |-> {}] /\ start = [p \in Proc |-> None]
    BY DEF Init
<1>2. Blank \in Record /\ Blank \in Files /\ NoPlan \in Plan /\ 1 \in Version
    BY Blanks, RecordFiles, ConstantsOK
<1>3. c \in Commit /\ c.out = Missing /\ c.root = Blank /\ c.sound = TRUE
    BY <1>1, <1>2 DEF Commit, Tree
<1> HIDE DEF c
<1>4. DiskType
    BY <1>1, <1>2, <1>3 DEF DiskType, Tree
<1>5. SessionType
    <2> HIDE DEF NoPlan, Blank, NoJob
    <2> QED BY <1>1, <1>2 DEF SessionType, PC
<1>6. CountType
    BY <1>1, ConstantsOK DEF CountType
<1>7. OneRelease
    BY <1>1 DEF OneRelease, Releases
<1>8. DiskInv
    <2>1. \A f \in RootFile : Blank[f] \notin Bytes
        BY Names DEF Blank
    <2>2. GoodCommit(head)
        BY <1>1, <1>3, <2>1, Names DEF GoodCommit, OnRecord
    <2>3. Recoverable
        BY <1>1, <2>1, Names
           DEF Recoverable, Ambiguous, RecoveredOut, Rollback, Replaceable, OnRecord
    <2> QED BY <1>1, <2>2, <2>3, Names DEF DiskInv
<1>9. ASSUME NEW p \in Proc PROVE ProcInv(p)
    <2>1. pc[p] = "idle" /\ cmd[p] = "build" /\ plan[p] = NoPlan
        BY <1>1
    <2>2. ~Releases(p) /\ ~Staging(p) /\ ~Holds(p) /\ Written(p) = {} /\ plan[p].deletes = {}
          /\ \A f \in RootFile : plan[p].prev[f] = None
        BY <2>1 DEF Releases, Staging, Holds, Written, NoPlan, Blank
    <2> QED BY <2>1, <2>2 DEF ProcInv, CmdInv, LockInv, PlanInv, TreeInv, ReleaseInv, CalmInv,
                              CommitInv, SoundInv, BuildPC, AfterPC
<1> QED BY <1>4, <1>5, <1>6, <1>7, <1>8, <1>9 DEF IInv, TypeOK

LEMMA StepIInv ==
    ASSUME IInv, CountType', NEW p \in Proc, Step(p)
    PROVE  IInv'
<1>1. CASE \/ Acquire(p) \/ SkipStaging(p) \/ TagExists(p)
           \/ Recover(p) \/ RecoveryRefuses(p) \/ Stage(p) \/ StageRefuses(p)
           \/ Capture(p) \/ CaptureRefuses(p) \/ Bump(p)
    BY <1>1, AcquireIInv, SkipStagingIInv, TagExistsIInv, RecoverIInv, StopIInv, StageIInv,
       CaptureIInv, BumpIInv
<1>2. CASE \/ PublishRefused(p) \/ MoveAside(p) \/ Place(p) \/ PlaceRefused(p) \/ RemoveOld(p)
           \/ \E f \in RootFile : ApplyWrite(p, f) \/ ApplyDelete(p, f)
           \/ ApplyRefused(p) \/ Clear(p)
    BY <1>2, AbortsIInv, MoveAsideIInv, PlaceIInv, RemoveOldIInv, ApplyIInv, ClearIInv
<1>3. CASE \/ CommitRelease(p) \/ CommitRefused(p) \/ Tag(p)
           \/ ResetHead(p) \/ EndRollback(p)
           \/ \E path \in Path : RestorePath(p, path) \/ RestoreFails(p, path)
           \/ Fails(p) \/ Kill(p)
    BY <1>3, CommitReleaseIInv, AbortsIInv, TagExistsIInv, ResetHeadIInv, EndRollbackIInv,
       RestorePathIInv, KillIInv
<1> QED BY <1>1, <1>2, <1>3 DEF Step, Path

LEMMA UserIInv == ASSUME IInv, CountType', User PROVE IInv'
<1>1. CASE EditInputs
    BY <1>1, StutterIInv DEF EditInputs, git
<1> QED BY <1>1, EditRootIInv, EditOutIInv, CommitAllIInv, RestoreIInv DEF User

LEMMA NextIInv == IInv /\ [Next]_vars => IInv'
<1> SUFFICES ASSUME IInv, [Next]_vars PROVE IInv'
    OBVIOUS
<1>1. CountType'
    BY Counts DEF IInv
<1>2. CASE \E p \in Proc : Start(p)
    BY <1>1, <1>2, StartBuildIInv, StartReleaseIInv DEF Start
<1>3. CASE User
    BY <1>1, <1>3, UserIInv
<1>4. CASE \E p \in Proc : Step(p)
    BY <1>1, <1>4, StepIInv
<1>5. CASE Rest \/ UNCHANGED vars
    BY <1>1, <1>5, StutterIInv DEF Rest, vars, disk, git, IInv, TypeOK, DiskType
<1> QED BY <1>2, <1>3, <1>4, <1>5 DEF Next

LEMMA Invariance == Spec => []IInv
<1> QED BY InitIInv, NextIInv, PTL DEF Spec

(* The package, its trees, the commits and the commands keep the shape     *)
(* their readers expect (build/plugin/*, cli/version.rs).                  *)
THEOREM TypeCorrect == Spec => []TypeOK
<1>1. IInv => TypeOK
    BY DEF IInv
<1> QED BY <1>1, Invariance, PTL

-----------------------------------------------------------------------------
(* What the runs check, for every value of the constants                   *)

(* The invariant gives the next build a tree it can recover, with every    *)
(* root file that Mars rendered on record in it.                           *)
LEMMA OwnOutputFacts == IInv => OwnOutputAccepted
<1> SUFFICES ASSUME IInv, sound, lock = Free, old # Torn,
                    \A p \in Proc : pc[p] \notin {"reset", "restore"}
             PROVE  /\ ~Ambiguous /\ RecoveredOut \in Replaceable
                    /\ \A f \in RootFile : root[f] \in Bytes => Ours(RecoveredOut, f)
    BY DEF OwnOutputAccepted
<1>1. NoRestore
    BY DEF NoRestore
<1>2. ~Ambiguous /\ RecoveredOut \in Replaceable /\ OnRecord(root, RecoveredOut)
    BY <1>1 DEF IInv, DiskInv, Recoverable
<1> QED BY <1>2, Names DEF OnRecord, Ours

(* A kill or a failure of a build, or of a release before its rollback,    *)
(* leaves a tree that the next build can recover, with every root file     *)
(* whose bytes Mars rendered on record in it (build/plugin/output.rs, the  *)
(* root_files_previous of the sentinel). Not promised: after a rollback    *)
(* tree was left half removed, or a rollback cut short.                    *)
THEOREM OwnOutput == Spec => []OwnOutputAccepted
<1> QED BY OwnOutputFacts, Invariance, PTL

(* A release that fails leaves the commit, the version, the plugin and the *)
(* root files as it found them, and no tag (rollback in cli/version.rs).   *)
LEMMA UndoneFacts == IInv => ReleaseUndone
<1> SUFFICES ASSUME IInv, NEW p \in Proc, pc[p] = "restore", done[p] = TouchedPaths(p),
                    ~disturbed
             PROVE  /\ head = start[p].head /\ tags[job[p].version] = None
                    /\ version = head.version
                    /\ Staged(p) => root = head.root /\ Tracked(out) = head.out
    BY DEF ReleaseUndone
<1>1. head.out # Empty
    BY DEF IInv, DiskInv, GoodCommit
<1> QED BY <1>1, RolledBack DEF Tracked

THEOREM Undone == Spec => []ReleaseUndone
<1> QED BY UndoneFacts, Invariance, PTL

-----------------------------------------------------------------------------
(* What a step may never do                                                *)

(* Most steps of a command leave root files and tags alone.                *)
LEMMA StepKeeps ==
    ASSUME NEW p \in Proc, Step(p)
    PROVE  /\ \/ root' = root
              \/ \E f \in RootFile : ApplyWrite(p, f) \/ ApplyDelete(p, f)
              \/ \E path \in Path : RestorePath(p, path) \/ RestoreFails(p, path)
           /\ tags' = tags \/ Tag(p)
<1>1. CASE \E f \in RootFile : ApplyWrite(p, f) \/ ApplyDelete(p, f)
    BY <1>1 DEF ApplyWrite, ApplyDelete, git
<1>2. CASE \E path \in Path : RestorePath(p, path) \/ RestoreFails(p, path)
    BY <1>2 DEF RestorePath, RestoreFails, git
<1>3. CASE \/ Acquire(p) \/ SkipStaging(p) \/ TagExists(p)
           \/ Recover(p) \/ RecoveryRefuses(p) \/ Stage(p) \/ StageRefuses(p)
           \/ Capture(p) \/ CaptureRefuses(p) \/ Bump(p)
    BY <1>3 DEF Acquire, SkipStaging, TagExists, Recover, RecoveryRefuses, Stage, StageRefuses,
              Stop, Capture, CaptureRefuses, Bump, disk, git
<1>4. CASE \/ PublishRefused(p) \/ MoveAside(p) \/ Place(p) \/ PlaceRefused(p) \/ RemoveOld(p)
           \/ ApplyRefused(p) \/ Clear(p)
    BY <1>4 DEF PublishRefused, MoveAside, Place, PlaceRefused, RemoveOld, ApplyRefused, Clear,
              Abort, git
<1>5. CASE \/ CommitRelease(p) \/ CommitRefused(p) \/ Tag(p)
           \/ ResetHead(p) \/ EndRollback(p) \/ Fails(p) \/ Kill(p)
    BY <1>5 DEF CommitRelease, CommitRefused, Tag, ResetHead, EndRollback, Fails, Kill, Abort,
              disk, git
<1> QED BY <1>1, <1>2, <1>3, <1>4, <1>5 DEF Step, Path

LEMMA ByStep ==
    ASSUME [Next]_vars
    PROVE  \/ root' = root
           \/ User
           \/ \E p \in Proc : Step(p)
<1>1. CASE (\E p \in Proc : Start(p)) \/ Rest \/ UNCHANGED vars
    BY <1>1 DEF Start, StartBuild, StartRelease, Rest, vars, disk
<1> QED BY <1>1 DEF Next

LEMMA UserFilesStep ==
    ASSUME IInv, [Next]_vars, NEW f \in RootFile, root[f] \in UserBytes, root'[f] # root[f]
    PROVE  \/ User
           \/ disturbed /\ \E p \in Proc : pc[p] = "restore" /\ f \in start[p].root
<1> SUFFICES ASSUME NEW p \in Proc, Step(p)
             PROVE  disturbed /\ pc[p] = "restore" /\ f \in start[p].root
    BY ByStep
<1>1. root \in Files /\ known[p] \in Record /\ plan[p] \in Plan
    BY DEF IInv, TypeOK, DiskType, SessionType
<1>2. ASSUME NEW g \in RootFile, ApplyWrite(p, g) \/ ApplyDelete(p, g) PROVE FALSE
    <2>1. g = f
        BY <1>1, <1>2 DEF ApplyWrite, ApplyDelete, Files
    <2>2. known[p][f] \in Bytes \cup {None} /\ plan[p].writes[f] \in Bytes \cup {None}
        BY <1>1, PlanElim DEF Record
    <2>3. root[f] \in {None, known[p][f], plan[p].writes[f]}
        BY <1>2, <2>1 DEF ApplyWrite, ApplyDelete, MayWrite, MayDelete
    <2> QED BY <2>2, <2>3, Names
<1>3. ASSUME NEW path \in Path, RestorePath(p, path) \/ RestoreFails(p, path)
      PROVE  disturbed /\ pc[p] = "restore" /\ f \in start[p].root
    <2>1. pc[p] = "restore" /\ path = f /\ path \in TouchedPaths(p)
        BY <1>1, <1>3 DEF RestorePath, RestoreFails, Files
    <2>2. f \in start[p].root
        BY <2>1, Names DEF TouchedPaths
    <2>3. Releases(p) /\ pc[p] \in AfterPC
        BY <2>1, UnlockedProc DEF UnlockedPC
    <2>4. ASSUME ~disturbed PROVE FALSE
        BY <2>2, <2>3, <2>4 DEF IInv, ProcInv, CalmInv, CalmRoot
    <2> QED BY <2>1, <2>2, <2>4
<1> QED BY <1>2, <1>3, StepKeeps

(* A file the user put at a generated path is replaced by no build: its    *)
(* bytes are neither recorded nor rendered, and each write and deletion    *)
(* asks again (allows_write, allows_delete in build/plugin/root_files.rs). *)
THEOREM UserFiles == Spec => UserFilesKept
<1>1. IInv /\ [Next]_vars =>
        [\A f \in RootFile :
            root[f] \in UserBytes /\ root'[f] # root[f] =>
                \/ User
                \/ disturbed /\ \E p \in Proc : pc[p] = "restore" /\ f \in start[p].root]_vars
    BY UserFilesStep
<1> QED BY <1>1, Invariance, PTL DEF Spec, UserFilesKept

LEMMA TaggedStep ==
    ASSUME IInv, [Next]_vars, NEW v \in Version, tags'[v] # tags[v], ~disturbed
    PROVE  LET c == tags'[v] IN
            /\ c.version = v
            /\ (\E p \in Proc : pc[p] = "tag" /\ Staged(p)) =>
                /\ c.out \in Sentinel /\ c.out.version = v /\ c.out.prev = Blank
                /\ \A f \in RootFile :
                        c.out.root[f] # None \/ (c.sound /\ c.root[f] \in Bytes) =>
                            c.root[f] = c.out.root[f]
<1>1. PICK p \in Proc : Tag(p)
    <2>1. CASE (\E p \in Proc : Start(p)) \/ Rest \/ UNCHANGED vars
        BY <2>1 DEF Start, StartBuild, StartRelease, Rest, vars, git
    <2>2. CASE User
        BY <2>2 DEF User, EditInputs, EditRoot, EditOut, CommitAll, Restore, git
    <2>3. CASE \E p \in Proc : Step(p)
        BY <2>3, StepKeeps
    <2> QED BY <2>1, <2>2, <2>3 DEF Next
<1>2. pc[p] = "tag" /\ tags' = [tags EXCEPT ![job[p].version] = head]
    BY <1>1 DEF Tag
<1>3. /\ Releases(p) /\ pc[p] \in AfterPC /\ job[p] \in Job
      /\ \A q \in Proc \ {p} : ~Releases(q)
    BY <1>2, UnlockedProc DEF UnlockedPC
<1>4. v = job[p].version /\ tags'[v] = head
    BY <1>2 DEF IInv, TypeOK, DiskType
<1>5. head.version = v
    BY <1>2, <1>3, <1>4 DEF IInv, ProcInv, ReleaseInv
<1>6. ASSUME NEW q \in Proc, pc[q] = "tag", Staged(q) PROVE q = p
    BY <1>3, <1>6, UnlockedProc DEF UnlockedPC
<1>7. ASSUME Staged(p)
      PROVE  /\ head.out \in Sentinel /\ head.out.version = v /\ head.out.prev = Blank
             /\ \A f \in RootFile :
                     head.out.root[f] # None \/ (head.sound /\ head.root[f] \in Bytes) =>
                         head.root[f] = head.out.root[f]
    <2>1. CalmTrees(p)
        BY <1>3, <1>7 DEF IInv, ProcInv, CalmInv
    <2>2. plan[p].writes \in Record /\ v \in Version
        BY PlanElim DEF IInv, TypeOK, SessionType
    <2>3. /\ Forgotten(p) \in Sentinel /\ Forgotten(p).version = v
          /\ Forgotten(p).root = plan[p].writes /\ Forgotten(p).prev = Blank
        BY <1>4, <2>2, Blanks, SentinelIntro DEF Forgotten
    <2> QED BY <1>2, <2>1, <2>3 DEF CalmTrees
<1> QED BY <1>4, <1>5, <1>6, <1>7

(* What is tagged is what was built: the tree made for that version, with  *)
(* root files that match its record (cli/version.rs's order of publish,    *)
(* git add, commit and tag).                                               *)
THEOREM Tagged == Spec => TaggedIsBuilt
<1>1. IInv /\ [Next]_vars =>
        [\A v \in Version :
            tags'[v] # tags[v] /\ ~disturbed =>
                LET c == tags'[v] IN
                /\ c.version = v
                /\ (\E p \in Proc : pc[p] = "tag" /\ Staged(p)) =>
                    /\ c.out \in Sentinel /\ c.out.version = v /\ c.out.prev = Blank
                    /\ \A f \in RootFile :
                            c.out.root[f] # None \/ (c.sound /\ c.root[f] \in Bytes) =>
                                c.root[f] = c.out.root[f]]_vars
    BY TaggedStep
<1> QED BY <1>1, Invariance, PTL DEF Spec, TaggedIsBuilt
==============================================================================
