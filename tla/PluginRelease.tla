---------------------------- MODULE PluginRelease ----------------------------
(* `mars build plugin` and `mars version`: the generated plugin tree of a  *)
(* package and the root files that go with it (catalogs, package.json),    *)
(* their publication in two steps, recovery after a kill, and the release  *)
(* that bumps, publishes, commits and tags, or rolls everything back.      *)
(*                                                                         *)
(* A tree is known by its sentinel file. The lock of the output serialises *)
(* staging and publication, not the git steps of a release.                *)
EXTENDS Naturals, FiniteSets

CONSTANTS
    Proc,           \* commands that may run side by side
    RootFile,       \* the package-root files Mars can generate
    Inputs,         \* states of the authored package: sources and harnesses
    Expected,       \* Expected[i]: the root files that i's harnesses need
    Version,        \* versions of the package: 1 .. n
    Bytes,          \* what a root file can hold when Mars renders it
    Render,         \* Render[f, i, v]: f as built from i at version v
    UserBytes,      \* what the user may put at a root file
    MaxEdits,       \* bound: changes the user makes to generated paths
    MaxFaults,      \* bound: kills and failing operations
    MaxCommands,    \* bound: commands started
    None,           \* no bytes, no record, no commit
    Missing,        \* no tree
    Empty,          \* an empty directory
    Foreign,        \* a directory without a valid sentinel
    Torn,           \* what is left of a tree when its removal was interrupted
    Free            \* nobody holds the lock

ASSUME ConstantsOK ==
    /\ Version = 1 .. Cardinality(Version)
    /\ Expected \in [Inputs -> SUBSET RootFile]
    /\ Render \in [RootFile \X Inputs \X Version -> Bytes]
    /\ Bytes \cap UserBytes = {} /\ None \notin Bytes \cup UserBytes
    /\ Free \notin Proc
    /\ 1 \in Version /\ {MaxEdits, MaxFaults, MaxCommands} \subseteq Nat

Record == [RootFile -> Bytes \cup {None}]
Blank == [f \in RootFile |-> None]
Sentinel == [version : Version, root : Record, prev : Record]
Tree == Sentinel \cup {Missing, Empty, Foreign, Torn}
Files == [RootFile -> Bytes \cup UserBytes \cup {None}]
Commit == [inputs : Inputs, version : Version, out : Tree, root : Files, sound : BOOLEAN]

(* The states of the output directory differ, and neither mars.toml nor    *)
(* the output directory is a root file that Mars generates.                *)
ASSUME NamesDiffer ==
    /\ {Missing, Empty, Foreign, Torn} \cap Sentinel = {}
    /\ Missing \notin {Empty, Foreign, Torn} /\ Empty \notin {Foreign, Torn} /\ Foreign # Torn
    /\ {"mars.toml", "plugin"} \cap RootFile = {}

VARIABLES
    inputs,     \* the authored sources and configuration
    version,    \* [package].version in mars.toml
    root,       \* the root files
    out,        \* the plugin output directory
    new,        \* .<out>.mars-new, the staging tree
    old,        \* .<out>.mars-old, the tree moved aside
    head,       \* the commit checked out
    tags,       \* tags[v]: the commit tagged for version v
    lock,       \* who holds the lock of the output
    pc,         \* where each command is
    cmd,        \* "build", "release", or "bare", a release with --no-plugins
    job,        \* the inputs and the version a command works on
    known,      \* known[p]: the hashes its plan took as Mars's own
    plan,       \* what it writes and deletes among the root files
    done,       \* the root files, or the paths, it has dealt with
    start,      \* the commit a release goes back to
    sound,      \* history: nobody but finished builds disturbed the output
    disturbed,  \* history: others touched the package while a release ran
    edits, faults, commands

disk == <<inputs, version, root, out, new, old>>
git == <<head, tags>>
session == <<cmd, job, known, plan, done, start>>
vars == <<disk, git, lock, pc, session, sound, disturbed, edits, faults, commands>>

NoPlan == [writes |-> Blank, deletes |-> {}, prev |-> Blank]
NoJob == [inputs |-> None, version |-> None]

Init ==
    /\ inputs \in Inputs /\ version = 1
    /\ root = Blank
    /\ out = Missing /\ new = Missing /\ old = Missing
    /\ head = [inputs |-> inputs, version |-> version, root |-> root, sound |-> TRUE,
               out |-> Missing]
    /\ tags = [v \in Version |-> None]
    /\ lock = Free
    /\ pc = [p \in Proc |-> "idle"]
    /\ cmd = [p \in Proc |-> "build"] /\ job = [p \in Proc |-> NoJob]
    /\ known = [p \in Proc |-> Blank] /\ plan = [p \in Proc |-> NoPlan]
    /\ done = [p \in Proc |-> {}] /\ start = [p \in Proc |-> None]
    /\ sound = TRUE /\ disturbed = FALSE
    /\ edits = 0 /\ faults = 0 /\ commands = 0

-----------------------------------------------------------------------------
(* What is on disk, as a build and as git see it.                          *)

SentinelOf(t) ==
    IF t \in Sentinel THEN t ELSE [version |-> 1, root |-> Blank, prev |-> Blank]

(* Bytes on record as Mars's own: those of the last build, or those it was *)
(* replacing when it died.                                                 *)
Ours(t, f) ==
    root[f] # None /\ root[f] \in {SentinelOf(t).root[f], SentinelOf(t).prev[f]}
Known(t) == [f \in RootFile |-> IF Ours(t, f) THEN root[f] ELSE SentinelOf(t).root[f]]

(* A path that only the build before recorded counts while it holds that   *)
(* build's bytes.                                                          *)
Inspected(t, i) == {f \in RootFile :
    f \in Expected[i] \/ SentinelOf(t).root[f] # None \/ Ours(t, f)}

Writes(i, v) == [f \in RootFile |-> IF f \in Expected[i] THEN Render[f, i, v] ELSE None]
Deletes(t, i) == {f \in Inspected(t, i) \ Expected[i] : Known(t)[f] # None}

MayWrite(f, hash, bytes) == root[f] \in {None, hash, bytes}
(* [mutant] A recorded file is deleted whatever it holds by now. *)
MayDeleteRecorded(f, hash) == root[f] = None \/ hash # None
MayDelete(f, hash) == root[f] \in {None, hash}

Accepts(t, i, v) ==
    /\ \A f \in Expected[i] : MayWrite(f, Known(t)[f], Render[f, i, v])
    /\ \A f \in Deletes(t, i) : MayDelete(f, Known(t)[f])

(* [mutant] Retired files are not remembered. *)
ReplacedInPlace(t, i, v) == [f \in RootFile |->
    IF Ours(t, f) /\ f \in Expected[i] /\ Render[f, i, v] # root[f] THEN root[f] ELSE None]

(* Mars's own bytes that this build replaces or deletes: the sentinel      *)
(* remembers them until the root files are rewritten.                      *)
Replaced(t, i, v) == [f \in RootFile |->
    IF Ours(t, f) /\ (f \in Deletes(t, i) \/ (f \in Expected[i] /\ Render[f, i, v] # root[f]))
    THEN root[f] ELSE None]

Built(t, i, v) == [version |-> v, root |-> Writes(i, v), prev |-> Replaced(t, i, v)]

Replaceable == {Missing, Empty} \cup Sentinel
Rollback == {Empty} \cup Sentinel
Ambiguous == old # Missing /\ ~(old \in Rollback /\ out \in Sentinel \cup {Missing})
RecoveredOut == IF old \in Rollback /\ out = Missing THEN old ELSE out

(* git does not see an empty directory.                                    *)
Tracked(t) == IF t = Empty THEN Missing ELSE t
Clean ==
    /\ inputs = head.inputs /\ version = head.version /\ root = head.root
    /\ Tracked(out) = head.out /\ Tracked(old) = Missing

-----------------------------------------------------------------------------
(* Commands.                                                               *)

Staged(p) == cmd[p] # "bare"
Releases(p) == pc[p] # "idle" /\ cmd[p] # "build"
Disturbs(p) == disturbed \/ \E q \in Proc \ {p} : Releases(q)

Goto(p, label) == pc' = [pc EXCEPT ![p] = label]
Unlocked(p) == IF lock = p THEN Free ELSE lock

End(p) ==
    /\ Goto(p, "idle")
    /\ cmd' = [cmd EXCEPT ![p] = "build"] /\ job' = [job EXCEPT ![p] = NoJob]
    /\ known' = [known EXCEPT ![p] = Blank] /\ plan' = [plan EXCEPT ![p] = NoPlan]
    /\ done' = [done EXCEPT ![p] = {}] /\ start' = [start EXCEPT ![p] = None]

(* A build reads the package before it has the lock.                       *)
StartBuild(p) ==
    /\ pc[p] = "idle"
    /\ cmd' = [cmd EXCEPT ![p] = "build"]
    /\ job' = [job EXCEPT ![p] = [inputs |-> inputs, version |-> version]]
    /\ Goto(p, "load")
    /\ UNCHANGED <<disk, git, lock, known, plan, done, start, sound, disturbed, edits, faults>>

StartRelease(p, c) ==
    /\ pc[p] = "idle" /\ \A q \in Proc : ~Releases(q)
    /\ Clean /\ version + 1 \in Version
    /\ cmd' = [cmd EXCEPT ![p] = c]
    /\ job' = [job EXCEPT ![p] = [inputs |-> inputs, version |-> version + 1]]
    /\ plan' = [plan EXCEPT ![p] = NoPlan]
    /\ Goto(p, "start")
    /\ disturbed' = FALSE
    /\ UNCHANGED <<disk, git, lock, known, done, start, sound, edits, faults>>

TagFree(p) == cmd[p] = "build" \/ tags[job[p].version] = None

Acquire(p) ==
    /\ lock = Free
    /\ \/ pc[p] = "start" /\ Goto(p, "recover first")
       \/ pc[p] = "load" /\ Staged(p) /\ TagFree(p) /\ Goto(p, "recover")
    /\ lock' = p
    /\ UNCHANGED <<disk, git, session, sound, disturbed, edits, faults>>

SkipStaging(p) ==
    /\ pc[p] = "load" /\ ~Staged(p) /\ TagFree(p)
    /\ Goto(p, "capture")
    /\ UNCHANGED <<disk, git, lock, session, sound, disturbed, edits, faults>>

TagExists(p) ==
    /\ pc[p] = "load" /\ ~TagFree(p)
    /\ End(p)
    /\ UNCHANGED <<disk, git, lock, sound, disturbed, edits, faults>>

(* Staging left behind goes; a tree moved aside comes back, or goes when   *)
(* its successor is in place.                                              *)
Recover(p) ==
    /\ pc[p] \in {"recover first", "recover"} /\ ~Ambiguous
    /\ new' = Missing
    /\ old' = Missing /\ out' = RecoveredOut
    /\ IF pc[p] = "recover" THEN Goto(p, "plan") /\ lock' = lock
                            ELSE Goto(p, "load") /\ lock' = Free
    /\ UNCHANGED <<inputs, version, root, git, session, sound, disturbed, edits, faults>>

Stop(p) ==
    /\ new' = IF lock = p THEN Missing ELSE new
    /\ End(p) /\ lock' = Unlocked(p)
    /\ UNCHANGED <<inputs, version, root, out, old, git, sound, disturbed, edits, faults>>

RecoveryRefuses(p) == pc[p] \in {"recover first", "recover"} /\ Ambiguous /\ Stop(p)

Stage(p) ==
    LET i == job[p].inputs  v == job[p].version IN
    /\ pc[p] = "plan" /\ out \in Replaceable /\ Accepts(out, i, v)
    /\ new' = Built(out, i, v)
    /\ known' = [known EXCEPT ![p] = Known(out)]
    /\ plan' = [plan EXCEPT ![p] = [writes |-> Writes(i, v), deletes |-> Deletes(out, i),
                                    prev |-> Replaced(out, i, v)]]
    /\ done' = [done EXCEPT ![p] = {}]
    /\ Goto(p, IF cmd[p] = "build" THEN "publish" ELSE "capture")
    /\ UNCHANGED <<inputs, version, root, out, old, git, lock, cmd, job, start, sound, disturbed,
                   edits, faults>>

StageRefuses(p) ==
    /\ pc[p] = "plan"
    /\ out \notin Replaceable \/ ~Accepts(out, job[p].inputs, job[p].version)
    /\ Stop(p)

Written(p) == {f \in RootFile : plan[p].writes[f] # None}

(* The root files among the touched paths.                                 *)
Touched(p) == Written(p) \cup
    {f \in plan[p].deletes : root[f] # None \/ head.root[f] # None}

(* A release keeps the commit to go back to, unless a path it would touch  *)
(* exists and git does not know it.                                        *)
Untracked(p) == {f \in Touched(p) : root[f] # None /\ head.root[f] = None}

Capture(p) ==
    /\ pc[p] = "capture" /\ Untracked(p) = {}
    /\ start' = [start EXCEPT ![p] = [head |-> head, root |-> Touched(p)]]
    /\ Goto(p, "bump")
    /\ UNCHANGED <<disk, git, lock, cmd, job, known, plan, done, sound, disturbed, edits, faults>>

CaptureRefuses(p) == pc[p] = "capture" /\ Untracked(p) # {} /\ Stop(p)

(* CHANGELOG.md and mars.toml.                                             *)
Bump(p) ==
    /\ pc[p] = "bump"
    /\ version' = job[p].version
    /\ Goto(p, IF Staged(p) THEN "publish" ELSE "commit")
    /\ UNCHANGED <<inputs, root, out, new, old, git, lock, session, sound, disturbed, edits,
                   faults>>

-----------------------------------------------------------------------------
(* Publication: first the tree, then the root files, then the record of    *)
(* what the root files held is dropped. Each root file is judged again when *)
(* it is written, against the hash the plan took.                          *)

(* A command that fails drops its staging tree and the lock; a release     *)
(* that has its snapshot goes on to roll back.                             *)
Abort(p) ==
    /\ new' = IF lock = p THEN Missing ELSE new
    /\ lock' = Unlocked(p)
    /\ IF cmd[p] = "build" THEN End(p) ELSE
          /\ Goto(p, "reset") /\ done' = [done EXCEPT ![p] = {}]
          /\ UNCHANGED <<cmd, job, known, plan, start>>
    /\ UNCHANGED <<inputs, git, edits>>

PublishRefused(p) ==
    /\ pc[p] = "publish"
    /\ old # Missing \/ out \notin Replaceable
    /\ Abort(p)
    /\ UNCHANGED <<version, root, out, old, sound, disturbed, faults>>

MoveAside(p) ==
    /\ pc[p] = "publish" /\ old = Missing /\ out \in Replaceable \ {Missing}
    /\ old' = out /\ out' = Missing
    /\ Goto(p, "aside")
    /\ disturbed' = Disturbs(p)
    /\ UNCHANGED <<inputs, version, root, new, git, lock, session, sound, edits, faults>>

(* On Unix a directory is renamed over an empty one.                       *)
Place(p) ==
    /\ \/ pc[p] = "aside" /\ out \in {Missing, Empty} /\ Goto(p, "swapped")
       \/ pc[p] = "publish" /\ old = Missing /\ out = Missing /\ Goto(p, "apply")
    /\ out' = new /\ new' = Missing
    /\ disturbed' = Disturbs(p)
    /\ UNCHANGED <<inputs, version, root, old, git, lock, session, sound, edits, faults>>

PlaceRefused(p) ==
    /\ pc[p] = "aside" /\ out \notin {Missing, Empty}
    /\ Abort(p)
    /\ UNCHANGED <<version, root, out, old, sound, disturbed, faults>>

RemoveOld(p) ==
    /\ pc[p] = "swapped"
    /\ old' = Missing
    /\ Goto(p, "apply")
    /\ UNCHANGED <<inputs, version, root, out, new, git, lock, session, sound, disturbed, edits,
                   faults>>

ApplyWrite(p, f) ==
    LET bytes == plan[p].writes[f] IN
    /\ pc[p] = "apply" /\ f \in Written(p) \ done[p]
    /\ MayWrite(f, known[p][f], bytes)
    /\ root' = [root EXCEPT ![f] = bytes]
    /\ done' = [done EXCEPT ![p] = @ \cup {f}]
    /\ disturbed' = Disturbs(p)
    /\ UNCHANGED <<inputs, version, out, new, old, git, lock, pc, cmd, job, known, plan, start,
                   sound, edits, faults>>

ApplyDelete(p, f) ==
    /\ pc[p] = "apply" /\ Written(p) \subseteq done[p]
    /\ f \in plan[p].deletes \ done[p]
    /\ MayDelete(f, known[p][f])
    /\ root' = [root EXCEPT ![f] = None]
    /\ done' = [done EXCEPT ![p] = @ \cup {f}]
    /\ disturbed' = Disturbs(p)
    /\ UNCHANGED <<inputs, version, out, new, old, git, lock, pc, cmd, job, known, plan, start,
                   sound, edits, faults>>

ApplyRefused(p) ==
    /\ pc[p] = "apply"
    /\ \/ \E f \in Written(p) \ done[p] : ~MayWrite(f, known[p][f], plan[p].writes[f])
       \/ /\ Written(p) \subseteq done[p]
          /\ \E f \in plan[p].deletes \ done[p] : ~MayDelete(f, known[p][f])
    /\ Abort(p)
    /\ UNCHANGED <<version, root, out, old, sound, disturbed, faults>>

(* [mutant] The rewrite carries the old record on. *)
ForgottenNothing(p) ==
    [version |-> job[p].version, root |-> plan[p].writes, prev |-> plan[p].prev]

(* The sentinel is written once more, from memory, when it had something   *)
(* to forget.                                                              *)
Forgotten(p) == [version |-> job[p].version, root |-> plan[p].writes, prev |-> Blank]

Clear(p) ==
    /\ pc[p] = "apply" /\ Written(p) \cup plan[p].deletes \subseteq done[p]
    /\ out' = IF plan[p].prev = Blank THEN out ELSE Forgotten(p)
    /\ lock' = Unlocked(p)
    /\ IF cmd[p] = "build" THEN End(p) ELSE Goto(p, "commit") /\ UNCHANGED session
    /\ sound' = (sound \/ (out' \in Sentinel /\ old = Missing /\
                  \A f \in RootFile : root[f] \in Bytes => root[f] = out'.root[f]))
    /\ disturbed' = Disturbs(p)
    /\ UNCHANGED <<inputs, version, root, new, old, git, edits, faults>>

-----------------------------------------------------------------------------
(* The commit of a release, and the way back.                              *)

(* `git add` fails on a path that is neither on disk nor tracked.          *)
NoSuchPath(p) ==
    \/ \E f \in start[p].root : root[f] = None /\ head.root[f] = None
    \/ Staged(p) /\ out = Missing /\ head.out = Missing

CommitRelease(p) ==
    /\ pc[p] = "commit" /\ ~NoSuchPath(p)
    /\ head' = [inputs |-> head.inputs, version |-> version,
                out |-> IF Staged(p) THEN Tracked(out) ELSE head.out,
                root |-> [f \in RootFile |-> IF f \in start[p].root THEN root[f] ELSE head.root[f]],
                sound |-> IF Staged(p) THEN sound /\ ~disturbed ELSE head.sound]
    /\ Goto(p, "tag")
    /\ UNCHANGED <<disk, tags, lock, session, sound, disturbed, edits, faults>>

CommitRefused(p) ==
    /\ pc[p] = "commit" /\ NoSuchPath(p)
    /\ Abort(p)
    /\ UNCHANGED <<version, root, out, old, sound, disturbed, faults>>

Tag(p) ==
    /\ pc[p] = "tag"
    /\ tags' = [tags EXCEPT ![job[p].version] = head]
    /\ End(p)
    /\ UNCHANGED <<disk, head, lock, sound, disturbed, edits, faults>>

(* [mutant] A rollback leaves the published plugin in place. *)
TouchedFiles(p) == start[p].root \cup {"mars.toml"}

(* Back to the commit of the start, then every touched path is removed and *)
(* checked out again if that commit has it.                                *)
TouchedPaths(p) ==
    start[p].root \cup {"mars.toml"} \cup IF Staged(p) THEN {"plugin"} ELSE {}

ResetHead(p) ==
    /\ pc[p] = "reset"
    /\ head' = start[p].head
    /\ Goto(p, "restore")
    /\ UNCHANGED <<disk, tags, lock, session, sound, disturbed, edits, faults>>

RestorePath(p, path) ==
    /\ pc[p] = "restore" /\ path \in TouchedPaths(p) \ done[p]
    /\ version' = IF path = "mars.toml" THEN start[p].head.version ELSE version
    /\ out' = IF path = "plugin" THEN start[p].head.out ELSE out
    /\ root' = [f \in RootFile |-> IF f = path THEN start[p].head.root[f] ELSE root[f]]
    /\ done' = [done EXCEPT ![p] = @ \cup {path}]
    /\ UNCHANGED <<inputs, new, old, git, lock, pc, cmd, job, known, plan, start, sound, disturbed,
                   edits, faults>>

EndRollback(p) ==
    /\ pc[p] = "restore" /\ done[p] = TouchedPaths(p)
    /\ sound' = IF Staged(p) THEN ~disturbed /\ lock = Free /\ start[p].head.sound
                               ELSE sound
    /\ End(p)
    /\ UNCHANGED <<disk, git, lock, disturbed, edits, faults>>

-----------------------------------------------------------------------------
(* Faults.                                                                 *)

Remnants(t) == IF t = Missing THEN {Missing} ELSE {t, Torn, Empty, Missing}

Fault == faults < MaxFaults /\ faults' = faults + 1

(* An operation of a command fails, and the command goes its error path.   *)
Fails(p) ==
    /\ Fault
    /\ \/ /\ pc[p] = "bump" /\ version' \in {version, job[p].version}
          /\ UNCHANGED <<out, old>>
       \/ /\ pc[p] \in {"publish", "apply", "commit", "tag"}
          /\ UNCHANGED <<version, out, old>>
       \/ /\ pc[p] = "aside" /\ out = Missing
          /\ \/ out' = old /\ old' = Missing
             \/ UNCHANGED <<out, old>>
          /\ UNCHANGED version
       \/ /\ pc[p] = "swapped" /\ old' \in Remnants(old)
          /\ UNCHANGED <<version, out>>
    /\ Abort(p)
    /\ UNCHANGED <<root, sound, disturbed>>

(* A path of a rollback is not removed, or not brought back; the others go *)
(* on. (mars.toml, without which no command runs, is left out.)            *)
RestoreFails(p, path) ==
    /\ Fault
    /\ pc[p] = "restore" /\ path \in TouchedPaths(p) \ done[p]
    /\ path # "mars.toml"
    /\ \/ /\ out' = IF path = "plugin" THEN Missing ELSE out
          /\ root' = [f \in RootFile |-> IF f = path THEN None ELSE root[f]]
       \/ UNCHANGED <<out, root>>
    /\ done' = [done EXCEPT ![p] = @ \cup {path}]
    /\ disturbed' = TRUE
    /\ UNCHANGED <<inputs, version, new, old, git, lock, pc, cmd, job, known, plan, start, sound,
                   edits>>

(* A command dies. What it was removing is left half removed, what it was  *)
(* writing elsewhere is staged or not there.                               *)
Kill(p) ==
    /\ Fault
    /\ pc[p] # "idle"
    /\ new' = IF pc[p] = "plan" THEN Torn ELSE new
    /\ \/ pc[p] = "swapped" /\ old' \in Remnants(old)
       \/ pc[p] \in {"recover first", "recover"} /\ ~Ambiguous /\ out \in Sentinel
             /\ old' \in Remnants(old)
       \/ old' = old
    /\ lock' = Unlocked(p)
    /\ End(p)
    /\ sound' = (sound /\ pc[p] # "restore")
    /\ UNCHANGED <<inputs, version, root, out, git, disturbed, edits>>

-----------------------------------------------------------------------------
(* The user.                                                               *)

Edit == edits < MaxEdits /\ edits' = edits + 1

EditInputs ==
    /\ inputs' \in Inputs \ {inputs}
    /\ UNCHANGED <<version, root, out, new, old, git, lock, pc, session, sound, disturbed, edits,
                   faults>>

EditRoot(f, bytes) ==
    /\ Edit
    /\ root[f] # bytes
    /\ root' = [root EXCEPT ![f] = bytes]
    /\ disturbed' = TRUE
    /\ UNCHANGED <<inputs, version, out, new, old, git, lock, pc, session, sound, faults>>

EditOut(t) ==
    /\ Edit /\ lock = Free
    /\ out # t
    /\ out' = t
    /\ sound' = FALSE /\ disturbed' = TRUE
    /\ UNCHANGED <<inputs, version, root, new, old, git, lock, pc, session, faults>>

Quiet == lock = Free /\ \A p \in Proc : ~Releases(p)

CommitAll ==
    /\ Quiet /\ Tracked(old) = Missing /\ ~Clean
    /\ head' = [inputs |-> inputs, version |-> version, out |-> Tracked(out), root |-> root,
                sound |-> sound]
    /\ UNCHANGED <<disk, tags, lock, pc, session, sound, disturbed, edits, faults>>

(* `git restore` of what is tracked and `git clean` of what is not.        *)
Restore ==
    /\ Quiet /\ ~Clean
    /\ inputs' = head.inputs /\ version' = head.version /\ root' = head.root
    /\ out' = head.out /\ new' = Missing /\ old' = Missing
    /\ sound' = head.sound
    /\ UNCHANGED <<git, lock, pc, session, disturbed, edits, faults>>

-----------------------------------------------------------------------------
Start(p) ==
    /\ commands < MaxCommands /\ commands' = commands + 1
    /\ StartBuild(p) \/ \E c \in {"release", "bare"} : StartRelease(p, c)

Step(p) ==
    \/ Acquire(p) \/ SkipStaging(p) \/ TagExists(p)
    \/ Recover(p) \/ RecoveryRefuses(p) \/ Stage(p) \/ StageRefuses(p)
    \/ Capture(p) \/ CaptureRefuses(p) \/ Bump(p)
    \/ PublishRefused(p) \/ MoveAside(p) \/ Place(p) \/ PlaceRefused(p) \/ RemoveOld(p)
    \/ \E f \in RootFile : ApplyWrite(p, f) \/ ApplyDelete(p, f)
    \/ ApplyRefused(p) \/ Clear(p)
    \/ CommitRelease(p) \/ CommitRefused(p) \/ Tag(p)
    \/ ResetHead(p) \/ EndRollback(p)
    \/ \E path \in RootFile \cup {"mars.toml", "plugin"} :
            RestorePath(p, path) \/ RestoreFails(p, path)
    \/ Fails(p) \/ Kill(p)

User ==
    \/ EditInputs
    \/ \E f \in RootFile, bytes \in UserBytes \cup {None} : EditRoot(f, bytes)
    \/ \E t \in {Missing, Foreign} : EditOut(t)
    \/ CommitAll \/ Restore

Rest ==
    /\ commands = MaxCommands /\ \A p \in Proc : pc[p] = "idle"
    /\ UNCHANGED vars

Next ==
    \/ \E p \in Proc : Start(p)
    \/ Rest
    \/ (User \/ \E p \in Proc : Step(p)) /\ UNCHANGED commands

Spec == Init /\ [][Next]_vars

-----------------------------------------------------------------------------
(* A root file that holds bytes of the user is replaced or deleted by no   *)
(* build, however its plan and the user's edit interleave (allows_write,   *)
(* allows_delete, asked again at publication). Only the rollback of a      *)
(* release does it, to an edit made while the release ran.                 *)
UserFilesKept == [][
    \A f \in RootFile :
        root[f] \in UserBytes /\ root'[f] # root[f] =>
            \/ User
            \/ disturbed /\ \E p \in Proc : pc[p] = "restore" /\ f \in start[p].root
    ]_vars

(* After kills and failures of Mars alone the next build can go on: the    *)
(* recovery is not ambiguous, and every root file with bytes that Mars     *)
(* rendered is on record as Mars's own, whatever tree the recovery brings  *)
(* back (publish's order of steps, root_files_previous). Two states are    *)
(* exempt: a rollback tree whose removal was interrupted, and a release    *)
(* that is rolling back, or was killed or failed while it did.             *)
OwnOutputAccepted ==
    sound /\ lock = Free /\ old # Torn /\ (\A p \in Proc : pc[p] \notin {"reset", "restore"})
    => /\ ~Ambiguous /\ RecoveredOut \in Replaceable
       /\ \A f \in RootFile : root[f] \in Bytes => Ours(RecoveredOut, f)

(* A release that fails leaves the package as it found it: the commit, the *)
(* version, the plugin tree and every root file, and no tag (rollback).    *)
ReleaseUndone ==
    \A p \in Proc :
        pc[p] = "restore" /\ done[p] = TouchedPaths(p) /\ ~disturbed =>
            /\ head = start[p].head /\ tags[job[p].version] = None
            /\ version = head.version
            /\ Staged(p) => root = head.root /\ Tracked(out) = head.out

(* What a release tags is what it built: the version of the tag, the tree  *)
(* built for it with nothing left to recover, and root files that match    *)
(* the tree's record (the order publish, git add, commit, tag).            *)
TaggedIsBuilt == [][
    \A v \in Version :
        tags'[v] # tags[v] /\ ~disturbed =>
            LET c == tags'[v] IN
            /\ c.version = v
            /\ (\E p \in Proc : pc[p] = "tag" /\ Staged(p)) =>
                /\ c.out \in Sentinel /\ c.out.version = v /\ c.out.prev = Blank
                /\ \A f \in RootFile :
                        c.out.root[f] # None \/ (c.sound /\ c.root[f] \in Bytes) =>
                            c.root[f] = c.out.root[f]
    ]_vars
=============================================================================
