------------------------------ MODULE TargetSync ------------------------------
(***************************************************************************)
(* What Mars writes outside `.mars/`: copies of the canonical store in the *)
(* linked target directories, native agents, and generated hook files. One *)
(* session is `mars sync` from its canonical phase on, `mars link` or      *)
(* `mars unlink`; the flock on `.mars/sync.lock` admits one at a time. The *)
(* canonical phase itself is one step here (CanonicalSync has its detail). *)
(*                                                                         *)
(* A Path is one output, [target, item, lane]. The lane says which part of *)
(* the code materializes it: "copy" target sync, "native" the native agent *)
(* lifecycle, "hookfile" the compiler of file-placement hooks. The order   *)
(* of paths within a phase is free; the code takes target by target, which *)
(* are disjoint directories.                                               *)
(***************************************************************************)
EXTENDS Naturals, FiniteSets

CONSTANTS
    Item,       \* what packages provide
    Agent,      \* the items that are agents
    Target,     \* directories that may be linked
    Harness,    \* those that take native agents, not canonical ones
    Selected,   \* those that a selective agent copy names
    Path,       \* the outputs, as [target, item, lane]
    Version,    \* contents a package may give an item
    StoreEdits, \* contents the user may give an item in .mars/
    Unparsable, \* contents that do not read as an agent
    UserBytes,  \* contents the user may put in a target
    Configs,    \* mars.toml: [want, targets, policy]
    Commands,   \* the command lines used: [kind, target, force]
    MaxEdits,   \* bound on the user's edits of files
    MaxChanges, \* bound on those and the changes of mars.toml together
    MaxFaults,  \* bound on failing writes and removals and on killed sessions
    None, Pending

Bytes == Version \cup StoreEdits \cup UserBytes
File == [bytes : Bytes, by : {"mars", "user"}]
(* A claim is an installed checksum, or the authority to retry a removal.  *)
Claim == Bytes \cup {Pending, None}
Lock == [canon : [Item -> Version \cup {None}], out : [Path -> Claim]]
Config == [want : [Item -> Version \cup {None}], targets : SUBSET Target,
           policy : {"all", "selective", "suppress"}]
Command == [kind : {"sync", "link", "unlink"}, target : Target \cup {None},
            force : BOOLEAN]
Intent == [lock : Lock \cup {None}, outputs : [Item -> SUBSET Version]]

(* Hooks and agents are items of different kinds.                          *)
ASSUME PathAssumption ==
    /\ Agent \subseteq Item
    /\ Harness \subseteq Target /\ Selected \subseteq Harness
    /\ Path \subseteq [target : Target, item : Item,
                       lane : {"copy", "native", "hookfile"}]
    /\ \A p \in Path : p.lane = "native" <=> p.item \in Agent /\ p.target \in Harness
    /\ \A p \in Path : p.lane = "hookfile" => p.item \notin Agent
ASSUME SetAssumption ==
    /\ Configs \subseteq Config /\ Configs # {}
    /\ Commands \subseteq Command
    /\ \A c \in Commands : c.kind = "sync" <=> c.target = None
    /\ Unparsable \subseteq StoreEdits
    /\ UserBytes \cap (Version \cup StoreEdits) = {}
    /\ Version \cap StoreEdits = {}
ASSUME SentinelAssumption ==
    /\ Pending \notin Bytes /\ None \notin Bytes \cup {Pending}
    /\ None \notin Path /\ None \notin Lock /\ None \notin File
    /\ None \notin Target /\ None \notin Intent
ASSUME BoundAssumption ==
    MaxEdits \in Nat /\ MaxChanges \in Nat /\ MaxFaults \in Nat

VARIABLES
    \* on disk
    config,     \* mars.toml and the sources it names
    store,      \* .mars/<item>
    tgt,        \* the outputs; `by` is history: who wrote the bytes
    lockFile,   \* mars.lock
    intent,     \* .mars/pending-canonical.json
    \* memory of the session
    pc, cmd,
    cfg,        \* the configuration it loaded
    old,        \* the lock it loaded, recovered claims included
    act,        \* what the canonical phase did with each item
    left,       \* paths the current phase has yet to treat
    busy,       \* a copy that is written and not yet hashed
    written,    \* checksums of the outputs it installed
    gone,       \* outputs it removed or found absent
    collided,   \* paths preserved for want of an installed claim
    errors,     \* targets in which target sync met an error
    passed,     \* targets it could not even open
    \* history and bounds
    stray,      \* Mars's files that a crash or a refused link left unrecorded
    raced,      \* paths the user wrote between copy and hash
    edits, changes, faults

disk == <<config, store, tgt, lockFile, intent>>
progress == <<left, busy, written, gone, collided, errors, passed>>
session == <<pc, cmd, cfg, old, act, progress>>
history == <<stray, raced, edits, changes, faults>>
vars == <<disk, session, history>>

Phases == {"idle", "applied", "copying", "cleaning", "unhook", "hook", "reconcile",
           "emit", "retry", "unlinking", "publish", "save"}
Actions == {"none", "write", "keep", "skip", "remove"}
NoCmd == [kind |-> "sync", target |-> None, force |-> FALSE]
NoLock == [canon |-> [i \in Item |-> None], out |-> [p \in Path |-> None]]
NoOutcome == [i \in Item |-> "none"]
NoWrites == [p \in Path |-> None]
NoConfig == [want |-> [i \in Item |-> None], targets |-> {}, policy |-> "all"]

(* The disk and the session hold what the code can put there.              *)
TypeOK ==
    /\ config \in Config
    /\ store \in [Item -> Version \cup StoreEdits \cup {None}]
    /\ tgt \in [Path -> File \cup {None}]
    /\ lockFile \in Lock \cup {None}
    /\ intent \in Intent \cup {None}
    /\ pc \in Phases
    /\ cmd \in Command
    /\ cfg \in Config
    /\ old \in Lock
    /\ act \in [Item -> Actions]
    /\ left \subseteq Path
    /\ busy \in Path \cup {None}
    /\ written \in [Path -> Bytes \cup {None}]
    /\ gone \subseteq Path
    /\ collided \subseteq Path
    /\ errors \subseteq Target
    /\ passed \subseteq Target
    /\ stray \subseteq Path
    /\ raced \subseteq Path
    /\ edits \in Nat /\ changes \in Nat /\ faults \in Nat

Init ==
    /\ config \in Configs
    /\ store = [i \in Item |-> None]
    /\ tgt = [p \in Path |-> None]
    /\ lockFile = None
    /\ intent = None
    /\ pc = "idle"
    /\ cmd = NoCmd
    /\ cfg = NoConfig
    /\ old = NoLock
    /\ act = NoOutcome
    /\ left = {}
    /\ busy = None
    /\ written = NoWrites
    /\ gone = {}
    /\ collided = {}
    /\ errors = {}
    /\ passed = {}
    /\ stray = {}
    /\ raced = {}
    /\ edits = 0 /\ changes = 0 /\ faults = 0

NoProgress ==
    /\ left' = {}
    /\ busy' = None
    /\ written' = NoWrites
    /\ gone' = {}
    /\ collided' = {}
    /\ errors' = {}
    /\ passed' = {}

(* The process is gone, its memory and its flock with it.                  *)
EndSession ==
    /\ pc' = "idle"
    /\ cmd' = NoCmd
    /\ cfg' = NoConfig
    /\ old' = NoLock
    /\ act' = NoOutcome
    /\ NoProgress

LoadedLock == IF lockFile = None THEN NoLock ELSE lockFile
Recorded(p) == LoadedLock.out[p] # None
Untracked == {p \in Path : tgt[p] # None /\ ~Recorded(p)}
LeftBehind == {p \in Untracked : tgt[p].by = "mars"}

(* An error return or a kill: nothing is published.                        *)
GiveUp ==
    /\ EndSession
    /\ stray' = stray \cup LeftBehind

-----------------------------------------------------------------------------
(* The canonical phase, as far as the outputs depend on it                 *)

Interrupted(i) ==
    /\ intent # None /\ intent.outputs[i] # {}
    /\ LoadedLock.canon[i] = None
    /\ store[i] # None

(* A sync recovers what an interrupted one installed, if mars.lock is      *)
(* still the one it was installed under.                                   *)
RecoveryAccepts == \A i \in Item : Interrupted(i) =>
    intent.lock = lockFile /\ store[i] \in intent.outputs[i]

Recovered == [canon |-> [i \in Item |-> IF Interrupted(i) THEN store[i]
                                        ELSE LoadedLock.canon[i]],
              out |-> LoadedLock.out]

(* Target, lock and store compared, as the plan does.                      *)
Outcome(i, force, lock) ==
    LET want == config.want[i]
        base == lock.canon[i]
    IN  CASE want = None /\ base = None -> "none"
          [] want = None /\ base # None -> "remove"
          [] want # None /\ want # base -> "write"
          [] want # None /\ want = base ->
                 IF store[i] = None THEN "write"
                 ELSE IF store[i] = base THEN "skip"
                 ELSE IF force THEN "write" ELSE "keep"

(* Writes no published claim covers are journaled, and so is what was      *)
(* recovered, until the lock is published.                                 *)
Journal(i, a) ==
    (IF Interrupted(i) THEN {store[i]} ELSE {})
        \cup (IF a = "write" /\ LoadedLock.canon[i] = None THEN {config.want[i]} ELSE {})

Sync(c) ==
    /\ pc = "idle"
    /\ c.kind = "sync"
    /\ RecoveryAccepts
    /\ cmd' = c
    /\ cfg' = config
    /\ old' = Recovered
    /\ act' = [i \in Item |-> Outcome(i, c.force, Recovered)]
    /\ store' = [i \in Item |-> CASE act'[i] = "write" -> config.want[i]
                                  [] act'[i] = "remove" -> None
                                  [] OTHER -> store[i]]
    /\ intent' = IF \E i \in Item : Journal(i, act'[i]) # {}
                 THEN [lock |-> lockFile,
                       outputs |-> [i \in Item |-> Journal(i, act'[i])]]
                 ELSE None
    /\ pc' = "applied"
    /\ UNCHANGED <<config, tgt, lockFile, progress, history>>

(* `mars link` takes what the lock says is installed as unchanged, and     *)
(* looks neither at the packages nor at the journal.                       *)
Link(c) ==
    /\ pc = "idle"
    /\ c.kind = "link"
    /\ cmd' = c
    /\ cfg' = [config EXCEPT !.targets = @ \cup {c.target}]
    /\ old' = LoadedLock
    /\ act' = [i \in Item |-> IF LoadedLock.canon[i] = None THEN "none" ELSE "skip"]
    /\ pc' = "applied"
    /\ UNCHANGED <<disk, progress, history>>

(* Unlinking what is not linked does nothing.                              *)
Unlink(c) ==
    /\ pc = "idle"
    /\ c.kind = "unlink"
    /\ c.target \in config.targets
    /\ cmd' = c
    /\ cfg' = [config EXCEPT !.targets = @ \ {c.target}]
    /\ old' = LoadedLock
    /\ pc' = "unlinking"
    /\ left' = {p \in Path : p.target = c.target /\ Recorded(p)}
    /\ UNCHANGED <<disk, act, busy, written, gone, collided, errors, passed, history>>

Live(i) == act[i] \in {"write", "keep", "skip"}

(* The canonical records of the lock to be.                                *)
NewCanon(i) ==
    CASE act[i] = "write" -> cfg.want[i]
      [] act[i] \in {"keep", "skip"} -> old.canon[i]
      [] OTHER -> None

Installed(p) == old.out[p] \in Bytes

(* [mutant] A pending deletion authorizes a copy too.                      *)
MayCopyClaimed(p, claim) == tgt[p] = None \/ claim # None \/ cmd.force

(* `copy_decision`: the claim must be an installed one.                    *)
MayCopy(p, claim) == tgt[p] = None \/ claim \in Bytes \/ cmd.force

-----------------------------------------------------------------------------
(* Target sync, one managed target after the other                         *)

Scope == IF cmd.kind = "sync" THEN cfg.targets ELSE {cmd.target}

(* Under a policy that suppresses agents, target sync sees them as removed;*)
(* under a selective one it does not see them.                             *)
Seen(i) ==
    CASE i \notin Agent \/ cfg.policy = "all" -> act[i]
      [] i \in Agent /\ cfg.policy = "suppress" ->
             IF act[i] = "none" THEN "none" ELSE "remove"
      [] i \in Agent /\ cfg.policy = "selective" -> "none"

ToCopy == {p \in Path : p.target \in Scope /\ p.lane = "copy"
                        /\ Seen(p.item) \in {"write", "keep", "skip"}}
ToDrop == {p \in Path : p.target \in Scope /\ p.lane \in {"copy", "native"}
                        /\ Seen(p.item) = "remove"}

(* [mutant] A claimed copy of an unchanged item is always refreshed.       *)
WantsCopyClaimed(p) == Seen(p.item) # "skip" \/ cmd.force \/ tgt[p] = None \/ Installed(p)

(* [mutant] An unchanged item is not copied where its copy is missing.     *)
WantsCopyChanged(p) ==
    \/ Seen(p.item) # "skip" \/ cmd.force
    \/ /\ tgt[p] # None /\ old.out[p] # None
       /\ tgt[p].bytes \in {old.out[p], old.canon[p.item]}

(* An unchanged item is copied again over its own copy, not over an edit.  *)
WantsCopy(p) ==
    \/ Seen(p.item) # "skip" \/ cmd.force \/ tgt[p] = None
    \/ /\ tgt[p] # None /\ old.out[p] # None
       /\ tgt[p].bytes \in {old.out[p], old.canon[p.item]}

Copies(p) == store[p.item] # None /\ WantsCopy(p) /\ MayCopy(p, old.out[p])

Identical(p, bytes) == tgt[p] # None /\ tgt[p].bytes = bytes
Write(p, bytes) == tgt' = IF Identical(p, bytes) THEN tgt
                          ELSE [tgt EXCEPT ![p] = [bytes |-> bytes, by |-> "mars"]]

(* The checksum to record is the one of the desired bytes when they were   *)
(* compared first, else it is read back from the target.                   *)
ReadBack(p) == Seen(p.item) # "skip" \/ ~Identical(p, store[p.item])

CopyItem(p) ==
    /\ pc = "copying" /\ busy = None
    /\ p \in left \cap ToCopy
    /\ Copies(p)
    /\ Write(p, store[p.item])
    /\ IF ReadBack(p) THEN busy' = p /\ written' = written
                      ELSE /\ busy' = None
                           /\ written' = [written EXCEPT ![p] = store[p.item]]
    /\ left' = left \ {p}
    /\ UNCHANGED <<config, store, lockFile, intent, pc, cmd, cfg, old, act, gone,
                   collided, errors, passed, history>>

HashCopied ==
    /\ busy # None
    /\ written' = IF tgt[busy] = None THEN written
                  ELSE [written EXCEPT ![busy] = tgt[busy].bytes]
    /\ busy' = None
    /\ UNCHANGED <<disk, pc, cmd, cfg, old, act, left, gone, collided, errors, passed, history>>

CopyFails(p) ==
    /\ pc = "copying" /\ busy = None
    /\ p \in left \cap ToCopy
    /\ Copies(p) /\ ~Identical(p, store[p.item])
    /\ faults < MaxFaults
    /\ faults' = faults + 1
    /\ errors' = errors \cup {p.target}
    /\ left' = left \ {p}
    /\ UNCHANGED <<disk, pc, cmd, cfg, old, act, busy, written, gone, collided,
                   passed, stray, raced, edits, changes>>

(* [mutant] What is preserved is recorded as installed.                    *)
PreserveRecorded(p) ==
    /\ pc = "copying" /\ busy = None
    /\ p \in left \cap ToCopy
    /\ ~Copies(p)
    /\ written' = IF tgt[p] = None THEN written ELSE [written EXCEPT ![p] = tgt[p].bytes]
    /\ left' = left \ {p}
    /\ UNCHANGED <<disk, pc, cmd, cfg, old, act, busy, gone, collided, errors, passed, history>>

(* What is there stays: no installed claim, or an edit of an unchanged     *)
(* item. Only the first is a collision.                                    *)
PreserveLocal(p) ==
    /\ pc = "copying" /\ busy = None
    /\ p \in left \cap ToCopy
    /\ ~Copies(p)
    /\ collided' = IF store[p.item] # None /\ tgt[p] # None /\ ~Installed(p)
                   THEN collided \cup {p} ELSE collided
    /\ left' = left \ {p}
    /\ UNCHANGED <<disk, pc, cmd, cfg, old, act, busy, written, gone, errors, passed, history>>

(* An item that was removed: its output goes, if the lock claims it.       *)
DropItem(p) ==
    /\ pc = "copying" /\ busy = None
    /\ p \in left \cap ToDrop
    /\ IF tgt[p] # None /\ old.out[p] # None
       THEN tgt' = [tgt EXCEPT ![p] = None] /\ gone' = gone \cup {p}
       ELSE UNCHANGED <<tgt, gone>>
    /\ left' = left \ {p}
    /\ UNCHANGED <<config, store, lockFile, intent, pc, cmd, cfg, old, act, busy,
                   written, collided, errors, passed, history>>

(* A target whose directory cannot be created is passed over, the others   *)
(* are not.                                                                *)
TargetFails(t) ==
    /\ pc = "copying" /\ busy = None
    /\ t \in Scope
    /\ \A p \in Path : p.target = t => tgt[p] = None
    /\ {p \in ToCopy \cup ToDrop : p.target = t} \subseteq left
    /\ faults < MaxFaults
    /\ faults' = faults + 1
    /\ errors' = errors \cup {t}
    /\ passed' = passed \cup {t}
    /\ left' = {p \in left : p.target # t}
    /\ UNCHANGED <<disk, pc, cmd, cfg, old, act, busy, written, gone, collided,
                   stray, raced, edits, changes>>

(* What orphan cleanup leaves alone besides the copies: hook files whose   *)
(* hook is owned and native agents, which later phases reconcile; `mars    *)
(* link` only spares native agents, and only under a selective policy.     *)
Spared(p) ==
    IF cmd.kind = "sync"
    THEN \/ p.lane = "hookfile" /\ old.canon[p.item] # None
         \/ p.lane = "native"
    ELSE p.lane = "native" /\ cfg.policy = "selective" /\ p.target \in Selected

Orphans == {p \in Path : p.target \in Scope \ passed /\ old.out[p] # None
                         /\ p \notin ToCopy /\ ~Spared(p)}

-----------------------------------------------------------------------------
(* Removals. `safe_remove` of an absent path succeeds as well.             *)

Removing == {"cleaning", "unhook", "reconcile", "retry", "unlinking"}

RemoveOutput(p) ==
    /\ pc \in Removing
    /\ p \in left
    /\ tgt' = [tgt EXCEPT ![p] = None]
    /\ gone' = gone \cup {p}
    /\ left' = left \ {p}
    /\ UNCHANGED <<config, store, lockFile, intent, pc, cmd, cfg, old, act, busy,
                   written, collided, errors, passed, history>>

(* A failing removal is noted and passed over; `mars unlink` gives up.     *)
RemovalFails(p) ==
    /\ pc \in Removing \/ (pc = "copying" /\ busy = None /\ p \in ToDrop)
    /\ p \in left
    /\ tgt[p] # None /\ old.out[p] # None
    /\ faults < MaxFaults
    /\ faults' = faults + 1
    /\ IF pc = "unlinking" THEN GiveUp
       ELSE /\ errors' = IF pc \in {"copying", "cleaning"}
                         THEN errors \cup {p.target} ELSE errors
            /\ left' = left \ {p}
            /\ UNCHANGED <<pc, cmd, cfg, old, act, busy, written, gone, collided,
                           passed, stray>>
    /\ UNCHANGED <<disk, raced, edits, changes>>

-----------------------------------------------------------------------------
(* Generated hook files and native agents                                  *)

CopyOf(p) == {q \in Path : q.lane = "copy" /\ q.target = p.target /\ q.item = p.item}

(* [mutant] A hook is emitted whether its directory was installed or not.  *)
EmitsAnyHook(p) == p.lane = "hookfile" /\ p.target \in cfg.targets /\ Live(p.item)

(* A hook is emitted where this session installed the directory it runs.   *)
EmitsHook(p) ==
    /\ p.lane = "hookfile"
    /\ p.target \in cfg.targets
    /\ Live(p.item)
    /\ \E q \in CopyOf(p) : written[q] # None

StaleHooks == {p \in Path : p.lane = "hookfile" /\ old.out[p] # None
                            /\ old.canon[p.item] # None /\ ~EmitsHook(p)}

Parsed(i) == store[i] # None /\ store[i] \notin Unparsable

InPolicy(p) ==
    CASE cfg.policy = "all" -> p.target \in cfg.targets
      [] cfg.policy = "selective" -> p.target \in Selected
      [] cfg.policy = "suppress" -> FALSE

LinkScope(p) == cmd.kind = "link" => p.target = cmd.target

Compiles(p) == /\ p.lane = "native" /\ InPolicy(p) /\ LinkScope(p)
               /\ Parsed(p.item) /\ NewCanon(p.item) # None

(* An agent that does not read keeps the files it had.                     *)
Desired(p) ==
    \/ Compiles(p)
    \/ /\ cfg.policy # "suppress" /\ old.out[p] # None
       /\ old.canon[p.item] # None /\ NewCanon(p.item) # None
       /\ store[p.item] # None /\ ~Parsed(p.item)

StaleAgents == {p \in Path : p.lane = "native" /\ LinkScope(p)
                             /\ old.out[p] # None /\ ~Desired(p)}

Emitting == {"hook", "emit"}

(* The ownership view: what target sync removed is not claimed any more.   *)
EmitClaim(p) == IF pc = "emit" /\ p \in gone THEN None ELSE old.out[p]

Content(p) == IF pc = "hook" THEN cfg.want[p.item] ELSE store[p.item]

(* A generated hook file that was edited is kept; a native agent is not.   *)
Diverged(p) == /\ pc = "hook" /\ tgt[p] # None /\ ~cmd.force
               /\ old.out[p] # None /\ tgt[p].bytes # old.out[p]

EmitOutput(p) ==
    /\ pc \in Emitting
    /\ p \in left
    /\ MayCopy(p, EmitClaim(p)) /\ ~Diverged(p)
    /\ Write(p, Content(p))
    /\ written' = [written EXCEPT ![p] = Content(p)]
    /\ left' = left \ {p}
    /\ UNCHANGED <<config, store, lockFile, intent, pc, cmd, cfg, old, act, busy,
                   gone, collided, errors, passed, history>>

EmitPreserves(p) ==
    /\ pc \in Emitting
    /\ p \in left
    /\ ~MayCopy(p, EmitClaim(p)) \/ Diverged(p)
    /\ collided' = IF MayCopy(p, EmitClaim(p)) THEN collided ELSE collided \cup {p}
    /\ left' = left \ {p}
    /\ UNCHANGED <<disk, pc, cmd, cfg, old, act, busy, written, gone, errors, passed,
                   history>>

EmitFails(p) ==
    /\ pc \in Emitting
    /\ p \in left
    /\ MayCopy(p, EmitClaim(p)) /\ ~Diverged(p) /\ ~Identical(p, Content(p))
    /\ faults < MaxFaults
    /\ faults' = faults + 1
    /\ left' = left \ {p}
    /\ UNCHANGED <<disk, pc, cmd, cfg, old, act, busy, written, gone, collided,
                   errors, passed, stray, raced, edits, changes>>

-----------------------------------------------------------------------------
(* The lock to be, and the end of the session                              *)

(* [mutant] Outputs of dropped items are forgotten.                        *)
NewClaimForgetting(p) ==
    IF written[p] # None THEN written[p]
    ELSE IF p \in gone \/ (cmd.kind = "sync" /\ NewCanon(p.item) = None) THEN None
    ELSE old.out[p]

(* Only what the session confirmed gone is forgotten. Outputs of an item   *)
(* that the sync dropped stay on as pending deletions.                     *)
NewClaim(p) ==
    IF written[p] # None THEN written[p]
    ELSE IF p \in gone \/ old.out[p] = None THEN None
    ELSE IF cmd.kind = "sync" /\ NewCanon(p.item) = None THEN Pending
    ELSE old.out[p]

NewLock == IF cmd.kind = "unlink"
           THEN [old EXCEPT !.out = [p \in Path |-> NewClaim(p)]]
           ELSE [canon |-> [i \in Item |-> NewCanon(i)],
                 out |-> [p \in Path |-> NewClaim(p)]]

(* [mutant] Pending deletions are not retried.                             *)
NoTombstones == {}

(* Outputs of items that were gone before this sync, and that it does not  *)
(* own again.                                                              *)
Tombstones == {p \in Path : /\ old.out[p] # None /\ old.canon[p.item] = None
                            /\ ~(NewCanon(p.item) # None /\ NewClaim(p) # None)}

(* What is left to do when a phase begins.                                 *)
Work(phase) ==
    CASE phase = "copying"   -> ToCopy \cup ToDrop
      [] phase = "cleaning"  -> Orphans
      [] phase = "unhook"    -> StaleHooks
      [] phase = "hook"      -> {p \in Path : EmitsHook(p)}
      [] phase = "reconcile" -> StaleAgents
      [] phase = "emit"      -> {p \in Path : Compiles(p)}
      [] phase = "retry"     -> Tombstones
      [] OTHER               -> {}

AfterSync == [applied |-> "copying", copying |-> "cleaning", cleaning |-> "unhook",
              unhook |-> "hook", hook |-> "reconcile", reconcile |-> "emit",
              emit |-> "retry", retry |-> "publish"]
AfterLink == [applied |-> "copying", copying |-> "cleaning", cleaning |-> "reconcile",
              reconcile |-> "emit", emit |-> "publish"]
AfterUnlink == [unlinking |-> "save"]
After == CASE cmd.kind = "sync" -> AfterSync
           [] cmd.kind = "link" -> AfterLink
           [] cmd.kind = "unlink" -> AfterUnlink

(* `mars link` gives up on an error or a collision, before it records the  *)
(* copies it made.                                                         *)
Refused == /\ cmd.kind = "link"
           /\ \/ pc = "cleaning" /\ errors # {}
              \/ pc \in {"cleaning", "emit"} /\ collided # {} /\ ~cmd.force

Advance ==
    /\ pc \in DOMAIN After
    /\ left = {} /\ busy = None
    /\ ~Refused
    /\ pc' = After[pc]
    /\ left' = Work(After[pc])
    /\ UNCHANGED <<disk, cmd, cfg, old, act, busy, written, gone, collided, errors,
                   passed, history>>

LinkRefused ==
    /\ left = {} /\ Refused
    /\ GiveUp
    /\ UNCHANGED <<disk, raced, edits, changes, faults>>

(* The lock is published; a sync then drops the journal. `mars link` still *)
(* has the configuration to save, `mars unlink` saved it before.           *)
WriteLock ==
    /\ pc = "publish"
    /\ lockFile' = NewLock
    /\ stray' = stray \ {p \in Path : NewClaim(p) # None}
    /\ IF cmd.kind = "link"
       THEN pc' = "save" /\ NoProgress /\ UNCHANGED <<intent, cmd, cfg, old, act>>
       ELSE /\ EndSession
            /\ intent' = IF cmd.kind = "sync" THEN None ELSE intent
    /\ UNCHANGED <<config, store, tgt, raced, edits, changes, faults>>

SaveConfig ==
    /\ pc = "save"
    /\ config' = [config EXCEPT !.targets = cfg.targets]
    /\ IF cmd.kind = "link" THEN EndSession
       ELSE pc' = "publish" /\ UNCHANGED <<cmd, cfg, old, act, progress>>
    /\ UNCHANGED <<store, tgt, lockFile, intent, history>>

Crash ==
    /\ pc # "idle"
    /\ faults < MaxFaults
    /\ faults' = faults + 1
    /\ GiveUp
    /\ UNCHANGED <<disk, raced, edits, changes>>

-----------------------------------------------------------------------------
(* The user                                                                *)

EditConfig ==
    /\ pc = "idle"
    /\ changes < MaxChanges
    /\ config' \in Configs \ {config}
    /\ changes' = changes + 1
    /\ UNCHANGED <<store, tgt, lockFile, intent, session, stray, raced, edits,
                   faults>>

EditTarget(p) ==
    /\ edits < MaxEdits /\ changes < MaxChanges
    /\ \/ \E b \in UserBytes : tgt' = [tgt EXCEPT ![p] = [bytes |-> b, by |-> "user"]]
       \/ tgt[p] # None /\ tgt' = [tgt EXCEPT ![p] = None]
    /\ edits' = edits + 1 /\ changes' = changes + 1
    /\ raced' = IF busy = p THEN raced \cup {p} ELSE raced
    /\ UNCHANGED <<config, store, lockFile, intent, session, stray, faults>>

(* What an interrupted session installed is left alone: recovery is the    *)
(* subject of CanonicalSync.                                               *)
EditStore(i) ==
    /\ pc = "idle"
    /\ edits < MaxEdits /\ changes < MaxChanges
    /\ store[i] # None /\ LoadedLock.canon[i] # None
    /\ \E b \in StoreEdits \cup {None} : store' = [store EXCEPT ![i] = b]
    /\ edits' = edits + 1 /\ changes' = changes + 1
    /\ UNCHANGED <<config, tgt, lockFile, intent, session, stray, raced, faults>>

-----------------------------------------------------------------------------
Session ==
    \/ \E p \in Path : \/ CopyItem(p) \/ PreserveLocal(p) \/ DropItem(p)
                       \/ RemoveOutput(p) \/ EmitOutput(p) \/ EmitPreserves(p)
    \/ HashCopied \/ Advance \/ LinkRefused \/ WriteLock \/ SaveConfig

Failure ==
    \/ \E p \in Path : CopyFails(p) \/ RemovalFails(p) \/ EmitFails(p)
    \/ \E t \in Target : TargetFails(t)
    \/ Crash

Edit == \/ EditConfig
        \/ \E p \in Path : EditTarget(p)
        \/ \E i \in Item : EditStore(i)

Start == \E c \in Commands : Sync(c) \/ Link(c) \/ Unlink(c)

Next == Start \/ Session \/ Failure \/ Edit

(* A running session goes on, and the user syncs again and again.          *)
Fairness ==
    /\ WF_vars(Session)
    /\ SF_vars(\E c \in Commands : ~c.force /\ Sync(c))

Spec == Init /\ [][Next]_vars /\ Fairness
-----------------------------------------------------------------------------
(* What Mars promises about every output, in OutputOwnership: it replaces  *)
(* only what the lock claims as installed or --force adopts, deletes only  *)
(* what the lock claims, and forgets a claim only when the output is gone, *)
(* whatever lane, phase and command the step belongs to.                   *)
FileOf(p) == IF tgt[p] = None THEN "none" ELSE tgt[p].by
ClaimOf(p) == IF ~Recorded(p) THEN "none"
              ELSE IF LoadedLock.out[p] = Pending THEN "pending" ELSE "installed"
Own == INSTANCE OutputOwnership WITH
           NoPath <- None,
           file <- [p \in Path |-> FileOf(p)],
           claim <- [p \in Path |-> ClaimOf(p)],
           forced <- cmd.force,
           copying <- busy,
           written <- {p \in Path : written[p] # None},
           gone <- gone
ImplementsOwnership == Own!OSpec

(* Between sessions every file Mars wrote outside .mars/ is recorded, or a *)
(* crash or a refused link left it: no lane, error path or phase order     *)
(* leaves a file that Mars would later take for the user's.                *)
OwnedRecorded == pc = "idle" => LeftBehind \subseteq stray

(* A claim of installed bytes has a canonical owner: whatever outlives its *)
(* item can be deleted, and no longer overwritten.                         *)
InstalledHasOwner == \A p \in Path :
    LoadedLock.out[p] \in Bytes => LoadedLock.canon[p.item] # None

(* An installed checksum is of bytes Mars put there, unless the user wrote *)
(* the path between the copy and the hash that is read back.               *)
ClaimsAreOurs == \A p \in Path : LoadedLock.out[p] \in UserBytes => p \in raced

(* A generated hook file is claimed only beside a claimed copy of the      *)
(* directory whose script it runs.                                         *)
HookFileRunsCopy == \A p \in Path :
    p.lane = "hookfile" /\ LoadedLock.out[p] \in Bytes
        => \E q \in CopyOf(p) : LoadedLock.out[q] \in Bytes

(* No phase of an unforced session changes the user's edit of a copy whose *)
(* item is unchanged; the one exception is an edit that a race recorded.   *)
EditedCopyKept == [][\A p \in ToCopy :
    /\ pc \notin {"idle", "unlinking"} /\ ~cmd.force /\ Seen(p.item) = "skip"
    /\ FileOf(p) = "user" /\ edits' = edits
    => tgt'[p] = tgt[p] \/ p \in raced]_vars

(* An output of an item that is no longer wanted ends unclaimed and        *)
(* deleted, through any number of failing removals and edits, provided the *)
(* user keeps syncing: tombstones are not forgotten.                       *)
RemovedCleaned == \A p \in Path :
    <>[](config.want[p.item] = None /\ RecoveryAccepts)
        => <>[](~Recorded(p) /\ (FileOf(p) = "mars" => p \in stray))

(* A wanted item reaches every linked target: its copy is there again and  *)
(* again, whatever the user deletes and whichever commands interleave.     *)
TargetFilled == \A p \in Path :
    <>[](/\ p.lane = "copy" /\ p.target \in config.targets
         /\ config.want[p.item] # None /\ config.policy = "all" /\ RecoveryAccepts)
        => []<>(tgt[p] # None)
==============================================================================
