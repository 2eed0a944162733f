---------------------------- MODULE CanonicalSync ----------------------------
(***************************************************************************)
(* One `mars sync` pipeline over the canonical store `.mars/`: load the    *)
(* lock and recover the write-ahead intent, build the target, plan,        *)
(* journal, apply action by action, publish `mars.lock`, drop the journal. *)
(* The flock on `.mars/sync.lock` admits one session at a time; the user   *)
(* edits files whenever he likes, and a session may die between any two    *)
(* disk writes.                                                            *)
(*                                                                         *)
(* A destination stands for one canonical output path. A Record is the     *)
(* triple the code carries in a target item, in a lock claim and in a      *)
(* journaled write: who provides the item, the hash of its source, and the *)
(* hash of what is (to be) installed, which differs from the source when a *)
(* rename rewrites the file. Bytes stand for their hash.                   *)
(***************************************************************************)
EXTENDS Naturals, FiniteSets

CONSTANTS
    Dest,       \* canonical destinations under .mars/
    DirDest,    \* those that are directories (skills), installed by renames
    Bytes,      \* contents a destination may hold
    Torn,       \* what is left of a directory whose removal was cut short
    UserBytes,  \* those the user may write there
    Origin,     \* who provides an item: dependencies and the project itself
    Self,       \* the project's own package, `_self`
    Configs,    \* what mars.toml and the sources may ask for, per destination
    Requests,   \* the command lines used: [force, frozen, recovery]
    Checkouts,  \* ownership registries a `git checkout` may bring
    Provided,   \* skill names that .mars/provided.lock records
    MaxEdits,   \* bound on the user's edits
    MaxFaults,  \* bound on interrupted sessions
    Absent, NoRec, NoLock, CorruptLock, NoIntent, NoDest

Record == [origin : Origin, source : Bytes, installed : Bytes]
MaybeRecord == Record \cup {NoRec}
Target == [Dest -> MaybeRecord]
LockFile == Target \cup {NoLock, CorruptLock}
RequestType == [force : BOOLEAN, frozen : BOOLEAN,
                recovery : {"strict", "defer", "repair"}]

ASSUME DestAssumption ==
    /\ DirDest \subseteq Dest
    /\ Provided \subseteq DirDest
    /\ UserBytes \subseteq Bytes
    /\ Self \in Origin
ASSUME ConfigAssumption ==
    /\ Configs \subseteq Target
    /\ Configs # {}
    /\ Checkouts \subseteq LockFile
    /\ Requests \subseteq RequestType
ASSUME SentinelAssumption ==
    /\ Torn \notin Bytes
    /\ Absent \notin [bytes : Bytes \cup {Torn},
                      by : {"user", "mars", "adopted", "half"}]
    /\ NoRec \notin Record
    /\ NoLock \notin Target /\ CorruptLock \notin Target
    /\ NoLock # CorruptLock
    /\ NoIntent \notin [lock : LockFile,
                        outputs : [Dest -> [cur : MaybeRecord, new : MaybeRecord]]]
    /\ NoDest \notin Dest
ASSUME BoundAssumption == MaxEdits \in Nat /\ MaxFaults \in Nat

(***************************************************************************)
(* `by` is a history field, not on disk: who last wrote those bytes.       *)
(* "adopted": Mars, over existing bytes it did not own, so not journaled.  *)
(* "half": a skill whose tree is placed but whose SKILL.md is not yet      *)
(* rewritten.                                                              *)
(***************************************************************************)
Writers == {"user", "mars", "adopted", "half"}
File == [bytes : Bytes \cup {Torn}, by : Writers]
MaybeFile == File \cup {Absent}
By(f, w) == [bytes |-> f.bytes, by |-> w]
(* At most two versions per path: the verified current one and the planned *)
Versions == [cur : MaybeRecord, new : MaybeRecord]
Intent == [lock : LockFile, outputs : [Dest -> Versions]]
Act == {"none", "install", "overwrite", "skip", "keep", "remove"}

VARIABLES
    \* on disk
    config,     \* mars.toml together with the sources it names
    disk,       \* .mars/<dest>
    old,        \* .mars/<parent>/.<name>.old, left by a directory install
    lockFile,   \* mars.lock
    intent,     \* .mars/pending-canonical.json
    \* memory of the session, gone when it ends
    pc, request, want, oldLock, target, plan, done, cur,
    \* history and bounds
    touched,    \* destinations the user changed during this session
    edits, faults

session == <<pc, request, want, oldLock, target, plan, done, cur>>
vars == <<config, disk, old, lockFile, intent, session, touched, edits, faults>>

PC == {"idle", "loaded", "built", "planned", "persisted", "applying", "locked"}
Nothing == [d \in Dest |-> NoRec]
NoPlan == [d \in Dest |-> "none"]
Strict == [force |-> FALSE, frozen |-> FALSE, recovery |-> "strict"]

(* The disk and the session hold what the code can write there; a journal *)
(* is always one that WriteIntent::validate accepts.                       *)
TypeOK ==
    /\ config \in Configs
    /\ disk \in [Dest -> MaybeFile]
    /\ old \in [Dest -> MaybeFile]
    /\ lockFile \in LockFile
    /\ intent \in Intent \cup {NoIntent}
    /\ pc \in PC
    /\ request \in RequestType
    /\ want \in Configs \cup {Nothing}
    /\ oldLock \in Target
    /\ target \in Target
    /\ plan \in [Dest -> Act]
    /\ done \subseteq Dest
    /\ cur \in Dest \cup {NoDest}
    /\ touched \subseteq Dest
    /\ edits \in Nat
    /\ faults \in Nat

Init ==
    /\ config \in Configs
    /\ disk = [d \in Dest |-> Absent]
    /\ old = [d \in Dest |-> Absent]
    /\ lockFile = NoLock
    /\ intent = NoIntent
    /\ pc = "idle"
    /\ request = Strict
    /\ want = Nothing
    /\ oldLock = Nothing
    /\ target = Nothing
    /\ plan = NoPlan
    /\ done = {}
    /\ cur = NoDest
    /\ touched = {}
    /\ edits = 0
    /\ faults = 0

(* The process is gone: its memory and its flock with it.                  *)
EndSession ==
    /\ pc' = "idle"
    /\ request' = Strict
    /\ want' = Nothing
    /\ oldLock' = Nothing
    /\ target' = Nothing
    /\ plan' = NoPlan
    /\ done' = {}
    /\ cur' = NoDest
    /\ touched' = {}

-----------------------------------------------------------------------------
(* Recovery of an interrupted session                                      *)

Published(d) == lockFile \in Target /\ lockFile[d] # NoRec

(* The lock as loaded: a corrupt one reads as empty under repair only.     *)
LoadedLock == IF lockFile \in Target THEN lockFile ELSE Nothing

Journaled(d) ==
    /\ intent # NoIntent
    /\ intent.outputs[d] # [cur |-> NoRec, new |-> NoRec]

(* [mutant] The published lock is not consulted.                           *)
PendingThoughPublished(d) == Journaled(d) /\ disk[d] # Absent

(* A journaled output that is on disk and that no published claim covers.  *)
Pending(d) ==
    /\ Journaled(d)
    /\ ~Published(d)
    /\ disk[d] # Absent

(* [mutant] The bytes on disk are not compared.                            *)
MatchingAnything(d) == {intent.outputs[d].cur, intent.outputs[d].new} \ {NoRec}

Matching(d) == {v \in {intent.outputs[d].cur, intent.outputs[d].new} \ {NoRec} :
                   disk[d] # Absent /\ v.installed = disk[d].bytes}

(* The planned version wins when both match.                               *)
Prefer(d, S) == IF intent.outputs[d].new \in S
                THEN intent.outputs[d].new ELSE intent.outputs[d].cur

RecoveryAccepts ==
    \A d \in Dest : Pending(d) => /\ intent.lock = lockFile
                                  /\ Matching(d) # {}

Recovered == [d \in Dest |-> IF Pending(d) THEN Prefer(d, Matching(d))
                             ELSE LoadedLock[d]]

-----------------------------------------------------------------------------
(* Phase 1: acquire the flock, load config and lock, recover into memory.  *)
(* A mutating command asks for another configuration than the one on disk. *)
(* Every rejection leaves the disk as it was, hence is no step.            *)
LoadConfig(r, w) ==
    /\ pc = "idle"
    /\ w # config => ~r.frozen
    /\ lockFile = CorruptLock => r.recovery = "repair"
    /\ RecoveryAccepts
    /\ r.frozen => ~\E d \in Dest : Pending(d)
    /\ pc' = "loaded"
    /\ request' = r
    /\ want' = w
    /\ oldLock' = Recovered
    /\ UNCHANGED <<config, disk, old, lockFile, intent, target, plan, done, cur,
                   touched, edits, faults>>

(* A hook surface cannot be read and the command may defer: only the       *)
(* user's config change is kept.                                           *)
RecoveryHalt ==
    /\ pc = "loaded"
    /\ request.recovery \in {"defer", "repair"}
    /\ config' = want
    /\ EndSession
    /\ UNCHANGED <<disk, old, lockFile, intent, edits, faults>>

Owns(d) == oldLock[d] # NoRec \/ d \in Provided

(* A self item never lands on an unowned path unless forced.               *)
SelfBlocked(d) ==
    /\ want[d] # NoRec /\ want[d].origin = Self
    /\ ~Owns(d) /\ disk[d] # Absent
    /\ ~request.force

(* [mutant] The comparison is the wrong way round.                         *)
CollisionIfSame(d) ==
    /\ want[d] # NoRec /\ want[d].origin # Self
    /\ ~Owns(d) /\ disk[d] # Absent
    /\ ~request.force
    /\ disk[d].bytes = want[d].source

(* A dependency item leaves an unowned path alone, unless forced or the    *)
(* path holds the item's source bytes (renames are not applied yet).       *)
UnmanagedCollision(d) ==
    /\ want[d] # NoRec /\ want[d].origin # Self
    /\ ~Owns(d) /\ disk[d] # Absent
    /\ ~request.force
    /\ disk[d].bytes # want[d].source

(* Phase 3.                                                                *)
BuildTarget ==
    /\ pc = "loaded"
    /\ \A d \in Dest : ~SelfBlocked(d)
    /\ target' = [d \in Dest |-> IF UnmanagedCollision(d) THEN NoRec ELSE want[d]]
    /\ pc' = "built"
    /\ UNCHANGED <<config, disk, old, lockFile, intent, request, want, oldLock,
                   plan, done, cur, touched, edits, faults>>

RejectTarget ==
    /\ pc = "loaded"
    /\ \E d \in Dest : SelfBlocked(d)
    /\ EndSession
    /\ UNCHANGED <<config, disk, old, lockFile, intent, edits, faults>>

-----------------------------------------------------------------------------
(* Phase 4: three-way diff of target, lock and disk, then the plan.        *)

SourceChanged(d) == \/ target[d].source # oldLock[d].source
                    \/ target[d].installed # oldLock[d].installed

Baseline(d) == IF request.force THEN oldLock[d].source ELSE oldLock[d].installed

LocalChanged(d) == disk[d] # Absent /\ disk[d].bytes # Baseline(d)

(* [mutant] An absent output is not reinstalled.                           *)
ActionIfAbsentSkipped(d) ==
    IF SourceChanged(d) THEN "overwrite"
    ELSE IF LocalChanged(d) THEN IF request.force THEN "overwrite" ELSE "keep"
    ELSE "skip"

(* Target and lock both know the destination.                              *)
ActionForOwned(d) ==
    IF SourceChanged(d) THEN "overwrite"            \* Update or Conflict
    ELSE IF LocalChanged(d) THEN IF request.force THEN "overwrite" ELSE "keep"
    ELSE IF disk[d] = Absent THEN "install"
    ELSE IF target[d].origin # oldLock[d].origin THEN "overwrite"
    ELSE "skip"

ActionFor(d) ==
    IF target[d] = NoRec
    THEN IF oldLock[d] = NoRec THEN "none" ELSE "remove"
    ELSE IF oldLock[d] = NoRec THEN "install" ELSE ActionForOwned(d)

NextPlan == [d \in Dest |-> ActionFor(d)]

(* [mutant] Removals pass the gate.                                        *)
FrozenGateOnWrites == request.frozen =>
    \A d \in Dest : NextPlan[d] \in {"none", "skip", "keep", "remove"}

FrozenGate == request.frozen =>
    \A d \in Dest : NextPlan[d] \in {"none", "skip", "keep"}

CreatePlan ==
    /\ pc = "built"
    /\ FrozenGate
    /\ plan' = NextPlan
    /\ pc' = "planned"
    /\ UNCHANGED <<config, disk, old, lockFile, intent, request, want, oldLock,
                   target, done, cur, touched, edits, faults>>

RejectPlan ==
    /\ pc = "built"
    /\ ~FrozenGate
    /\ EndSession
    /\ UNCHANGED <<config, disk, old, lockFile, intent, edits, faults>>

-----------------------------------------------------------------------------
(* Phase 5: persist the config change, journal, apply.                     *)

PersistMutation ==
    /\ pc = "planned"
    /\ config' = want
    /\ pc' = "persisted"
    /\ UNCHANGED <<disk, old, lockFile, intent, request, want, oldLock, target,
                   plan, done, cur, touched, edits, faults>>

(* Versions of the previous journal that describe what the recovered lock  *)
(* says is installed.                                                      *)
Verified(d) == {v \in {intent.outputs[d].cur, intent.outputs[d].new} \ {NoRec} :
                   v.installed = oldLock[d].installed}

(* Evidence to carry over into the next journal.                           *)
Retained(d) ==
    /\ intent # NoIntent
    /\ intent.lock = lockFile
    /\ disk[d] # Absent
    /\ oldLock[d] # NoRec
    /\ Verified(d) # {}

(* [mutant] What an interrupted session installed is not journaled again.  *)
ToJournalOnce(d) ==
    plan[d] \in {"install", "overwrite"} /\ oldLock[d] = NoRec /\ disk[d] = Absent

(* A write to journal: not covered by a published claim, and not over      *)
(* bytes this or an interrupted session did not write.                     *)
ToJournal(d) ==
    /\ plan[d] \in {"install", "overwrite"}
    /\ oldLock[d] # NoRec => Retained(d)
    /\ disk[d] # Absent => Retained(d)

(* [mutant] The next journal drops the version that is on disk.            *)
PlannedVersionOnly(d) ==
    [cur |-> NoRec, new |-> IF ToJournal(d) THEN target[d] ELSE NoRec]

NextVersions(d) ==
    LET kept == IF Retained(d) THEN Prefer(d, Verified(d)) ELSE NoRec
    IN  [cur |-> kept,
         new |-> IF ToJournal(d) /\ target[d] # kept THEN target[d] ELSE NoRec]

(* Write the intent, or remove it when nothing is left to record.          *)
Prepare ==
    /\ pc = "persisted"
    /\ intent' = IF \E d \in Dest : Retained(d) \/ ToJournal(d)
                 THEN [lock |-> lockFile,
                       outputs |-> [d \in Dest |-> NextVersions(d)]]
                 ELSE NoIntent
    /\ pc' = "applying"
    /\ UNCHANGED <<config, disk, old, lockFile, request, want, oldLock, target,
                   plan, done, cur, touched, edits, faults>>

ToWrite == {d \in Dest : plan[d] \in {"install", "overwrite"}}
ToRemove == {d \in Dest : plan[d] = "remove"}

(* A write nobody's claim covers, over existing bytes or on a path the     *)
(* user changed since the session looked.                                  *)
Adopts(d, existed) ==
    /\ ~Published(d) /\ d \notin Provided
    /\ d \in touched \/ (existed /\ oldLock[d] = NoRec)

(* An agent file: temporary file, then rename.                             *)
WriteFile(d) ==
    /\ pc = "applying"
    /\ d \in ToWrite \ (DirDest \cup done)
    /\ disk' = [disk EXCEPT ![d] =
           [bytes |-> target[d].installed,
            by |-> IF Adopts(d, disk[d] # Absent) THEN "adopted" ELSE "mars"]]
    /\ done' = done \cup {d}
    /\ UNCHANGED <<config, old, lockFile, intent, pc, request, want, oldLock,
                   target, plan, cur, touched, edits, faults>>

(* A directory, first rename: what is there becomes `.name.old`, replacing *)
(* a stale one.                                                            *)
StashDir(d) ==
    /\ pc = "applying"
    /\ cur = NoDest
    /\ d \in (ToWrite \cap DirDest) \ done
    /\ disk[d] # Absent
    /\ old' = [old EXCEPT ![d] = disk[d]]
    /\ disk' = [disk EXCEPT ![d] = Absent]
    /\ cur' = d
    /\ UNCHANGED <<config, lockFile, intent, pc, request, want, oldLock, target,
                   plan, done, touched, edits, faults>>

(* Second rename: the prepared tree takes the free name. Dropping the old  *)
(* tree is best effort.                                                    *)
PlaceDir(d) ==
    LET whole  == target[d].source = target[d].installed
        writer == IF Adopts(d, cur = d) THEN "adopted"
                  ELSE IF whole THEN "mars" ELSE "half"
    IN  /\ pc = "applying"
        /\ cur \in {d, NoDest}
        /\ d \in (ToWrite \cap DirDest) \ done
        /\ disk[d] = Absent
        /\ disk' = [disk EXCEPT ![d] = [bytes |-> target[d].source, by |-> writer]]
        /\ \/ cur = d /\ old' = [old EXCEPT ![d] = Absent]
           \/ old' = old
        /\ IF whole THEN cur' = NoDest /\ done' = done \cup {d}
                    ELSE cur' = d /\ done' = done
        /\ UNCHANGED <<config, lockFile, intent, pc, request, want, oldLock,
                       target, plan, touched, edits, faults>>

(* A renamed skill: its SKILL.md is rewritten in place, after the install. *)
RewriteSkill(d) ==
    /\ pc = "applying"
    /\ cur = d
    /\ d \in (ToWrite \cap DirDest) \ done
    /\ disk[d] # Absent
    /\ disk[d].by # "user"
    /\ disk' = [disk EXCEPT ![d] =
           [bytes |-> target[d].installed,
            by |-> IF disk[d].by = "adopted" THEN "adopted" ELSE "mars"]]
    /\ cur' = NoDest
    /\ done' = done \cup {d}
    /\ UNCHANGED <<config, old, lockFile, intent, pc, request, want, oldLock,
                   target, plan, touched, edits, faults>>

(* The second rename fails: put the old tree back if the name is free, and *)
(* give up.                                                                *)
RollbackDir(d) ==
    /\ pc = "applying"
    /\ cur = d
    /\ d \in (ToWrite \cap DirDest) \ done
    /\ old[d] # Absent
    /\ IF disk[d] = Absent THEN faults < MaxFaults ELSE disk[d].by = "user"
    /\ IF disk[d] = Absent
       THEN /\ disk' = [disk EXCEPT ![d] = old[d]]
            /\ old' = [old EXCEPT ![d] = Absent]
       ELSE UNCHANGED <<disk, old>>
    /\ EndSession
    /\ faults' = IF disk[d] = Absent THEN faults + 1 ELSE faults
    /\ UNCHANGED <<config, lockFile, intent, edits>>

(* Orphans come last in the plan; local edits do not protect them. A       *)
(* directory goes entry by entry: for a while only some of it is there,    *)
(* which has the hash of no version.                                       *)
TearOrphan(d) ==
    /\ pc = "applying"
    /\ ToWrite \subseteq done
    /\ d \in (ToRemove \cap DirDest) \ done
    /\ disk[d] # Absent
    /\ disk[d].bytes # Torn
    /\ disk' = [disk EXCEPT ![d].bytes = Torn]
    /\ UNCHANGED <<config, old, lockFile, intent, session, touched, edits, faults>>

RemoveOrphan(d) ==
    /\ pc = "applying"
    /\ ToWrite \subseteq done
    /\ d \in ToRemove \ done
    /\ d \in DirDest /\ disk[d] # Absent => disk[d].bytes = Torn
    /\ disk' = [disk EXCEPT ![d] = Absent]
    /\ done' = done \cup {d}
    /\ UNCHANGED <<config, old, lockFile, intent, pc, request, want, oldLock,
                   target, plan, cur, touched, edits, faults>>

-----------------------------------------------------------------------------
(* Phase 7: publish the lock, then drop the journal.                       *)

BuiltLock == [d \in Dest |->
    IF plan[d] \in {"install", "overwrite"} THEN target[d]
    ELSE IF plan[d] \in {"skip", "keep"} THEN oldLock[d]
    ELSE NoRec]

WriteLock ==
    /\ pc = "applying"
    /\ ToWrite \cup ToRemove \subseteq done
    /\ lockFile' = BuiltLock
    /\ disk' = [d \in Dest |-> IF disk[d] # Absent /\ BuiltLock[d] # NoRec
                                  /\ disk[d].by \in {"adopted", "half"}
                               THEN By(disk[d], "mars") ELSE disk[d]]
    /\ pc' = "locked"
    /\ UNCHANGED <<config, old, intent, request, want, oldLock, target, plan,
                   done, cur, touched, edits, faults>>

Complete ==
    /\ pc = "locked"
    /\ intent' = NoIntent
    /\ EndSession
    /\ UNCHANGED <<config, disk, old, lockFile, edits, faults>>

-----------------------------------------------------------------------------
(* Failures and the user                                                   *)

(* A kill, or an error that `?` passes up between two disk writes.         *)
Interrupt ==
    /\ pc # "idle"
    /\ faults < MaxFaults
    /\ faults' = faults + 1
    /\ EndSession
    /\ UNCHANGED <<config, disk, old, lockFile, intent, edits>>

(* The user writes or deletes a destination, at any moment but the one     *)
(* between the two writes of a rewritten skill.                            *)
UserEdit(d, f) ==
    /\ edits < MaxEdits
    /\ disk[d] # f
    /\ cur = d => disk[d] = Absent
    /\ disk' = [disk EXCEPT ![d] = f]
    /\ touched' = IF pc = "idle" THEN {} ELSE touched \cup {d}
    /\ edits' = edits + 1
    /\ UNCHANGED <<config, old, lockFile, intent, session, faults>>

UserFiles == [bytes : UserBytes, by : {"user"}] \cup {Absent}

(* Another registry comes with a checkout, or mars.lock gets lost or       *)
(* damaged: what is on disk can be attributed to nobody.                   *)
Checkout(l) ==
    /\ pc = "idle"
    /\ edits < MaxEdits
    /\ lockFile' = l
    /\ disk' = [d \in Dest |-> IF disk[d] = Absent THEN Absent
                               ELSE By(disk[d], "user")]
    /\ edits' = edits + 1
    /\ UNCHANGED <<config, old, intent, session, touched, faults>>

(* The user edits mars.toml, or a source moves, between two sessions.      *)
Reconfigure(c) ==
    /\ pc = "idle"
    /\ edits < MaxEdits
    /\ config' = c
    /\ edits' = edits + 1
    /\ UNCHANGED <<disk, old, lockFile, intent, session, touched, faults>>

Proceed ==
    \/ BuildTarget \/ RejectTarget
    \/ CreatePlan \/ RejectPlan
    \/ PersistMutation \/ Prepare
    \/ \E d \in Dest : \/ WriteFile(d) \/ StashDir(d) \/ PlaceDir(d)
                       \/ RewriteSkill(d) \/ TearOrphan(d) \/ RemoveOrphan(d)
    \/ WriteLock \/ Complete

Mars ==
    \/ \E r \in Requests, w \in Configs : LoadConfig(r, w)
    \/ RecoveryHalt
    \/ Proceed
    \/ \E d \in Dest : RollbackDir(d)
    \/ Interrupt

User ==
    \/ \E d \in Dest, f \in UserFiles : UserEdit(d, f)
    \/ \E l \in Checkouts : Checkout(l)
    \/ \E c \in Configs : Reconfigure(c)

Next == Mars \/ User

Spec == Init /\ [][Next]_vars

-----------------------------------------------------------------------------
(* Properties                                                              *)

Evidence(d) == intent # NoIntent /\ intent.lock = lockFile /\ Matching(d) # {}

(* The journal speaks of what is there, which no sync can recover.         *)
Refused(d) == Pending(d) /\ intent.lock = lockFile /\ Matching(d) = {}

(* Bytes Mars wrote are never indistinguishable from the user's: at every  *)
(* instant, also after a kill, the published lock, the provider's record   *)
(* or a journal entry that recovery will accept covers them; what is left  *)
(* of a directory of its own has an entry at which recovery stops. (Except *)
(* an adoption, which prepare leaves out of the journal on purpose, and    *)
(* the first half of a renamed skill: see EitherSideRecoverable.)          *)
WritesAccounted == \A d \in Dest :
    disk[d] # Absent /\ disk[d].by = "mars" =>
        \/ Published(d) \/ d \in Provided
        \/ IF disk[d].bytes = Torn THEN Refused(d) ELSE Evidence(d)

(* Nothing but the user's own doing makes recovery refuse an output that   *)
(* is whole: what only Mars has written never blocks the next sync, the    *)
(* first half of a renamed skill and a directory half removed apart.       *)
RetryNotBlocked == \A d \in Dest :
    pc = "idle" /\ Pending(d) /\ disk[d].by = "mars" /\ disk[d].bytes # Torn
        => Evidence(d)

(* As lock-file.md promises: on either side of every write of Mars, that   *)
(* of a renamed skill's SKILL.md included, recovery accepts what it finds. *)
EitherSideRecoverable == \A d \in Dest :
    pc = "idle" /\ Pending(d) /\ disk[d].by \in {"mars", "half"}
        /\ disk[d].bytes # Torn => Evidence(d)

BytesOf(f) == IF f = Absent THEN Absent ELSE f.bytes

(* A step of Mars takes away bytes the user put at d.                      *)
Loses(d) ==
    /\ disk[d] # Absent /\ disk[d].by = "user"
    /\ edits' = edits
    /\ BytesOf(disk'[d]) # BytesOf(disk[d])

SameAs(d, rec) == rec # NoRec /\ disk[d].bytes \in {rec.source, rec.installed}

(* Without --force a session takes away bytes the user had put on a path   *)
(* before it started only if a published claim or the provider's record    *)
(* makes the path Mars's and the item has changed or gone, or if they are  *)
(* byte for byte what Mars had written or was to install, or else the rest *)
(* of a directory it is about to remove. A journal entry alone never       *)
(* authorises it.                                                          *)
UserBytesSurvive == [][\A d \in Dest :
    Loses(d) /\ ~request.force /\ d \notin touched =>
        \/ SameAs(d, target[d]) \/ SameAs(d, oldLock[d])
        \/ d \in Provided
        \/ Published(d) /\ (target[d] = NoRec \/ SourceChanged(d))
        \/ plan[d] = "remove" /\ disk[d].bytes = Torn]_vars

(* --frozen never changes a file, a claim or the configuration, even when  *)
(* an interrupted session left something to recover.                       *)
FrozenWritesNothing == [][request.frozen /\ edits' = edits =>
    /\ \A d \in Dest : BytesOf(disk'[d]) = BytesOf(disk[d])
    /\ old' = old /\ config' = config
    /\ LoadedLock' = LoadedLock]_vars

(* What a session publishes is true: every claim names bytes that are      *)
(* there, and the bytes claimed unless the user's edits were kept, or the  *)
(* session was forced and took a renamed item that holds its own source    *)
(* for unchanged.                                                          *)
ClaimsTrue == [][lockFile' # lockFile /\ edits' = edits =>
    \A d \in Dest \ touched : lockFile'[d] # NoRec =>
        /\ disk[d] # Absent
        /\ \/ disk[d].bytes = lockFile'[d].installed
           \/ plan[d] = "keep"
           \/ request.force /\ disk[d].bytes = lockFile'[d].source]_vars

(* A running sync goes on; between all other commands, the user comes back *)
(* to a plain `mars sync`.                                                 *)
Retry == LoadConfig(Strict, config)
FairSpec == Spec /\ WF_vars(Proceed) /\ SF_vars(Retry)

(* An interrupted sync, rerun, gets its journal committed or discharged,   *)
(* unless the rerun is cut short in turn where that leaves what no sync    *)
(* can tell from the user's: half a directory it was removing, or bytes    *)
(* put where the user, under the running sync, had deleted some.           *)
Unrecoverable(d) ==
    /\ disk[d] # Absent /\ ~Published(d)
    /\ disk[d].bytes = Torn \/ disk[d].by = "adopted"
JournalDischarged ==
    intent # NoIntent ~> intent = NoIntent \/ \E d \in Dest : Unrecoverable(d)

=============================================================================
