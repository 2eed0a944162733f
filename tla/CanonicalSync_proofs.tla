------------------------- MODULE CanonicalSync_proofs -------------------------
(***************************************************************************)
(* Theorems about CanonicalSync, for every set of destinations, contents,  *)
(* configurations and command lines, any number of edits and of faults.    *)
(***************************************************************************)
EXTENDS CanonicalSync, TLAPS

-----------------------------------------------------------------------------
(* Types                                                                   *)

LEMMA RecoveredType ==
    ASSUME TypeOK
    PROVE  Recovered \in Target
<1> SUFFICES ASSUME NEW d \in Dest
             PROVE  (IF Pending(d) THEN Prefer(d, Matching(d)) ELSE LoadedLock[d])
                        \in MaybeRecord
    BY DEF Recovered, Target
<1>1. CASE Pending(d)
    <2>1. intent \in Intent
        BY <1>1 DEF TypeOK, Pending, Journaled
    <2>2. intent.outputs[d].cur \in MaybeRecord /\ intent.outputs[d].new \in MaybeRecord
        BY <2>1 DEF Intent, Versions
    <2> QED BY <1>1, <2>2 DEF Prefer
<1>2. CASE ~Pending(d)
    BY <1>2 DEF LoadedLock, Nothing, Target, MaybeRecord
<1> QED BY <1>1, <1>2

LEMMA NextIntentType ==
    ASSUME TypeOK
    PROVE  [lock |-> lockFile, outputs |-> [d \in Dest |-> NextVersions(d)]] \in Intent
<1> SUFFICES ASSUME NEW d \in Dest
             PROVE  NextVersions(d) \in Versions
    BY DEF Intent, TypeOK
<1>1. target[d] \in MaybeRecord
    BY DEF TypeOK, Target
<1>2. (IF Retained(d) THEN Prefer(d, Verified(d)) ELSE NoRec) \in MaybeRecord
    <2>1. CASE Retained(d)
        <3>1. intent \in Intent
            BY <2>1 DEF TypeOK, Retained
        <3>2. intent.outputs[d].cur \in MaybeRecord /\ intent.outputs[d].new \in MaybeRecord
            BY <3>1 DEF Intent, Versions
        <3> QED BY <2>1, <3>2 DEF Prefer
    <2> QED BY <2>1 DEF MaybeRecord
<1>3. NoRec \in MaybeRecord
    BY DEF MaybeRecord
<1> QED BY <1>1, <1>2, <1>3 DEF NextVersions, Versions

LEMMA FileType ==
    ASSUME NEW f \in MaybeFile, f # Absent
    PROVE  f \in File /\ f.bytes \in Bytes \cup {Torn} /\ f.by \in Writers
BY DEF MaybeFile, File

LEMMA RecordType ==
    ASSUME NEW r \in MaybeRecord, r # NoRec
    PROVE  r.origin \in Origin /\ r.source \in Bytes /\ r.installed \in Bytes
BY DEF MaybeRecord, Record

(* A planned write has something to write.                                 *)
WritesHaveTarget == pc \in {"planned", "persisted", "applying"} =>
    \A d \in ToWrite : target[d] # NoRec

(* A running session wants some configuration.                             *)
TInv == TypeOK /\ WritesHaveTarget /\ (pc # "idle" => want \in Configs)

LEMMA PlanType ==
    ASSUME TypeOK
    PROVE  /\ NextPlan \in [Dest -> Act]
           /\ \A d \in Dest : NextPlan[d] \in {"install", "overwrite"} => target[d] # NoRec
BY DEF NextPlan, ActionFor, ActionForOwned, Act

LEMMA EndSessionType ==
    ASSUME EndSession
    PROVE  /\ pc' \in PC /\ request' \in RequestType /\ want' \in Configs \cup {Nothing}
           /\ oldLock' \in Target /\ target' \in Target /\ plan' \in [Dest -> Act]
           /\ done' \subseteq Dest /\ cur' \in Dest \cup {NoDest}
           /\ touched' \subseteq Dest
           /\ pc' = "idle"
BY DEF EndSession, PC, Strict, RequestType, Nothing, Target, MaybeRecord, NoPlan, Act


LEMMA InitType == Init => TInv
BY ConfigAssumption, BoundAssumption DEF Init, TInv, TypeOK, WritesHaveTarget, Strict,
   RequestType, Nothing, NoPlan, Target, LockFile, MaybeRecord, MaybeFile, PC, Act,
   ToWrite

LEMMA NextType ==
    ASSUME TInv, [Next]_vars
    PROVE  TInv'
<1> USE DEF TInv, WritesHaveTarget, ToWrite
<1>1. ASSUME NEW r \in Requests, NEW w \in Configs, LoadConfig(r, w)
      PROVE  TInv'
    <2>1. Recovered \in Target
        BY RecoveredType
    <2> QED BY <1>1, <2>1, ConfigAssumption DEF LoadConfig, PC, TypeOK
<1>2. CASE RecoveryHalt
    BY <1>2, EndSessionType DEF RecoveryHalt, TypeOK
<1>3. CASE BuildTarget
    <2>1. target' \in Target
        BY <1>3, ConfigAssumption DEF BuildTarget, Target, TypeOK, MaybeRecord
    <2> QED BY <1>3, <2>1 DEF BuildTarget, PC, TypeOK
<1>4. CASE RejectTarget
    BY <1>4, EndSessionType DEF RejectTarget, TypeOK
<1>5. CASE CreatePlan
    BY <1>5, PlanType DEF CreatePlan, PC, TypeOK
<1>6. CASE RejectPlan
    BY <1>6, EndSessionType DEF RejectPlan, TypeOK
<1>7. CASE PersistMutation
    BY <1>7 DEF PersistMutation, PC, TypeOK
<1>8. CASE Prepare
    BY <1>8, NextIntentType DEF Prepare, PC, TypeOK
<1>9. ASSUME NEW d \in Dest, WriteFile(d)
      PROVE  TInv'
    <2>1. target[d] \in MaybeRecord /\ target[d] # NoRec
        BY <1>9 DEF WriteFile, TypeOK, Target
    <2>2. disk' \in [Dest -> MaybeFile]
        BY <1>9, <2>1, RecordType DEF WriteFile, TypeOK, MaybeFile, File, Writers
    <2> QED BY <1>9, <2>2 DEF WriteFile, TypeOK
<1>10. ASSUME NEW d \in Dest, StashDir(d)
       PROVE  TInv'
    BY <1>10 DEF StashDir, TypeOK, MaybeFile
<1>11. ASSUME NEW d \in Dest, PlaceDir(d)
       PROVE  TInv'
    <2>1. target[d] \in MaybeRecord /\ target[d] # NoRec
        BY <1>11 DEF PlaceDir, TypeOK, Target
    <2>2. disk' \in [Dest -> MaybeFile] /\ old' \in [Dest -> MaybeFile]
        BY <1>11, <2>1, RecordType DEF PlaceDir, TypeOK, MaybeFile, File, Writers
    <2>3. done' \subseteq Dest /\ cur' \in Dest \cup {NoDest}
        BY <1>11 DEF PlaceDir, TypeOK
    <2> QED BY <1>11, <2>2, <2>3 DEF PlaceDir, TypeOK
<1>12. ASSUME NEW d \in Dest, RewriteSkill(d)
       PROVE  TInv'
    <2>1. target[d] \in MaybeRecord /\ target[d] # NoRec
        BY <1>12 DEF RewriteSkill, TypeOK, Target
    <2>2. disk' \in [Dest -> MaybeFile]
        BY <1>12, <2>1, RecordType DEF RewriteSkill, TypeOK, MaybeFile, File, Writers
    <2> QED BY <1>12, <2>2 DEF RewriteSkill, TypeOK
<1>13. ASSUME NEW d \in Dest, RemoveOrphan(d)
       PROVE  TInv'
    BY <1>13 DEF RemoveOrphan, TypeOK, MaybeFile
<1>22. ASSUME NEW d \in Dest, TearOrphan(d)
       PROVE  TInv'
    <2>1. disk' \in [Dest -> MaybeFile]
        BY <1>22 DEF TearOrphan, TypeOK, MaybeFile, File
    <2> QED BY <1>22, <2>1 DEF TearOrphan, session, TypeOK
<1>14. CASE WriteLock
    <2>1. BuiltLock \in Target
        BY <1>14 DEF BuiltLock, Target, TypeOK, MaybeRecord
    <2>2. disk' \in [Dest -> MaybeFile]
        BY <1>14 DEF WriteLock, TypeOK, MaybeFile, File, Writers, By
    <2> QED BY <1>14, <2>1, <2>2 DEF WriteLock, PC, TypeOK, LockFile
<1>15. CASE Complete
    BY <1>15, EndSessionType DEF Complete, TypeOK
<1>16. ASSUME NEW d \in Dest, RollbackDir(d)
       PROVE  TInv'
    <2>1. disk' \in [Dest -> MaybeFile] /\ old' \in [Dest -> MaybeFile]
        BY <1>16 DEF RollbackDir, TypeOK, MaybeFile
    <2>2. faults' \in Nat
        BY <1>16 DEF RollbackDir, TypeOK
    <2> QED BY <1>16, <2>1, <2>2, EndSessionType DEF RollbackDir, TypeOK
<1>17. CASE Interrupt
    BY <1>17, EndSessionType DEF Interrupt, TypeOK
<1>18. ASSUME NEW d \in Dest, NEW f \in UserFiles, UserEdit(d, f)
       PROVE  TInv'
    <2>1. f \in MaybeFile
        BY DestAssumption DEF UserFiles, MaybeFile, File, Writers
    <2> QED BY <1>18, <2>1 DEF UserEdit, TypeOK, session
<1>19. ASSUME NEW l \in Checkouts, Checkout(l)
       PROVE  TInv'
    <2>1. disk' \in [Dest -> MaybeFile]
        BY <1>19 DEF Checkout, TypeOK, MaybeFile, File, Writers, By
    <2> QED BY <1>19, <2>1, ConfigAssumption DEF Checkout, TypeOK, session
<1>20. ASSUME NEW c \in Configs, Reconfigure(c)
       PROVE  TInv'
    BY <1>20 DEF Reconfigure, TypeOK, session
<1>21. CASE UNCHANGED vars
    BY <1>21 DEF vars, session, TypeOK
<1> QED
    BY <1>1, <1>2, <1>3, <1>4, <1>5, <1>6, <1>7, <1>8, <1>9, <1>10, <1>11, <1>12,
       <1>13, <1>14, <1>15, <1>16, <1>17, <1>18, <1>19, <1>20, <1>21, <1>22
    DEF Next, Mars, User, Proceed

(* Every variable keeps its type, with any number of destinations, edits   *)
(* and interruptions (the state kept by lock.rs, recovery.rs, apply.rs).   *)
THEOREM TypeCorrect == Spec => []TypeOK
<1>1. TInv => TypeOK
    BY DEF TInv
<1> QED
    BY InitType, NextType, <1>1, PTL DEF Spec


-----------------------------------------------------------------------------
(* The inductive invariant behind WritesAccounted. It follows one session: *)
(* what the recovered lock knows of a destination that only the journal    *)
(* covers, what the plan may therefore do to it, and what the new journal  *)
(* records before the first write.                                         *)

Before == {"loaded", "built", "planned", "persisted"}
ByMars(d) == disk[d] # Absent /\ disk[d].by = "mars"

(* The provider's record does not answer for d, or the journal speaks of   *)
(* it too, which recovery then goes by.                                    *)
Exposed(d) == d \notin Provided \/ Journaled(d)
Uncovered(d) == ~Published(d) /\ Exposed(d)

(* The journal in force holds rec for d.                                   *)
InJournal(d, rec) ==
    /\ intent # NoIntent
    /\ intent.lock = lockFile
    /\ rec # NoRec
    /\ rec \in {intent.outputs[d].cur, intent.outputs[d].new}

(* Those bytes at d are attributed by the journal; of the remains of a     *)
(* directory all that is left to say is that the journal speaks of it.     *)
Attributed(d, bytes) ==
    \E v \in Record : InJournal(d, v) /\ (v.installed = bytes \/ bytes = Torn)

(* Until the journal is rewritten the recovered lock agrees with the disk. *)
LoadedInv(d) == pc \in Before =>
    /\ cur = NoDest /\ done = {}
    /\ d \in touched => disk[d] = Absent \/ disk[d].by = "user"
    /\ ByMars(d) /\ Uncovered(d) => oldLock[d] # NoRec
    /\ ~Published(d) /\ oldLock[d] # NoRec /\ d \notin touched =>
           /\ disk[d] # Absent
           /\ disk[d].bytes = oldLock[d].installed
           /\ InJournal(d, oldLock[d])

(* A published claim is in the recovered lock, so the plan sees it.        *)
ClaimInv(d) == pc \in Before \cup {"applying"} /\ Published(d) =>
    oldLock[d] # NoRec

(* What the plan says agrees with target and recovered lock.               *)
PlanInv(d) == pc \in {"planned", "persisted", "applying"} =>
    /\ plan[d] \in {"install", "overwrite"} => target[d] # NoRec
    /\ plan[d] \in {"skip", "keep"} => oldLock[d] # NoRec
    /\ plan[d] = "none" => oldLock[d] = NoRec /\ ~(ByMars(d) /\ Exposed(d))

(* While applying, a write that will count as Mars's own is journaled.     *)
ApplyInv(d) == pc = "applying" =>
    /\ d \in ToWrite /\ Journaled(d) => InJournal(d, target[d])
    /\ d \in ToWrite \ done /\ Uncovered(d) /\ d \notin touched
         /\ (oldLock[d] # NoRec \/ (disk[d] = Absent /\ cur # d))
           => InJournal(d, target[d])
    /\ cur = d /\ disk[d] # Absent /\ disk[d].by \notin {"adopted", "user"}
         /\ Uncovered(d)
           => InJournal(d, target[d])
    /\ cur = d /\ disk[d] = Absent /\ old[d] # Absent /\ old[d].by = "mars"
         /\ Uncovered(d)
           => Attributed(d, old[d].bytes)
    /\ cur = d => d \in ToWrite \cap DirDest
    /\ plan[d] = "remove" /\ d \in done => ~ByMars(d)

(* A process that is gone leaves nothing behind in memory.                 *)
IdleInv == pc = "idle" => cur = NoDest /\ touched = {} /\ done = {}

(* Once the lock is published the journal is no longer needed.             *)
LockedInv(d) == pc = "locked" /\ ByMars(d) => ~Uncovered(d)

Accounted(d) == ByMars(d) /\ Uncovered(d) => Attributed(d, disk[d].bytes)

DInv(d) == /\ Accounted(d) /\ LoadedInv(d) /\ ClaimInv(d)
           /\ PlanInv(d) /\ ApplyInv(d) /\ LockedInv(d)
WInv == TInv /\ IdleInv /\ \A d \in Dest : DInv(d)


LEMMA EvidenceIsJournaled ==
    ASSUME TypeOK, NEW d \in Dest
    PROVE  Evidence(d) <=> /\ disk[d] # Absent /\ disk[d].bytes # Torn
                           /\ Attributed(d, disk[d].bytes)
<1>1. CASE intent = NoIntent
    BY <1>1 DEF Evidence, Attributed, InJournal
<1>2. CASE intent # NoIntent
    <2>1. intent.outputs[d].cur \in MaybeRecord /\ intent.outputs[d].new \in MaybeRecord
        BY <1>2 DEF TypeOK, Intent, Versions
    <2>2. \A v \in Record : v.installed # Torn
        BY SentinelAssumption DEF Record
    <2> QED BY <1>2, <2>1, <2>2 DEF Evidence, Matching, Attributed, InJournal, MaybeRecord
<1> QED BY <1>1, <1>2

(* The remains of a directory that the journal speaks of match no version. *)
LEMMA TornIsRefused ==
    ASSUME TypeOK, NEW d \in Dest, ~Published(d), disk[d] # Absent,
           disk[d].bytes = Torn, Attributed(d, Torn)
    PROVE  Refused(d)
<1>1. PICK v \in Record : InJournal(d, v)
    BY DEF Attributed
<1>2. intent.outputs[d].cur \in MaybeRecord /\ intent.outputs[d].new \in MaybeRecord
    BY <1>1 DEF TypeOK, Intent, Versions, InJournal
<1>3. \A r \in Record : r.installed # Torn
    BY SentinelAssumption DEF Record
<1>4. Matching(d) = {}
    BY <1>2, <1>3 DEF Matching, MaybeRecord
<1> QED BY <1>1, <1>4 DEF Refused, Pending, Journaled, InJournal

LEMMA WInvInit == Init => WInv
BY InitType DEF Init, WInv, IdleInv, DInv, Accounted, LoadedInv, ClaimInv, PlanInv,
   ApplyInv, LockedInv, ByMars, Uncovered, Before, ToWrite

(* A session ends: only the account of the disk matters.                   *)
LEMMA EndSessionDInv ==
    ASSUME EndSession, NEW d \in Dest, Accounted(d)'
    PROVE  DInv(d)'
BY DEF EndSession, DInv, LoadedInv, ClaimInv, PlanInv, ApplyInv, LockedInv, Before

(* What the journal accounts for does not depend on the session.           *)
LEMMA SameStore ==
    ASSUME UNCHANGED <<disk, lockFile, intent>>, NEW d \in Dest
    PROVE  /\ Accounted(d) <=> Accounted(d)'
           /\ ByMars(d) <=> ByMars(d)'
           /\ Uncovered(d) <=> Uncovered(d)'
           /\ Published(d) <=> Published(d)'
           /\ Exposed(d) <=> Exposed(d)'
           /\ Journaled(d) <=> Journaled(d)'
           /\ \A v : InJournal(d, v) <=> InJournal(d, v)'
           /\ \A b : Attributed(d, b) <=> Attributed(d, b)'
BY DEF Accounted, ByMars, Uncovered, Exposed, Journaled, Published, Attributed, InJournal

(* What recovery makes of an output no published claim covers.             *)
LEMMA RecoveredFromJournal ==
    ASSUME TypeOK, RecoveryAccepts, NEW d \in Dest, ~Published(d)
    PROVE  /\ Recovered[d] # NoRec =>
                  /\ disk[d] # Absent
                  /\ disk[d].bytes = Recovered[d].installed
                  /\ InJournal(d, Recovered[d])
           /\ Evidence(d) => Recovered[d] # NoRec
<1>1. CASE Pending(d)
    <2>1. intent # NoIntent /\ intent.lock = lockFile /\ Matching(d) # {}
        BY <1>1 DEF RecoveryAccepts, Pending, Journaled
    <2>2. Prefer(d, Matching(d)) \in Matching(d)
        BY <2>1 DEF Prefer, Matching
    <2>3. Recovered[d] = Prefer(d, Matching(d))
        BY <1>1 DEF Recovered
    <2> QED BY <2>1, <2>2, <2>3 DEF Matching, InJournal
<1>2. CASE ~Pending(d)
    <2>1. Recovered[d] = NoRec
        BY <1>2 DEF Recovered, LoadedLock, Published, Nothing
    <2>2. ~Evidence(d)
        <3>1. ASSUME Evidence(d) PROVE FALSE
            <4>1. PICK v \in {intent.outputs[d].cur, intent.outputs[d].new} \ {NoRec} :
                      disk[d] # Absent
                BY <3>1 DEF Evidence, Matching
            <4>2. intent.outputs[d] # [cur |-> NoRec, new |-> NoRec]
                BY <4>1
            <4> QED BY <1>2, <3>1, <4>1, <4>2 DEF Pending, Journaled, Evidence
        <3> QED BY <3>1
    <2> QED BY <2>1, <2>2
<1> QED BY <1>1, <1>2

LEMMA RecoveredClaim ==
    ASSUME NEW d \in Dest, Published(d)
    PROVE  Recovered[d] = lockFile[d] /\ Recovered[d] # NoRec
BY DEF Recovered, Pending, Published, LoadedLock

(* What the rewritten journal says of an output it speaks of.              *)
LEMMA PreparedEntry ==
    ASSUME WInv, Prepare, NEW d \in Dest
    PROVE  /\ Retained(d) => Prefer(d, Verified(d)) \in Record
                             /\ Prefer(d, Verified(d)).installed = oldLock[d].installed
           /\ Retained(d) \/ ToJournal(d) => /\ intent' # NoIntent /\ intent'.lock = lockFile'
                                             /\ intent'.outputs[d] = NextVersions(d)
<1>0. TypeOK /\ pc = "persisted"
    BY DEF WInv, TInv, Prepare
<1>1. ASSUME Retained(d)
      PROVE  Prefer(d, Verified(d)) \in Record /\ Prefer(d, Verified(d)).installed = oldLock[d].installed
    <2>1. intent.outputs[d].cur \in MaybeRecord /\ intent.outputs[d].new \in MaybeRecord
        BY <1>0, <1>1 DEF TypeOK, Intent, Versions, Retained
    <2> QED BY <1>1, <2>1 DEF Retained, Prefer, Verified, MaybeRecord
<1>2. ASSUME Retained(d) \/ ToJournal(d)
      PROVE  intent' # NoIntent /\ intent'.lock = lockFile' /\ intent'.outputs[d] = NextVersions(d)
    BY <1>2, NextIntentType, SentinelAssumption, <1>0 DEF Prepare, Intent, Versions
<1> QED BY <1>1, <1>2

(* A write to an output the journal speaks of is journaled.                *)
LEMMA PreparedVersion ==
    ASSUME WInv, Prepare, NEW d \in Dest, Retained(d) \/ ToJournal(d),
           plan[d] \in {"install", "overwrite"}
    PROVE  InJournal(d, target[d])'
<1>1. ToJournal(d)
    BY DEF ToJournal, Retained
<1>2. target[d] # NoRec /\ target' = target
    BY DEF WInv, DInv, PlanInv, Prepare
<1>3. target[d] \in {NextVersions(d).cur, NextVersions(d).new}
    BY <1>1 DEF NextVersions
<1> QED BY <1>1, <1>2, <1>3, PreparedEntry DEF InJournal

(* The rewritten journal keeps what it must and records the planned write. *)
LEMMA PreparedJournal ==
    ASSUME WInv, Prepare, NEW d \in Dest, ~Published(d), d \notin touched
    PROVE  /\ oldLock[d] # NoRec => Attributed(d, disk[d].bytes)'
           /\ plan[d] \in {"install", "overwrite"} /\ (oldLock[d] # NoRec \/ disk[d] = Absent)
                  => InJournal(d, target[d])'
<1>0. TypeOK /\ LoadedInv(d) /\ pc = "persisted"
    BY DEF WInv, TInv, DInv, Prepare
<1>1. oldLock[d] # NoRec => Retained(d)
    BY <1>0 DEF LoadedInv, Before, InJournal, Retained, Verified
<1>2. ASSUME oldLock[d] # NoRec
      PROVE  Attributed(d, disk[d].bytes)'
    <2>1. Retained(d) /\ oldLock[d].installed = disk[d].bytes /\ disk' = disk
        BY <1>0, <1>1, <1>2 DEF LoadedInv, Before, Prepare
    <2>2. PICK v \in Record : v = Prefer(d, Verified(d)) /\ v.installed = disk'[d].bytes
        BY <2>1, PreparedEntry
    <2>3. NextVersions(d).cur = v
        BY <2>1, <2>2 DEF NextVersions
    <2>4. v # NoRec
        BY SentinelAssumption
    <2>5. InJournal(d, v)'
        BY <2>1, <2>3, <2>4, PreparedEntry DEF InJournal
    <2> QED BY <2>2, <2>5 DEF Attributed
<1>3. plan[d] \in {"install", "overwrite"} /\ (oldLock[d] # NoRec \/ disk[d] = Absent)
          => InJournal(d, target[d])'
    BY <1>1, PreparedVersion DEF ToJournal
<1> QED BY <1>2, <1>3

LEMMA WInvNext ==
    ASSUME WInv, [Next]_vars, NEW d \in Dest
    PROVE  DInv(d)'
<1>0. /\ TypeOK /\ TypeOK' /\ IdleInv
      /\ Accounted(d) /\ LoadedInv(d) /\ ClaimInv(d) /\ PlanInv(d) /\ ApplyInv(d) /\ LockedInv(d)
    BY NextType DEF WInv, TInv, DInv
<1>1. ASSUME NEW r \in Requests, NEW w \in Configs, LoadConfig(r, w)
      PROVE  DInv(d)'
    <2>1. UNCHANGED <<disk, lockFile, intent, cur, touched, done>> /\ pc = "idle" /\ pc' = "loaded"
        BY <1>1 DEF LoadConfig
    <2>2. oldLock' = Recovered /\ RecoveryAccepts
        BY <1>1 DEF LoadConfig
    <2>3. LoadedInv(d)'
        <3>1. CASE Published(d)
            BY <1>0, <2>1, <2>2, <3>1, SameStore, RecoveredClaim DEF LoadedInv, IdleInv
        <3>2. CASE ~Published(d)
            <4>1. ByMars(d) /\ Uncovered(d) => Evidence(d)
                BY <1>0, <2>2, <3>2, TornIsRefused, EvidenceIsJournaled
                DEF Accounted, ByMars, Refused, RecoveryAccepts
            <4> QED
                BY <1>0, <2>1, <2>2, <3>2, <4>1, SameStore, RecoveredFromJournal
                DEF LoadedInv, IdleInv
        <3> QED BY <3>1, <3>2
    <2>4. ClaimInv(d)'
        BY <2>1, <2>2, SameStore, RecoveredClaim DEF ClaimInv
    <2> QED
        BY <1>0, <2>1, <2>3, <2>4, SameStore DEF DInv, PlanInv, ApplyInv, LockedInv
<1>2. CASE RecoveryHalt
    <2>1. EndSession /\ UNCHANGED <<disk, lockFile, intent>>
        BY <1>2 DEF RecoveryHalt
    <2> QED BY <1>0, <2>1, SameStore, EndSessionDInv DEF DInv
<1>3. CASE BuildTarget
    BY <1>0, <1>3, SameStore DEF BuildTarget, DInv, LoadedInv, ClaimInv, PlanInv, ApplyInv,
       LockedInv, Before
<1>4. CASE RejectTarget
    <2>1. EndSession /\ UNCHANGED <<disk, lockFile, intent>>
        BY <1>4 DEF RejectTarget
    <2> QED BY <1>0, <2>1, SameStore, EndSessionDInv DEF DInv
<1>5. CASE CreatePlan
    <2>1. UNCHANGED <<disk, lockFile, intent, cur, touched, done, oldLock, target>>
        BY <1>5 DEF CreatePlan
    <2>2. pc = "built" /\ pc' = "planned" /\ plan'[d] = ActionFor(d)
        BY <1>5 DEF CreatePlan, NextPlan
    <2>3. PlanInv(d)'
        <3>1. ActionFor(d) \in {"install", "overwrite"} => target[d] # NoRec
            BY DEF ActionFor, ActionForOwned
        <3>2. ActionFor(d) \in {"skip", "keep"} => oldLock[d] # NoRec
            BY DEF ActionFor, ActionForOwned
        <3>3. ActionFor(d) = "none" => oldLock[d] = NoRec
            BY DEF ActionFor, ActionForOwned
        <3>4. ByMars(d) /\ Exposed(d) => oldLock[d] # NoRec
            BY <1>0, <2>2 DEF LoadedInv, ClaimInv, Uncovered, Before
        <3> QED BY <2>1, <2>2, <3>1, <3>2, <3>3, <3>4, SameStore DEF PlanInv
    <2> QED
        BY <1>0, <2>1, <2>2, <2>3, SameStore DEF DInv, LoadedInv, ClaimInv, ApplyInv, LockedInv, Before
<1>6. CASE RejectPlan
    <2>1. EndSession /\ UNCHANGED <<disk, lockFile, intent>>
        BY <1>6 DEF RejectPlan
    <2> QED BY <1>0, <2>1, SameStore, EndSessionDInv DEF DInv
<1>7. CASE PersistMutation
    BY <1>0, <1>7, SameStore DEF PersistMutation, DInv, LoadedInv, ClaimInv, PlanInv, ApplyInv,
       LockedInv, Before
<1>8. CASE Prepare
    <2>1. UNCHANGED <<disk, old, lockFile, cur, touched, oldLock, target, plan, done>>
        BY <1>8 DEF Prepare
    <2>2. pc = "persisted" /\ pc' = "applying" /\ cur = NoDest /\ done = {}
        BY <1>0, <1>8 DEF Prepare, LoadedInv, Before
    <2>3. /\ ByMars(d) <=> ByMars(d)'
          /\ Published(d) <=> Published(d)'
          /\ ToWrite' = ToWrite
        BY <2>1 DEF ByMars, Published, ToWrite
    <2>4. Journaled(d)' => Retained(d) \/ ToJournal(d)
        BY <1>8, NextIntentType, <1>0, SentinelAssumption
        DEF Prepare, Journaled, NextVersions, Intent, Versions
    <2>5. ByMars(d) => d \notin touched
        BY <1>0, <2>2 DEF LoadedInv, Before, ByMars
    <2>6. ByMars(d) /\ Exposed(d)' /\ ~Published(d) => oldLock[d] # NoRec
        <3>1. ByMars(d) /\ d \notin Provided /\ ~Published(d) => oldLock[d] # NoRec
            BY <1>0, <2>2 DEF LoadedInv, Before, Uncovered, Exposed
        <3>2. ByMars(d) /\ Journaled(d)' => oldLock[d] # NoRec
            BY <2>4 DEF ToJournal, Retained, ByMars
        <3> QED BY <3>1, <3>2 DEF Exposed
    <2>7. Accounted(d)'
        BY <1>8, <2>3, <2>5, <2>6, PreparedJournal DEF Accounted, Uncovered
    <2>8. PlanInv(d)'
        <3>1. plan[d] = "none" => ~(ByMars(d) /\ Exposed(d)')
            BY <1>0, <2>2, <2>4 DEF PlanInv, Exposed, Retained, ToJournal
        <3> QED BY <1>0, <2>1, <2>2, <2>3, <3>1 DEF PlanInv
    <2>9. ApplyInv(d)'
        <3>1. d \in ToWrite /\ Uncovered(d)' /\ d \notin touched
                /\ (oldLock[d] # NoRec \/ disk[d] = Absent) => InJournal(d, target[d])'
            BY <1>8, <2>3, PreparedJournal DEF Uncovered, ToWrite
        <3>2. d \in ToWrite /\ Journaled(d)' => InJournal(d, target[d])'
            BY <1>8, <2>4, PreparedVersion DEF ToWrite, ToJournal
        <3> QED BY <2>1, <2>2, <2>3, <3>1, <3>2, DestAssumption, SentinelAssumption DEF ApplyInv
    <2> QED
        BY <1>0, <2>1, <2>2, <2>3, <2>7, <2>8, <2>9
        DEF DInv, LoadedInv, ClaimInv, LockedInv, Before
<1>9. ASSUME NEW e \in Dest, WriteFile(e)
      PROVE  DInv(d)'
    <2>1. UNCHANGED <<lockFile, intent, oldLock, target, plan, touched>>
        BY <1>9 DEF WriteFile
    <2>2. pc = "applying" /\ pc' = "applying"
        BY <1>9 DEF WriteFile
    <2>3. /\ Published(d)' <=> Published(d)
          /\ Uncovered(d)' <=> Uncovered(d)
          /\ ToWrite' = ToWrite
          /\ Exposed(d)' <=> Exposed(d)
          /\ Journaled(d)' <=> Journaled(d)
          /\ \A v : InJournal(d, v)' <=> InJournal(d, v)
          /\ \A b : Attributed(d, b)' <=> Attributed(d, b)
        BY <2>1 DEF Published, Uncovered, Exposed, Journaled, ToWrite, InJournal, Attributed
    <2>4. target[d] \in MaybeRecord
        BY <1>0 DEF TypeOK, Target
    <2>5. CASE d # e
        <3>1. /\ disk'[d] = disk[d] /\ old'[d] = old[d]
              /\ d \in done' <=> d \in done
              /\ cur' = d => cur = d
              /\ cur = d => cur' = d
            BY <1>0, <1>9, <2>5, SentinelAssumption DEF WriteFile, TypeOK
        <3> QED
            BY <1>0, <2>1, <2>2, <2>3, <3>1
            DEF DInv, Accounted, ByMars, LoadedInv, ClaimInv, PlanInv, ApplyInv, LockedInv, Before
    <2>6. CASE d = e
        <3>1. /\ d \in ToWrite \ done /\ d \notin DirDest
              /\ plan[d] \in {"install", "overwrite"} /\ target[d] \in Record
            BY <1>0, <1>9, <2>2, <2>4, <2>6 DEF WriteFile, ToWrite, PlanInv, MaybeRecord
        <3>2. disk'[d] # Absent
            BY <1>0, <1>9, <2>6, <3>1, SentinelAssumption DEF WriteFile, TypeOK, Record
        <3>3. ByMars(d)' /\ Uncovered(d) => /\ disk'[d].bytes = target[d].installed
                                           /\ InJournal(d, target[d])
            BY <1>0, <1>9, <2>2, <2>6, <3>1 DEF WriteFile, Adopts, ApplyInv, ByMars, Uncovered, Exposed, TypeOK
        <3>4. Accounted(d)' /\ PlanInv(d)'
            BY <1>0, <2>1, <2>2, <2>3, <3>1, <3>3 DEF Accounted, PlanInv, Attributed
        <3>5. ApplyInv(d)'
            <4>1. cur' = d /\ disk'[d].by \notin {"adopted", "user"} /\ Uncovered(d) => InJournal(d, target[d])
                BY <1>0, <1>9, <2>2, <2>6, <3>1 DEF WriteFile, Adopts, ApplyInv, Uncovered, Exposed, TypeOK
            <4>2. d \in ToWrite \ done' /\ Uncovered(d) /\ d \notin touched /\ oldLock[d] # NoRec
                      => InJournal(d, target[d])
                BY <1>0, <2>2, <3>1 DEF ApplyInv
            <4>3. cur' = d => d \in DirDest
                BY <1>0, <1>9, <2>2, <3>1 DEF WriteFile, ApplyInv
            <4>4. Journaled(d) => InJournal(d, target[d])
                BY <1>0, <2>2, <3>1 DEF ApplyInv
            <4> QED BY <2>1, <2>2, <2>3, <3>1, <3>2, <4>1, <4>2, <4>3, <4>4 DEF ApplyInv
        <3> QED
            BY <2>2, <3>4, <3>5, <1>0, <2>1, <2>3 DEF DInv, LoadedInv, ClaimInv, LockedInv, Before
    <2> QED BY <2>5, <2>6
<1>10. ASSUME NEW e \in Dest, StashDir(e)
      PROVE  DInv(d)'
    <2>1. UNCHANGED <<lockFile, intent, oldLock, target, plan, touched>>
        BY <1>10 DEF StashDir
    <2>2. pc = "applying" /\ pc' = "applying"
        BY <1>10 DEF StashDir
    <2>3. /\ Published(d)' <=> Published(d)
          /\ Uncovered(d)' <=> Uncovered(d)
          /\ ToWrite' = ToWrite
          /\ Exposed(d)' <=> Exposed(d)
          /\ Journaled(d)' <=> Journaled(d)
          /\ \A v : InJournal(d, v)' <=> InJournal(d, v)
          /\ \A b : Attributed(d, b)' <=> Attributed(d, b)
        BY <2>1 DEF Published, Uncovered, Exposed, Journaled, ToWrite, InJournal, Attributed
    <2>4. target[d] \in MaybeRecord
        BY <1>0 DEF TypeOK, Target
    <2>5. CASE d # e
        <3>1. /\ disk'[d] = disk[d] /\ old'[d] = old[d]
              /\ d \in done' <=> d \in done
              /\ cur' = d => cur = d
              /\ cur = d => cur' = d
            BY <1>0, <1>10, <2>5, SentinelAssumption DEF StashDir, TypeOK
        <3> QED
            BY <1>0, <2>1, <2>2, <2>3, <3>1
            DEF DInv, Accounted, ByMars, LoadedInv, ClaimInv, PlanInv, ApplyInv, LockedInv, Before
    <2>6. CASE d = e
        <3>1. Accounted(d)' /\ PlanInv(d)'
            BY <1>0, <1>10, <2>1, <2>2, <2>3, <2>4, <2>6
            DEF StashDir, Accounted, PlanInv, ApplyInv, ByMars, Attributed, InJournal,
                Uncovered, ToWrite, ToRemove, MaybeRecord, TypeOK
        <3>2. ApplyInv(d)'
            BY <1>0, <1>10, <2>1, <2>2, <2>3, <2>4, <2>6, SentinelAssumption
            DEF StashDir, Accounted, ApplyInv, ByMars, Uncovered, ToWrite, ToRemove, TypeOK
        <3> QED
            BY <2>2, <3>1, <3>2, <1>0, <2>1, <2>3 DEF DInv, LoadedInv, ClaimInv, LockedInv, Before
    <2> QED BY <2>5, <2>6
<1>11. ASSUME NEW e \in Dest, PlaceDir(e)
      PROVE  DInv(d)'
    <2>1. UNCHANGED <<lockFile, intent, oldLock, target, plan, touched>>
        BY <1>11 DEF PlaceDir
    <2>2. pc = "applying" /\ pc' = "applying"
        BY <1>11 DEF PlaceDir
    <2>3. /\ Published(d)' <=> Published(d)
          /\ Uncovered(d)' <=> Uncovered(d)
          /\ ToWrite' = ToWrite
          /\ Exposed(d)' <=> Exposed(d)
          /\ Journaled(d)' <=> Journaled(d)
          /\ \A v : InJournal(d, v)' <=> InJournal(d, v)
          /\ \A b : Attributed(d, b)' <=> Attributed(d, b)
        BY <2>1 DEF Published, Uncovered, Exposed, Journaled, ToWrite, InJournal, Attributed
    <2>4. target[d] \in MaybeRecord
        BY <1>0 DEF TypeOK, Target
    <2>5. CASE d # e
        <3>1. /\ disk'[d] = disk[d] /\ old'[d] = old[d]
              /\ d \in done' <=> d \in done
              /\ cur' = d => cur = d
              /\ cur = d => cur' = d
            BY <1>0, <1>11, <2>5, SentinelAssumption DEF PlaceDir, TypeOK
        <3> QED
            BY <1>0, <2>1, <2>2, <2>3, <3>1
            DEF DInv, Accounted, ByMars, LoadedInv, ClaimInv, PlanInv, ApplyInv, LockedInv, Before
    <2>6. CASE d = e
        <3>1. /\ d \in ToWrite \ done /\ d \in DirDest
              /\ plan[d] \in {"install", "overwrite"} /\ target[d] \in Record
            BY <1>0, <1>11, <2>2, <2>4, <2>6 DEF PlaceDir, ToWrite, PlanInv, MaybeRecord
        <3>2. disk'[d] # Absent
            BY <1>0, <1>11, <2>6, <3>1, SentinelAssumption DEF PlaceDir, TypeOK, Record
        <3>3. ByMars(d)' /\ Uncovered(d) => /\ disk'[d].bytes = target[d].installed
                                           /\ InJournal(d, target[d])
            BY <1>0, <1>11, <2>2, <2>6, <3>1 DEF PlaceDir, Adopts, ApplyInv, ByMars, Uncovered, Exposed, TypeOK
        <3>4. Accounted(d)' /\ PlanInv(d)'
            BY <1>0, <2>1, <2>2, <2>3, <3>1, <3>3 DEF Accounted, PlanInv, Attributed
        <3>5. ApplyInv(d)'
            <4>1. cur' = d /\ disk'[d].by \notin {"adopted", "user"} /\ Uncovered(d) => InJournal(d, target[d])
                BY <1>0, <1>11, <2>2, <2>6, <3>1 DEF PlaceDir, Adopts, ApplyInv, Uncovered, Exposed, TypeOK
            <4>2. d \in ToWrite \ done' /\ Uncovered(d) /\ d \notin touched /\ oldLock[d] # NoRec
                      => InJournal(d, target[d])
                BY <1>0, <2>2, <3>1 DEF ApplyInv
            <4>3. cur' = d => d \in DirDest
                BY <1>0, <1>11, <2>2, <3>1 DEF PlaceDir, ApplyInv
            <4>4. Journaled(d) => InJournal(d, target[d])
                BY <1>0, <2>2, <3>1 DEF ApplyInv
            <4> QED BY <2>1, <2>2, <2>3, <3>1, <3>2, <4>1, <4>2, <4>3, <4>4 DEF ApplyInv
        <3> QED
            BY <2>2, <3>4, <3>5, <1>0, <2>1, <2>3 DEF DInv, LoadedInv, ClaimInv, LockedInv, Before
    <2> QED BY <2>5, <2>6
<1>12. ASSUME NEW e \in Dest, RewriteSkill(e)
      PROVE  DInv(d)'
    <2>1. UNCHANGED <<lockFile, intent, oldLock, target, plan, touched>>
        BY <1>12 DEF RewriteSkill
    <2>2. pc = "applying" /\ pc' = "applying"
        BY <1>12 DEF RewriteSkill
    <2>3. /\ Published(d)' <=> Published(d)
          /\ Uncovered(d)' <=> Uncovered(d)
          /\ ToWrite' = ToWrite
          /\ Exposed(d)' <=> Exposed(d)
          /\ Journaled(d)' <=> Journaled(d)
          /\ \A v : InJournal(d, v)' <=> InJournal(d, v)
          /\ \A b : Attributed(d, b)' <=> Attributed(d, b)
        BY <2>1 DEF Published, Uncovered, Exposed, Journaled, ToWrite, InJournal, Attributed
    <2>4. target[d] \in MaybeRecord
        BY <1>0 DEF TypeOK, Target
    <2>5. CASE d # e
        <3>1. /\ disk'[d] = disk[d] /\ old'[d] = old[d]
              /\ d \in done' <=> d \in done
              /\ cur' = d => cur = d
              /\ cur = d => cur' = d
            BY <1>0, <1>12, <2>5, SentinelAssumption DEF RewriteSkill, TypeOK
        <3> QED
            BY <1>0, <2>1, <2>2, <2>3, <3>1
            DEF DInv, Accounted, ByMars, LoadedInv, ClaimInv, PlanInv, ApplyInv, LockedInv, Before
    <2>6. CASE d = e
        <3>1. /\ d \in ToWrite \ done /\ d \in DirDest
              /\ plan[d] \in {"install", "overwrite"} /\ target[d] \in Record
            BY <1>0, <1>12, <2>2, <2>4, <2>6 DEF RewriteSkill, ToWrite, PlanInv, MaybeRecord
        <3>2. disk'[d] # Absent
            BY <1>0, <1>12, <2>6, <3>1, SentinelAssumption DEF RewriteSkill, TypeOK, Record
        <3>3. ByMars(d)' /\ Uncovered(d) => /\ disk'[d].bytes = target[d].installed
                                           /\ InJournal(d, target[d])
            BY <1>0, <1>12, <2>2, <2>6, <3>1 DEF RewriteSkill, ApplyInv, ByMars, Uncovered, Exposed, TypeOK
        <3>4. Accounted(d)' /\ PlanInv(d)'
            BY <1>0, <2>1, <2>2, <2>3, <3>1, <3>3 DEF Accounted, PlanInv, Attributed
        <3>5. ApplyInv(d)'
            <4>1. cur' = d /\ disk'[d].by \notin {"adopted", "user"} /\ Uncovered(d) => InJournal(d, target[d])
                BY <1>0, <1>12, <2>2, <2>6, <3>1 DEF RewriteSkill, ApplyInv, Uncovered, TypeOK
            <4>2. d \in ToWrite \ done' /\ Uncovered(d) /\ d \notin touched /\ oldLock[d] # NoRec
                      => InJournal(d, target[d])
                BY <1>0, <2>2, <3>1 DEF ApplyInv
            <4>3. cur' = d => d \in DirDest
                BY <1>0, <1>12, <2>2, <3>1 DEF RewriteSkill, ApplyInv
            <4>4. Journaled(d) => InJournal(d, target[d])
                BY <1>0, <2>2, <3>1 DEF ApplyInv
            <4> QED BY <2>1, <2>2, <2>3, <3>1, <3>2, <4>1, <4>2, <4>3, <4>4 DEF ApplyInv
        <3> QED
            BY <2>2, <3>4, <3>5, <1>0, <2>1, <2>3 DEF DInv, LoadedInv, ClaimInv, LockedInv, Before
    <2> QED BY <2>5, <2>6
<1>13. ASSUME NEW e \in Dest, RemoveOrphan(e)
      PROVE  DInv(d)'
    <2>1. UNCHANGED <<lockFile, intent, oldLock, target, plan, touched>>
        BY <1>13 DEF RemoveOrphan
    <2>2. pc = "applying" /\ pc' = "applying"
        BY <1>13 DEF RemoveOrphan
    <2>3. /\ Published(d)' <=> Published(d)
          /\ Uncovered(d)' <=> Uncovered(d)
          /\ ToWrite' = ToWrite
          /\ Exposed(d)' <=> Exposed(d)
          /\ Journaled(d)' <=> Journaled(d)
          /\ \A v : InJournal(d, v)' <=> InJournal(d, v)
          /\ \A b : Attributed(d, b)' <=> Attributed(d, b)
        BY <2>1 DEF Published, Uncovered, Exposed, Journaled, ToWrite, InJournal, Attributed
    <2>4. target[d] \in MaybeRecord
        BY <1>0 DEF TypeOK, Target
    <2>5. CASE d # e
        <3>1. /\ disk'[d] = disk[d] /\ old'[d] = old[d]
              /\ d \in done' <=> d \in done
              /\ cur' = d => cur = d
              /\ cur = d => cur' = d
            BY <1>0, <1>13, <2>5, SentinelAssumption DEF RemoveOrphan, TypeOK
        <3> QED
            BY <1>0, <2>1, <2>2, <2>3, <3>1
            DEF DInv, Accounted, ByMars, LoadedInv, ClaimInv, PlanInv, ApplyInv, LockedInv, Before
    <2>6. CASE d = e
        <3>1. Accounted(d)' /\ PlanInv(d)'
            BY <1>0, <1>13, <2>1, <2>2, <2>3, <2>4, <2>6
            DEF RemoveOrphan, Accounted, PlanInv, ApplyInv, ByMars, Attributed, InJournal,
                Uncovered, ToWrite, ToRemove, MaybeRecord, TypeOK
        <3>2. ApplyInv(d)'
            BY <1>0, <1>13, <2>1, <2>2, <2>3, <2>4, <2>6, SentinelAssumption
            DEF RemoveOrphan, Accounted, ApplyInv, ByMars, Uncovered, ToWrite, ToRemove, TypeOK
        <3> QED
            BY <2>2, <3>1, <3>2, <1>0, <2>1, <2>3 DEF DInv, LoadedInv, ClaimInv, LockedInv, Before
    <2> QED BY <2>5, <2>6
<1>22. ASSUME NEW e \in Dest, TearOrphan(e)
      PROVE  DInv(d)'
    <2>1. UNCHANGED <<lockFile, intent, oldLock, target, plan, touched>>
        BY <1>22 DEF TearOrphan, session
    <2>2. pc = "applying" /\ pc' = "applying"
        BY <1>22 DEF TearOrphan, session
    <2>3. /\ Published(d)' <=> Published(d)
          /\ Uncovered(d)' <=> Uncovered(d)
          /\ ToWrite' = ToWrite
          /\ Exposed(d)' <=> Exposed(d)
          /\ Journaled(d)' <=> Journaled(d)
          /\ \A v : InJournal(d, v)' <=> InJournal(d, v)
          /\ \A b : Attributed(d, b)' <=> Attributed(d, b)
        BY <2>1 DEF Published, Uncovered, Exposed, Journaled, ToWrite, InJournal, Attributed
    <2>4. target[d] \in MaybeRecord
        BY <1>0 DEF TypeOK, Target
    <2>5. CASE d # e
        <3>1. /\ disk'[d] = disk[d] /\ old'[d] = old[d]
              /\ d \in done' <=> d \in done
              /\ cur' = d => cur = d
              /\ cur = d => cur' = d
            BY <1>0, <1>22, <2>5, SentinelAssumption DEF TearOrphan, session, TypeOK
        <3> QED
            BY <1>0, <2>1, <2>2, <2>3, <3>1
            DEF DInv, Accounted, ByMars, LoadedInv, ClaimInv, PlanInv, ApplyInv, LockedInv, Before
    <2>6. CASE d = e
        <3>1. /\ plan[d] = "remove" /\ d \notin done /\ cur' = cur /\ old' = old /\ done' = done
              /\ disk[d] # Absent /\ disk'[d] = [disk[d] EXCEPT !.bytes = Torn]
            BY <1>0, <1>22, <2>6 DEF TearOrphan, session, ToRemove, TypeOK
        <3>2. disk[d] \in File
            BY <1>0, <3>1 DEF TypeOK, MaybeFile
        <3>3. disk'[d].bytes = Torn /\ disk'[d].by = disk[d].by
            BY <3>1, <3>2 DEF File
        <3>4. Accounted(d)'
            BY <1>0, <2>3, <3>1, <3>3 DEF Accounted, ByMars, Attributed
        <3>5. PlanInv(d)' /\ ApplyInv(d)'
            BY <1>0, <2>1, <2>2, <2>3, <3>1 DEF PlanInv, ApplyInv, ToWrite
        <3> QED
            BY <1>0, <2>1, <2>2, <2>3, <3>4, <3>5
            DEF DInv, LoadedInv, ClaimInv, LockedInv, Before
    <2> QED BY <2>5, <2>6
<1>14. CASE WriteLock
    <2>1. pc = "applying" /\ pc' = "locked" /\ lockFile' = BuiltLock
        BY <1>14 DEF WriteLock
    <2>2. LockedInv(d)'
        <3>1. SUFFICES ASSUME ByMars(d)', Uncovered(d)'
                       PROVE  FALSE
            BY DEF LockedInv
        <3>2. BuiltLock[d] = NoRec /\ Exposed(d)
            <4>1. lockFile' \in Target
                BY <1>0, <2>1 DEF TypeOK, BuiltLock, Target, MaybeRecord
            <4>2. Exposed(d)
                BY <1>14, <3>1 DEF WriteLock, Uncovered, Exposed, Journaled
            <4> QED BY <2>1, <3>1, <4>1, <4>2 DEF Uncovered, Published
        <3>3. ByMars(d)
            BY <1>14, <3>1, <3>2 DEF WriteLock, ByMars
        <3>4. plan[d] \in Act
            BY <1>0 DEF TypeOK
        <3>5. plan[d] \in {"none", "remove"}
            BY <1>0, <2>1, <3>2, <3>4 DEF BuiltLock, PlanInv, Act
        <3>6. plan[d] = "remove" => d \in done
            BY <1>14 DEF WriteLock, ToRemove
        <3> QED BY <1>0, <2>1, <3>2, <3>3, <3>5, <3>6 DEF PlanInv, ApplyInv
    <2>3. Accounted(d)'
        BY <2>1, <2>2 DEF Accounted, LockedInv
    <2> QED
        BY <2>1, <2>2, <2>3 DEF DInv, LoadedInv, ClaimInv, PlanInv, ApplyInv, Before
<1>15. CASE Complete
    <2>1. EndSession /\ UNCHANGED <<disk, lockFile>> /\ pc = "locked"
        BY <1>15 DEF Complete
    <2>2. Accounted(d)'
        BY <1>0, <1>15, <2>1
        DEF Complete, Accounted, LockedInv, ByMars, Uncovered, Exposed, Journaled, Published
    <2> QED BY <2>1, <2>2, EndSessionDInv
<1>16. ASSUME NEW e \in Dest, RollbackDir(e)
       PROVE  DInv(d)'
    <2>1. EndSession /\ UNCHANGED <<lockFile, intent>> /\ pc = "applying"
        BY <1>16 DEF RollbackDir
    <2>2. /\ Uncovered(d)' <=> Uncovered(d)
          /\ \A b : Attributed(d, b)' <=> Attributed(d, b)
        BY <2>1 DEF Published, Uncovered, Exposed, Journaled, InJournal, Attributed
    <2>3. Accounted(d)'
        <3>1. CASE disk'[d] = disk[d]
            BY <1>0, <2>2, <3>1 DEF Accounted, ByMars
        <3>2. CASE disk'[d] # disk[d]
            <4>1. d = e /\ disk[d] = Absent /\ disk'[d] = old[d] /\ cur = d /\ old[d] # Absent
                BY <1>0, <1>16, <3>2 DEF RollbackDir, TypeOK
            <4> QED BY <1>0, <2>1, <2>2, <4>1 DEF Accounted, ByMars, ApplyInv
        <3> QED BY <3>1, <3>2
    <2> QED BY <2>1, <2>3, EndSessionDInv
<1>17. CASE Interrupt
    <2>1. EndSession /\ UNCHANGED <<disk, lockFile, intent>>
        BY <1>17 DEF Interrupt
    <2> QED BY <1>0, <2>1, SameStore, EndSessionDInv DEF DInv
<1>18. ASSUME NEW e \in Dest, NEW f \in UserFiles, UserEdit(e, f)
       PROVE  DInv(d)'
    <2>1. UNCHANGED <<old, lockFile, intent, pc, oldLock, target, plan, done, cur>>
        BY <1>18 DEF UserEdit, session
    <2>2. /\ Published(d)' <=> Published(d)
          /\ Uncovered(d)' <=> Uncovered(d)
          /\ ToWrite' = ToWrite
          /\ Exposed(d)' <=> Exposed(d)
          /\ Journaled(d)' <=> Journaled(d)
          /\ \A v : InJournal(d, v)' <=> InJournal(d, v)
          /\ \A b : Attributed(d, b)' <=> Attributed(d, b)
        BY <2>1 DEF Published, Uncovered, Exposed, Journaled, ToWrite, InJournal, Attributed
    <2>3. CASE d # e
        <3>1. disk'[d] = disk[d] /\ (d \in touched' => d \in touched)
            BY <1>0, <1>18, <2>3 DEF UserEdit, TypeOK
        <3>2. pc # "idle" => (d \in touched <=> d \in touched')
            BY <1>18, <2>3 DEF UserEdit
        <3> QED
            BY <1>0, <2>1, <2>2, <3>1, <3>2
            DEF DInv, Accounted, ByMars, LoadedInv, ClaimInv, PlanInv, ApplyInv, LockedInv, Before
    <2>4. CASE d = e
        <3>1. disk'[d] = f /\ (f = Absent \/ f.by = "user")
            BY <1>0, <1>18, <2>4, SentinelAssumption DEF UserEdit, UserFiles, TypeOK
        <3>2. ~ByMars(d)' /\ (pc # "idle" => d \in touched')
            BY <1>18, <2>4, <3>1 DEF ByMars, UserEdit
        <3>3. ApplyInv(d)'
            <4>1. pc' = "applying" => ~(cur = d /\ disk[d] # Absent)
                BY <1>18, <2>4 DEF UserEdit
            <4> QED BY <1>0, <2>1, <2>2, <3>1, <3>2, <4>1 DEF ApplyInv
        <3> QED
            BY <1>0, <2>1, <2>2, <3>1, <3>2, <3>3
            DEF DInv, Accounted, LoadedInv, ClaimInv, PlanInv, LockedInv, Before
    <2> QED BY <2>3, <2>4
<1>19. ASSUME NEW l \in Checkouts, Checkout(l)
       PROVE  DInv(d)'
    <2>1. pc = "idle" /\ pc' = "idle" /\ ~ByMars(d)'
        BY <1>19 DEF Checkout, session, By, ByMars
    <2> QED
        BY <2>1 DEF DInv, Accounted, LoadedInv, ClaimInv, PlanInv, ApplyInv, LockedInv, Before
<1>20. ASSUME NEW c \in Configs, Reconfigure(c)
       PROVE  DInv(d)'
    BY <1>0, <1>20, SameStore
    DEF Reconfigure, session, DInv, LoadedInv, ClaimInv, PlanInv, ApplyInv, LockedInv, Before
<1>21. CASE UNCHANGED vars
    <2>1. UNCHANGED <<disk, old, lockFile, intent, pc, oldLock, target, plan, done, cur, touched>>
        BY <1>21 DEF vars, session
    <2> QED
        BY <1>0, <2>1, SameStore
        DEF DInv, LoadedInv, ClaimInv, PlanInv, ApplyInv, LockedInv, IdleInv,
            Before, ToWrite
<1> QED
    BY <1>1, <1>2, <1>3, <1>4, <1>5, <1>6, <1>7, <1>8, <1>9, <1>10, <1>11, <1>12,
       <1>13, <1>14, <1>15, <1>16, <1>17, <1>18, <1>19, <1>20, <1>21, <1>22
    DEF Next, Mars, User, Proceed

LEMMA IdleInvNext ==
    ASSUME IdleInv, [Next]_vars
    PROVE  IdleInv'
<1> SUFFICES ASSUME pc' = "idle"
             PROVE  cur' = NoDest /\ touched' = {} /\ done' = {}
    BY DEF IdleInv
<1>1. CASE EndSession
    BY <1>1 DEF EndSession
<1>2. CASE pc = "idle" /\ UNCHANGED session /\ touched' \in {touched, {}}
    BY <1>2 DEF IdleInv, session
<1>3. ASSUME NEW d \in Dest, NEW f \in UserFiles, UserEdit(d, f)
      PROVE  pc = "idle" /\ UNCHANGED session /\ touched' \in {touched, {}}
    BY <1>3 DEF UserEdit, session
<1>4. CASE User \/ UNCHANGED vars
    BY <1>2, <1>3, <1>4 DEF User, Checkout, Reconfigure, vars, session
<1>5. CASE Mars
    BY <1>1, <1>5
    DEF Mars, Proceed, LoadConfig, RecoveryHalt, BuildTarget, RejectTarget, CreatePlan,
        RejectPlan, PersistMutation, Prepare, WriteFile, StashDir, PlaceDir, RewriteSkill,
        TearOrphan, session, RemoveOrphan, WriteLock, Complete, RollbackDir, Interrupt
<1> QED BY <1>4, <1>5 DEF Next

LEMMA WInvSteps == WInv /\ [Next]_vars => WInv'
<1> SUFFICES ASSUME WInv, [Next]_vars
             PROVE  WInv'
    OBVIOUS
<1>1. TInv' /\ IdleInv'
    BY NextType, IdleInvNext DEF WInv
<1>2. \A d \in Dest : DInv(d)'
    BY WInvNext
<1> QED BY <1>1, <1>2 DEF WInv

(* Whatever the crashes, the failures and the user's edits, the bytes Mars  *)
(* wrote under .mars/ stay attributable: to mars.lock, to provided.lock, or *)
(* to a journal that recovery.rs `recover` accepts; the remains of a        *)
(* directory it was removing are refused, never taken for the user's.       *)
THEOREM Accounts == Spec => []WritesAccounted
<1>1. WInv => WritesAccounted
    BY EvidenceIsJournaled, TornIsRefused
    DEF WInv, TInv, DInv, Accounted, ByMars, Uncovered, Exposed, WritesAccounted
<1> QED BY WInvInit, WInvSteps, <1>1, PTL DEF Spec

(* The next sync is refused only for bytes that Mars did not write, or that *)
(* are half of a renamed skill or of a directory that was being removed:    *)
(* what is whole recovery.rs `recover` accepts, provided.lock or not.       *)
THEOREM RetryAccepted == Spec => []RetryNotBlocked
<1>1. WInv => RetryNotBlocked
    BY EvidenceIsJournaled
    DEF WInv, TInv, DInv, Accounted, ByMars, Uncovered, Exposed, Pending, RetryNotBlocked
<1> QED BY WInvInit, WInvSteps, <1>1, PTL DEF Spec

-----------------------------------------------------------------------------
(* A frozen session                                                        *)

(* Behind FrozenWritesNothing: a frozen session recovered nothing, wants   *)
(* the configuration that is there, and plans no write.                    *)
FInv == request.frozen /\ pc # "idle" =>
    /\ want = config
    /\ pc # "locked" => oldLock = LoadedLock /\ cur = NoDest
    /\ pc \in {"planned", "persisted", "applying"} =>
           \A d \in Dest : /\ plan[d] \in {"none", "skip", "keep"}
                           /\ plan[d] = "none" => oldLock[d] = NoRec

LEMMA FInvNext ==
    ASSUME TInv, IdleInv, FInv, [Next]_vars
    PROVE  FInv'
<1>1. ASSUME NEW r \in Requests, NEW w \in Configs, LoadConfig(r, w)
      PROVE  FInv'
    <2>1. (\A d \in Dest : ~Pending(d)) => Recovered = LoadedLock
        BY DEF Recovered, LoadedLock, Target, Nothing
    <2>2. /\ UNCHANGED <<config, lockFile, cur>> /\ pc = "idle" /\ pc' = "loaded"
          /\ request' = r /\ want' = w /\ oldLock' = Recovered
          /\ r.frozen => w = config /\ \A d \in Dest : ~Pending(d)
        BY <1>1 DEF LoadConfig
    <2>3. LoadedLock' = LoadedLock
        BY <2>2 DEF LoadedLock
    <2> QED BY <2>1, <2>2, <2>3 DEF FInv, IdleInv
<1>2. CASE EndSession
    BY <1>2 DEF EndSession, FInv
<1>3. CASE BuildTarget
    BY <1>3 DEF BuildTarget, FInv, LoadedLock
<1>4. CASE CreatePlan
    <2>1. \A d \in Dest : NextPlan[d] = "none" => oldLock[d] = NoRec
        BY DEF NextPlan, ActionFor, ActionForOwned
    <2> QED BY <1>4, <2>1 DEF CreatePlan, FrozenGate, FInv, LoadedLock
<1>5. CASE PersistMutation \/ Prepare
    BY <1>5 DEF PersistMutation, Prepare, FInv, LoadedLock
<1>6. ASSUME NEW d \in Dest,
             WriteFile(d) \/ StashDir(d) \/ PlaceDir(d) \/ RewriteSkill(d) \/ TearOrphan(d) \/ RemoveOrphan(d)
      PROVE  FInv'
    <2>1. ~request.frozen /\ request' = request
        BY <1>6 DEF WriteFile, StashDir, PlaceDir, RewriteSkill, TearOrphan, session, RemoveOrphan, FInv,
           ToWrite, ToRemove
    <2> QED BY <2>1 DEF FInv
<1>7. CASE WriteLock
    BY <1>7 DEF WriteLock, FInv
<1>8. ASSUME NEW d \in Dest, NEW f \in UserFiles, UserEdit(d, f)
      PROVE  FInv'
    BY <1>8 DEF UserEdit, FInv, session, LoadedLock
<1>9. ASSUME pc = "idle", UNCHANGED session
      PROVE  FInv'
    BY <1>9 DEF FInv, session
<1>10. CASE UNCHANGED vars
    BY <1>10 DEF FInv, vars, session, LoadedLock
<1> QED
    BY <1>1, <1>2, <1>3, <1>4, <1>5, <1>6, <1>7, <1>8, <1>9, <1>10
    DEF Next, Mars, User, Proceed, RecoveryHalt, RejectTarget, RejectPlan, Complete,
        RollbackDir, Interrupt, Checkout, Reconfigure

FrozenStep ==
    request.frozen /\ edits' = edits =>
        /\ \A d \in Dest : BytesOf(disk'[d]) = BytesOf(disk[d])
        /\ old' = old /\ config' = config
        /\ LoadedLock' = LoadedLock

LEMMA FrozenSteps ==
    ASSUME TInv, FInv, [Next]_vars
    PROVE  FrozenStep
<1> SUFFICES ASSUME request.frozen, edits' = edits
             PROVE  FrozenStep
    BY DEF FrozenStep
<1>1. CASE UNCHANGED <<disk, old, lockFile>> /\ config' \in {config, want} /\ (pc = "idle" => config' = config)
    BY <1>1 DEF FrozenStep, FInv, LoadedLock
<1>2. CASE WriteLock
    <2>1. pc = "applying" /\ lockFile' = BuiltLock /\ UNCHANGED <<config, old>>
        BY <1>2 DEF WriteLock
    <2>2. /\ oldLock = LoadedLock /\ oldLock \in Target
          /\ \A d \in Dest : /\ plan[d] \in {"none", "skip", "keep"}
                             /\ plan[d] = "none" => oldLock[d] = NoRec
        BY <2>1 DEF FInv, TInv, TypeOK
    <2>3. BuiltLock = oldLock
        BY <2>2 DEF BuiltLock, Target
    <2>4. LoadedLock' = LoadedLock
        BY <2>1, <2>2, <2>3 DEF LoadedLock
    <2>5. \A d \in Dest : BytesOf(disk'[d]) = BytesOf(disk[d])
        BY <1>2, SentinelAssumption DEF WriteLock, BytesOf, By, TInv, TypeOK, MaybeFile, File, Writers
    <2> QED BY <2>1, <2>4, <2>5 DEF FrozenStep
<1>3. ASSUME NEW d \in Dest,
             \/ WriteFile(d) \/ StashDir(d) \/ PlaceDir(d) \/ RewriteSkill(d)
             \/ TearOrphan(d) \/ RemoveOrphan(d) \/ RollbackDir(d)
      PROVE  FALSE
    BY <1>3, SentinelAssumption DEF WriteFile, StashDir, PlaceDir, RewriteSkill,
       TearOrphan, session, RemoveOrphan, RollbackDir, FInv, ToWrite, ToRemove
<1>4. CASE User
    BY <1>4 DEF User, UserEdit, Checkout, Reconfigure, TInv, TypeOK
<1> QED
    BY <1>1, <1>2, <1>3, <1>4
    DEF Next, Mars, Proceed, vars, session, LoadConfig, RecoveryHalt, BuildTarget,
        RejectTarget, CreatePlan, RejectPlan, PersistMutation, Prepare, Complete, Interrupt

(* --frozen is read-only: no step of a frozen session changes a file under *)
(* .mars/, the configuration or the claims of mars.lock, whatever an       *)
(* interrupted session before it left behind (recovery.rs, sync/mod.rs).   *)
THEOREM FrozenIsReadOnly == Spec => FrozenWritesNothing
<1>1. Init => TInv /\ IdleInv /\ FInv
    BY InitType DEF Init, IdleInv, FInv
<1>2. TInv /\ IdleInv /\ FInv /\ [Next]_vars => (TInv /\ IdleInv /\ FInv)'
    BY NextType, IdleInvNext, FInvNext
<1>3. TInv /\ FInv /\ [Next]_vars => [FrozenStep]_vars
    BY FrozenSteps
<1>4. FrozenWritesNothing <=> [][FrozenStep]_vars
    BY DEF FrozenWritesNothing, FrozenStep
<1> QED BY <1>1, <1>2, <1>3, <1>4, PTL DEF Spec


-----------------------------------------------------------------------------
(* The user's bytes                                                        *)

(* What entitles Mars to replace the bytes at d.                           *)
Entitled(d) ==
    \/ SameAs(d, target[d]) \/ SameAs(d, oldLock[d])
    \/ d \in Provided
    \/ Published(d) /\ (target[d] = NoRec \/ SourceChanged(d))

(* ... or to finish with a directory it is removing.                       *)
Justified(d) == Entitled(d) \/ (plan[d] = "remove" /\ disk[d].bytes = Torn)

(* The session has left d alone so far, and so has the user.               *)
Untouched(d) == d \notin touched /\ d \notin done /\ cur # d /\ disk[d] # Absent

(* The target leaves out what would land on an unowned path with other     *)
(* bytes, and every planned change of an existing file is justified.       *)
BuiltInv(d) ==
    /\ pc = "built" /\ ~request.force /\ Untouched(d)
    /\ target[d] # NoRec /\ oldLock[d] = NoRec
    => Entitled(d)
PlannedInv(d) ==
    /\ pc \in {"planned", "persisted", "applying"} /\ ~request.force /\ Untouched(d)
    /\ plan[d] \in {"install", "overwrite", "remove"}
    => Justified(d)
UInv == \A d \in Dest : BuiltInv(d) /\ PlannedInv(d)

LEMMA PlanEntitled ==
    ASSUME NEW d \in Dest, LoadedInv(d), ClaimInv(d), BuiltInv(d), pc = "built",
           ~request.force, Untouched(d),
           ActionFor(d) \in {"install", "overwrite", "remove"}
    PROVE  Entitled(d)
<1>1. CASE oldLock[d] = NoRec
    BY <1>1 DEF BuiltInv, ActionFor
<1>2. CASE oldLock[d] # NoRec /\ ~Published(d)
    BY <1>2 DEF LoadedInv, Before, Untouched, Entitled, SameAs
<1>3. CASE oldLock[d] # NoRec /\ Published(d)
    <2>1. CASE target[d] = NoRec \/ SourceChanged(d)
        BY <1>3, <2>1 DEF Entitled
    <2>2. CASE target[d] # NoRec /\ ~SourceChanged(d)
        <3>1. ~LocalChanged(d)
            BY <1>3, <2>2 DEF ActionFor, ActionForOwned
        <3> QED BY <1>3, <3>1 DEF LocalChanged, Baseline, Untouched, Entitled, SameAs
    <2> QED BY <2>1, <2>2
<1> QED BY <1>1, <1>2, <1>3

(* Nothing that justifies a change moves while d is left alone.            *)
LEMMA SameEntitlement ==
    ASSUME NEW d \in Dest, disk'[d] = disk[d],
           UNCHANGED <<lockFile, target, oldLock>>
    PROVE  Entitled(d) <=> Entitled(d)'
BY DEF Entitled, SameAs, Published, SourceChanged

LEMMA SameJustification ==
    ASSUME NEW d \in Dest, disk'[d] = disk[d],
           UNCHANGED <<lockFile, target, oldLock, plan>>
    PROVE  Justified(d) <=> Justified(d)'
BY SameEntitlement DEF Justified

LEMMA UInvNext ==
    ASSUME WInv, UInv, [Next]_vars, NEW d \in Dest
    PROVE  BuiltInv(d)' /\ PlannedInv(d)'
<1>0. /\ TypeOK /\ LoadedInv(d) /\ ClaimInv(d) /\ BuiltInv(d) /\ PlannedInv(d)
    BY DEF WInv, TInv, DInv, UInv
<1>1. CASE pc' \in {"idle", "loaded", "locked"}
    BY <1>1 DEF BuiltInv, PlannedInv
<1>2. CASE BuildTarget
    <2>1. UNCHANGED <<disk, lockFile, oldLock, touched, done, cur, request, want>>
        BY <1>2 DEF BuildTarget
    <2>2. ASSUME ~request.force, Untouched(d), oldLock[d] = NoRec, target'[d] # NoRec
          PROVE  Entitled(d)'
        <3>1. ~SelfBlocked(d) /\ ~UnmanagedCollision(d) /\ target'[d] = want[d]
            BY <1>2, <2>2 DEF BuildTarget
        <3>2. d \in Provided \/ disk[d].bytes = target'[d].source
            BY <2>2, <3>1 DEF SelfBlocked, UnmanagedCollision, Owns, Untouched
        <3> QED BY <2>1, <2>2, <3>2 DEF Entitled, SameAs
    <2> QED BY <1>2, <2>1, <2>2 DEF BuildTarget, BuiltInv, PlannedInv, Untouched
<1>3. CASE CreatePlan
    <2>1. /\ UNCHANGED <<disk, lockFile, oldLock, target, touched, done, cur, request>>
          /\ pc = "built" /\ pc' = "planned" /\ plan'[d] = ActionFor(d)
        BY <1>3 DEF CreatePlan, NextPlan
    <2> QED
        BY <1>0, <2>1, PlanEntitled, SameEntitlement
        DEF BuiltInv, PlannedInv, Justified, Untouched
<1>4. CASE PersistMutation \/ Prepare
    BY <1>0, <1>4, SameJustification
    DEF PersistMutation, Prepare, BuiltInv, PlannedInv, Untouched
<1>5. ASSUME NEW e \in Dest,
             WriteFile(e) \/ StashDir(e) \/ PlaceDir(e) \/ RewriteSkill(e) \/ TearOrphan(e) \/ RemoveOrphan(e)
      PROVE  BuiltInv(d)' /\ PlannedInv(d)'
    <2>1. /\ UNCHANGED <<lockFile, oldLock, target, plan, touched, request>>
          /\ pc = "applying" /\ pc' = "applying" /\ done \subseteq done'
        BY <1>5 DEF WriteFile, StashDir, PlaceDir, RewriteSkill, TearOrphan, session, RemoveOrphan
    <2>2. CASE d = e
        <3>1. CASE TearOrphan(e)
            <4>1. Justified(d)'
                BY <1>0, <2>1, <2>2, <3>1
                DEF TearOrphan, ToRemove, Justified, TypeOK, MaybeFile, File
            <4> QED BY <2>1, <4>1 DEF BuiltInv, PlannedInv
        <3>2. CASE ~TearOrphan(e)
            <4>1. ~Untouched(d)'
                BY <1>0, <1>5, <2>2, <3>2, SentinelAssumption
                DEF WriteFile, StashDir, PlaceDir, RewriteSkill, RemoveOrphan, Untouched, TypeOK
            <4> QED BY <2>1, <4>1 DEF BuiltInv, PlannedInv
        <3> QED BY <3>1, <3>2
    <2>3. CASE d # e
        <3>1. disk'[d] = disk[d] /\ (cur = d => cur' = d)
            BY <1>0, <1>5, <2>3, SentinelAssumption
            DEF WriteFile, StashDir, PlaceDir, RewriteSkill, TearOrphan, session, RemoveOrphan, TypeOK
        <3>2. Untouched(d)' => Untouched(d)
            BY <2>1, <3>1 DEF Untouched
        <3> QED BY <1>0, <2>1, <3>1, <3>2, SameJustification DEF BuiltInv, PlannedInv
    <2> QED BY <2>2, <2>3
<1>6. ASSUME NEW e \in Dest, NEW f \in UserFiles, UserEdit(e, f)
      PROVE  BuiltInv(d)' /\ PlannedInv(d)'
    <2>1. UNCHANGED <<lockFile, oldLock, target, plan, request, pc, done, cur>>
        BY <1>6 DEF UserEdit, session
    <2>2. CASE d = e
        BY <1>6, <2>1, <2>2 DEF UserEdit, BuiltInv, PlannedInv, Untouched
    <2>3. CASE d # e
        <3>1. disk'[d] = disk[d]
            BY <1>0, <1>6, <2>3 DEF UserEdit, TypeOK
        <3>2. pc # "idle" => (Untouched(d)' => Untouched(d))
            BY <1>6, <2>1, <3>1 DEF UserEdit, Untouched
        <3>3. (Entitled(d) <=> Entitled(d)') /\ (Justified(d) <=> Justified(d)')
            BY <2>1, <3>1, SameEntitlement, SameJustification
        <3> QED BY <1>0, <2>1, <3>2, <3>3 DEF BuiltInv, PlannedInv
    <2> QED BY <2>2, <2>3
<1>7. CASE UNCHANGED vars
    <2>1. (Entitled(d) <=> Entitled(d)') /\ (Justified(d) <=> Justified(d)')
        BY <1>7, SameEntitlement, SameJustification DEF vars, session
    <2> QED BY <1>0, <1>7, <2>1 DEF vars, session, BuiltInv, PlannedInv, Untouched
<1> QED
    BY <1>1, <1>2, <1>3, <1>4, <1>5, <1>6, <1>7
    DEF Next, Mars, User, Proceed, LoadConfig, RecoveryHalt, RejectTarget, RejectPlan,
        WriteLock, Complete, RollbackDir, Interrupt, EndSession, Checkout, Reconfigure, session

SurviveStep == \A d \in Dest :
    Loses(d) /\ ~request.force /\ d \notin touched =>
        \/ SameAs(d, target[d]) \/ SameAs(d, oldLock[d])
        \/ d \in Provided
        \/ Published(d) /\ (target[d] = NoRec \/ SourceChanged(d))
        \/ plan[d] = "remove" /\ disk[d].bytes = Torn

LEMMA SurviveSteps ==
    ASSUME WInv, UInv, [Next]_vars
    PROVE  SurviveStep
<1> SUFFICES ASSUME NEW d \in Dest, Loses(d), ~request.force, d \notin touched
             PROVE  Justified(d)
    BY DEF SurviveStep, Justified, Entitled
<1>0. TypeOK /\ PlannedInv(d) /\ ApplyInv(d)
    BY DEF WInv, TInv, DInv, UInv
<1>1. CASE disk'[d] = disk[d]
    BY <1>1 DEF Loses
<1>2. ASSUME NEW e \in Dest,
             WriteFile(e) \/ StashDir(e) \/ PlaceDir(e) \/ RewriteSkill(e) \/ TearOrphan(e) \/ RemoveOrphan(e)
      PROVE  Justified(d)
    <2>1. CASE e # d
        BY <1>0, <1>1, <1>2, <2>1
        DEF WriteFile, StashDir, PlaceDir, RewriteSkill, TearOrphan, session, RemoveOrphan, TypeOK
    <2>2. CASE e = d
        <3>1. /\ pc = "applying" /\ d \notin done
              /\ plan[d] \in {"install", "overwrite", "remove"}
            BY <1>2, <2>2
            DEF WriteFile, StashDir, PlaceDir, RewriteSkill, TearOrphan, session, RemoveOrphan, ToWrite, ToRemove
        <3>2. cur # d
            BY <1>0, <1>2, <2>2, <3>1, SentinelAssumption
            DEF WriteFile, StashDir, PlaceDir, RewriteSkill, TearOrphan, session, RemoveOrphan, Loses, ApplyInv,
                ToWrite, ToRemove
        <3> QED BY <1>0, <3>1, <3>2 DEF PlannedInv, Untouched, Loses
    <2> QED BY <2>1, <2>2
<1>3. CASE WriteLock
    BY <1>0, <1>3, SentinelAssumption
    DEF WriteLock, Loses, BytesOf, By, TypeOK, MaybeFile, File, Writers
<1>4. ASSUME NEW e \in Dest, RollbackDir(e)
      PROVE  Justified(d)
    BY <1>0, <1>1, <1>4 DEF RollbackDir, Loses, TypeOK
<1>5. CASE User
    BY <1>0, <1>5 DEF User, UserEdit, Checkout, Reconfigure, Loses, TypeOK
<1> QED
    BY <1>1, <1>2, <1>3, <1>4, <1>5
    DEF Next, Mars, Proceed, vars, session, LoadConfig, RecoveryHalt, BuildTarget,
        RejectTarget, CreatePlan, RejectPlan, PersistMutation, Prepare, Complete, Interrupt

(* Without --force no step of Mars takes away bytes the user had put on a  *)
(* canonical path before the session began, except where a published claim *)
(* or the provider's record makes the path Mars's, or the bytes are Mars's *)
(* own (target.rs, local_items.rs, diff.rs, recovery.rs, apply.rs).        *)
THEOREM UserBytesAreSafe == Spec => UserBytesSurvive
<1>1. Init => WInv /\ UInv
    BY WInvInit DEF Init, UInv, BuiltInv, PlannedInv
<1>2. WInv /\ UInv /\ [Next]_vars => (WInv /\ UInv)'
    BY WInvSteps, UInvNext DEF UInv
<1>3. WInv /\ UInv /\ [Next]_vars => [SurviveStep]_vars
    BY SurviveSteps
<1>4. UserBytesSurvive <=> [][SurviveStep]_vars
    BY DEF UserBytesSurvive, SurviveStep
<1> QED BY <1>1, <1>2, <1>3, <1>4, PTL DEF Spec

-----------------------------------------------------------------------------
(* What a session publishes                                                *)

(* What the session has left alone is as the plan saw it, what it has      *)
(* written is as the target says.                                          *)
TruthInv(d) ==
    pc \in {"planned", "persisted", "applying"} /\ d \notin touched =>
        /\ plan[d] \in {"skip", "keep"} => disk[d] # Absent
        /\ plan[d] = "skip" => disk[d].bytes = Baseline(d)
        /\ d \in done \cap ToWrite => /\ disk[d] # Absent
                                      /\ disk[d].bytes = target[d].installed

LEMMA TruthNext ==
    ASSUME WInv, NEW d \in Dest, TruthInv(d), [Next]_vars
    PROVE  TruthInv(d)'
<1>0. TypeOK /\ LoadedInv(d) /\ PlanInv(d)
    BY DEF WInv, TInv, DInv
<1>1. CASE pc' \in {"idle", "loaded", "built", "locked"}
    BY <1>1 DEF TruthInv
<1>2. CASE CreatePlan
    <2>1. /\ UNCHANGED <<disk, oldLock, touched, done, request>>
          /\ done = {} /\ plan'[d] = ActionFor(d)
        BY <1>0, <1>2 DEF CreatePlan, NextPlan, LoadedInv, Before
    <2>2. ActionFor(d) \in {"skip", "keep"} => disk[d] # Absent
        BY DEF ActionFor, ActionForOwned, LocalChanged
    <2>3. ActionFor(d) = "skip" => disk[d].bytes = Baseline(d)
        BY DEF ActionFor, ActionForOwned, LocalChanged
    <2> QED BY <2>1, <2>2, <2>3 DEF TruthInv, Baseline
<1>3. CASE PersistMutation \/ Prepare
    BY <1>3 DEF PersistMutation, Prepare, TruthInv, Baseline, ToWrite
<1>4. ASSUME NEW e \in Dest,
             WriteFile(e) \/ StashDir(e) \/ PlaceDir(e) \/ RewriteSkill(e) \/ TearOrphan(e) \/ RemoveOrphan(e)
      PROVE  TruthInv(d)'
    <2>1. /\ UNCHANGED <<oldLock, target, plan, touched, request>>
          /\ pc = "applying" /\ Baseline(d)' = Baseline(d) /\ ToWrite' = ToWrite
        BY <1>4 DEF WriteFile, StashDir, PlaceDir, RewriteSkill, TearOrphan, session, RemoveOrphan, Baseline, ToWrite
    <2>2. CASE e # d
        <3>1. disk'[d] = disk[d] /\ (d \in done' => d \in done)
            BY <1>0, <1>4, <2>2
            DEF WriteFile, StashDir, PlaceDir, RewriteSkill, TearOrphan, session, RemoveOrphan, TypeOK
        <3> QED BY <2>1, <3>1 DEF TruthInv
    <2>3. CASE e = d
        <3>1. plan[d] \notin {"skip", "keep"}
            BY <1>4, <2>3
            DEF WriteFile, StashDir, PlaceDir, RewriteSkill, TearOrphan, session, RemoveOrphan, ToWrite, ToRemove
        <3>2. ASSUME d \in done', d \in ToWrite
              PROVE  disk'[d] # Absent /\ disk'[d].bytes = target[d].installed
            <4>1. target[d] \in Record
                BY <1>0, <2>1, <3>2 DEF PlanInv, ToWrite, TypeOK, Target, MaybeRecord
            <4>2. target[d].source \in Bytes /\ target[d].installed \in Bytes
                BY <4>1 DEF Record
            <4> QED
                BY <1>0, <1>4, <2>3, <3>2, <4>2, SentinelAssumption
                DEF WriteFile, StashDir, PlaceDir, RewriteSkill, TearOrphan, session, RemoveOrphan, TypeOK, ToWrite,
                    ToRemove
        <3> QED BY <2>1, <3>1, <3>2 DEF TruthInv
    <2> QED BY <2>2, <2>3
<1>5. ASSUME NEW e \in Dest, NEW f \in UserFiles, UserEdit(e, f)
      PROVE  TruthInv(d)'
    <2>1. UNCHANGED <<pc, oldLock, target, plan, done, request>>
        BY <1>5 DEF UserEdit, session
    <2>2. pc # "idle" /\ d \notin touched' => d # e /\ d \notin touched /\ disk'[d] = disk[d]
        BY <1>0, <1>5 DEF UserEdit, TypeOK
    <2> QED BY <2>1, <2>2 DEF TruthInv, Baseline, ToWrite
<1>6. CASE UNCHANGED vars
    BY <1>6 DEF vars, session, TruthInv, Baseline, ToWrite
<1> QED
    BY <1>1, <1>2, <1>3, <1>4, <1>5, <1>6
    DEF Next, Mars, User, Proceed, LoadConfig, RecoveryHalt, BuildTarget, RejectTarget,
        RejectPlan, WriteLock, Complete, RollbackDir, Interrupt, EndSession, Checkout,
        Reconfigure, session

TruthStep == lockFile' # lockFile /\ edits' = edits =>
    \A d \in Dest \ touched : lockFile'[d] # NoRec =>
        /\ disk[d] # Absent
        /\ \/ disk[d].bytes = lockFile'[d].installed
           \/ plan[d] = "keep"
           \/ request.force /\ disk[d].bytes = lockFile'[d].source

LEMMA TruthSteps ==
    ASSUME WInv, \A d \in Dest : TruthInv(d), [Next]_vars
    PROVE  TruthStep
<1>0. TypeOK
    BY DEF WInv, TInv
<1>1. CASE lockFile' = lockFile
    BY <1>1 DEF TruthStep
<1>2. CASE WriteLock
    <2>1. /\ pc = "applying" /\ lockFile' = BuiltLock /\ ToWrite \subseteq done
        BY <1>2 DEF WriteLock
    <2> SUFFICES ASSUME NEW d \in Dest \ touched, BuiltLock[d] # NoRec
                 PROVE  /\ disk[d] # Absent
                        /\ \/ disk[d].bytes = BuiltLock[d].installed
                           \/ plan[d] = "keep"
                           \/ request.force /\ disk[d].bytes = BuiltLock[d].source
        BY <2>1 DEF TruthStep
    <2>2. CASE plan[d] \in {"install", "overwrite"}
        BY <2>1, <2>2 DEF TruthInv, BuiltLock, ToWrite
    <2>3. CASE plan[d] \in {"skip", "keep"}
        BY <2>1, <2>3 DEF TruthInv, BuiltLock, Baseline
    <2> QED BY <2>2, <2>3 DEF BuiltLock
<1>3. CASE User
    BY <1>0, <1>3 DEF User, UserEdit, Checkout, Reconfigure, TypeOK, TruthStep
<1> QED
    BY <1>1, <1>2, <1>3
    DEF Next, Mars, Proceed, vars, session, LoadConfig, RecoveryHalt, BuildTarget,
        RejectTarget, CreatePlan, RejectPlan, PersistMutation, Prepare, WriteFile, StashDir,
        PlaceDir, RewriteSkill, TearOrphan, RemoveOrphan, Complete, RollbackDir, Interrupt

(* Every claim of a mars.lock that a sync publishes is of bytes that are on *)
(* disk, the claimed ones unless an edit was kept or --force compared with  *)
(* the source (apply.rs, diff.rs `compute`, lock/mod.rs `build`).           *)
THEOREM PublishesTruth == Spec => ClaimsTrue
<1>1. Init => WInv /\ \A d \in Dest : TruthInv(d)
    BY WInvInit DEF Init, TruthInv
<1>2. WInv /\ (\A d \in Dest : TruthInv(d)) /\ [Next]_vars
          => (WInv /\ \A d \in Dest : TruthInv(d))'
    BY WInvSteps, TruthNext
<1>3. WInv /\ (\A d \in Dest : TruthInv(d)) /\ [Next]_vars => [TruthStep]_vars
    BY TruthSteps
<1>4. ClaimsTrue <=> [][TruthStep]_vars
    BY DEF ClaimsTrue, TruthStep
<1> QED BY <1>1, <1>2, <1>3, <1>4, PTL DEF Spec
=============================================================================
