-------------------------- MODULE TargetSync_proofs --------------------------
(***************************************************************************)
(* Theorems about TargetSync, for every set of items, targets, outputs,    *)
(* contents, configurations and command lines, any number of edits and of  *)
(* faults. One inductive invariant, IInv, carries them all.                *)
(***************************************************************************)
EXTENDS TargetSync, TLAPS

-----------------------------------------------------------------------------
(* The inductive invariant                                                 *)

Active == pc # "idle"

(* The lock that the session loaded is no longer the one on disk only      *)
(* while `mars link` has its configuration left to save.                   *)
Linked == pc = "save" /\ cmd.kind = "link"

(* Each phase belongs to some commands; between sessions nothing is in     *)
(* memory, and a copy is unhashed only while copies are made.              *)
PhaseInv ==
    /\ pc \in {"unhook", "hook", "retry"} => cmd.kind = "sync"
    /\ pc = "unlinking" => cmd.kind = "unlink"
    /\ pc = "save" => cmd.kind # "sync"
    /\ Active /\ cmd.kind = "unlink" => pc \in {"unlinking", "save", "publish"}
    /\ pc # "copying" => busy = None
    /\ ~Active \/ Linked \/ cmd.kind = "unlink" => written = NoWrites
    /\ ~Active \/ Linked => gone = {}
    /\ Active /\ ~Linked => old.out = LoadedLock.out

(* What the canonical phase did to an item tells whether it is wanted and  *)
(* whether it was owned.                                                   *)
OutcomeInv == Active /\ cmd.kind # "unlink" => \A i \in Item :
    /\ act[i] \in {"keep", "skip"} => old.canon[i] # None
    /\ cmd.kind = "sync" /\ Live(i) => cfg.want[i] # None
    /\ cmd.kind = "link" => act[i] = IF old.canon[i] = None THEN "none" ELSE "skip"

(* What a phase has left to do is still what it was meant to do.           *)
WorkInv == \A p \in left :
    /\ pc \in Removing => old.out[p] # None
    /\ pc = "hook" => Live(p.item)
    /\ pc = "emit" => store[p.item] # None /\ NewCanon(p.item) # None

(* Installed claims, on disk and in memory, have an owner, and so does     *)
(* every output that the session has written.                              *)
OwnerInv ==
    /\ InstalledHasOwner
    /\ Active => \A p \in Path :
           /\ old.out[p] \in Bytes => old.canon[p.item] # None
           /\ busy = p \/ written[p] # None => NewCanon(p.item) # None

(* A file of Mars that is not claimed, or that the session has removed,    *)
(* was written since, or was left behind before.                           *)
Mars(p) == tgt[p] # None /\ tgt[p].by = "mars"
Noted(p) == busy = p \/ written[p] # None
MineInv ==
    /\ ~Active \/ Linked => LeftBehind \subseteq stray
    /\ Active /\ ~Linked => \A p \in Path : Mars(p) =>
           /\ old.out[p] = None => Noted(p) \/ p \in stray
           /\ p \in gone => Noted(p)

IInv == TypeOK /\ PhaseInv /\ OutcomeInv /\ WorkInv /\ OwnerInv /\ MineInv

-----------------------------------------------------------------------------
(* Types of what the actions compute                                       *)

LEMMA LoadedType == ASSUME TypeOK PROVE LoadedLock \in Lock
BY DEF TypeOK, LoadedLock, NoLock, Lock, Claim

LEMMA RecoveredType ==
    ASSUME TypeOK, RecoveryAccepts
    PROVE  Recovered \in Lock /\ Recovered.out = LoadedLock.out
<1>1. LoadedLock \in Lock
    BY LoadedType
<1>2. ASSUME NEW i \in Item
      PROVE  (IF Interrupted(i) THEN store[i] ELSE LoadedLock.canon[i])
                 \in Version \cup {None}
    <2>1. CASE Interrupted(i)
        <3>1. intent \in Intent /\ store[i] \in intent.outputs[i]
            BY <2>1 DEF TypeOK, Interrupted, RecoveryAccepts
        <3> QED BY <2>1, <3>1 DEF Intent
    <2> QED BY <1>1, <2>1 DEF Lock
<1> QED BY <1>1, <1>2 DEF Recovered, Lock

LEMMA JournalType ==
    ASSUME TypeOK, RecoveryAccepts, NEW i \in Item, NEW a \in Actions,
           a = "write" => config.want[i] # None
    PROVE  Journal(i, a) \subseteq Version
<1>1. Interrupted(i) => store[i] \in Version
    <2> SUFFICES ASSUME Interrupted(i) PROVE store[i] \in Version
        OBVIOUS
    <2>1. intent \in Intent /\ store[i] \in intent.outputs[i]
        BY DEF TypeOK, Interrupted, RecoveryAccepts
    <2> QED BY <2>1 DEF Intent
<1>2. a = "write" => config.want[i] \in Version
    BY DEF TypeOK, Config
<1> QED BY <1>1, <1>2 DEF Journal

LEMMA OutcomeType ==
    ASSUME NEW i \in Item, NEW force, NEW lock
    PROVE  /\ Outcome(i, force, lock) \in Actions
           /\ Outcome(i, force, lock) \in {"write", "keep", "skip"}
                  => config.want[i] # None
           /\ Outcome(i, force, lock) \in {"keep", "skip"} => lock.canon[i] # None
BY DEF Outcome, Actions

LEMMA EndType ==
    ASSUME EndSession
    PROVE  /\ pc' = "idle" /\ cmd' \in Command /\ cfg' \in Config /\ old' \in Lock
           /\ act' \in [Item -> Actions] /\ left' = {} /\ busy' = None
           /\ written' = NoWrites /\ written' \in [Path -> Bytes \cup {None}]
           /\ gone' = {} /\ collided' = {} /\ errors' = {} /\ passed' = {}
           /\ pc' \in Phases
BY DEF EndSession, NoProgress, NoCmd, Command, NoConfig, Config, NoLock, Lock, Claim,
   NoOutcome, Actions, NoWrites, Phases

LEMMA NewLockType == ASSUME TypeOK PROVE NewLock \in Lock
<1>1. ASSUME NEW i \in Item PROVE NewCanon(i) \in Version \cup {None}
    BY DEF NewCanon, TypeOK, Config, Lock
<1>2. ASSUME NEW p \in Path PROVE NewClaim(p) \in Claim
    BY DEF NewClaim, TypeOK, Lock, Claim
<1> QED BY <1>1, <1>2 DEF NewLock, TypeOK, Lock

LEMMA PathType ==
    ASSUME NEW p \in Path
    PROVE  p.item \in Item /\ p.target \in Target
BY PathAssumption

LEMMA WorkType == \A phase : Work(phase) \subseteq Path
BY DEF Work, ToCopy, ToDrop, Orphans, StaleHooks, StaleAgents, Tombstones

LEMMA BytesNotNone == None \notin Bytes /\ Pending \notin Bytes /\ None # Pending
BY SentinelAssumption

-----------------------------------------------------------------------------
(* The invariant is kept                                                   *)

LEMMA InitIInv == Init => IInv
<1> SUFFICES ASSUME Init PROVE IInv
    OBVIOUS
<1>1. TypeOK
    BY SetAssumption
    DEF Init, TypeOK, NoCmd, Command, NoConfig, Config, NoLock, Lock, Claim, NoOutcome,
        Actions, NoWrites, Phases
<1>2. PhaseInv /\ OutcomeInv /\ WorkInv
    BY DEF Init, PhaseInv, OutcomeInv, WorkInv, Active, Linked
<1>3. LoadedLock = NoLock
    BY <1>1, SentinelAssumption DEF Init, LoadedLock
<1>4. OwnerInv
    BY <1>3, SentinelAssumption DEF Init, OwnerInv, InstalledHasOwner, Active, NoLock
<1>5. MineInv
    BY DEF Init, MineInv, Active, LeftBehind, Untracked
<1> QED BY <1>1, <1>2, <1>4, <1>5 DEF IInv

LEMMA SyncKeeps ==
    ASSUME IInv, NEW c \in Commands, Sync(c)
    PROVE  IInv'
<1>1. TypeOK /\ pc = "idle" /\ pc' = "applied" /\ c \in Command /\ cmd' = c
    BY SetAssumption DEF IInv, Sync
<1>2. Recovered \in Lock /\ Recovered.out = LoadedLock.out /\ LoadedLock \in Lock
    BY <1>1, RecoveredType, LoadedType DEF Sync
<1>3. \A i \in Item : /\ act'[i] \in Actions
                      /\ act'[i] \in {"write", "keep", "skip"} => config.want[i] # None
                      /\ act'[i] \in {"keep", "skip"} => Recovered.canon[i] # None
    BY OutcomeType DEF Sync
<1>4. TypeOK'
    <2>1. act' \in [Item -> Actions]
        BY <1>3 DEF Sync
    <2>2. store' \in [Item -> Version \cup StoreEdits \cup {None}]
        BY <1>1, <1>3 DEF Sync, TypeOK, Config
    <2>3. intent' \in Intent \cup {None}
        <3>1. \A i \in Item : Journal(i, act'[i]) \subseteq Version
            BY <1>1, <1>3, JournalType DEF Sync
        <3>2. [i \in Item |-> Journal(i, act'[i])] \in [Item -> SUBSET Version]
            BY <3>1
        <3> QED BY <1>1, <3>2 DEF Sync, Intent, TypeOK
    <2> QED BY <1>1, <1>2, <2>1, <2>2, <2>3 DEF Sync, TypeOK, Phases, progress, history
<1>5. PhaseInv'
    BY <1>1, <1>2, SetAssumption
    DEF IInv, Sync, PhaseInv, Active, Linked, LoadedLock, progress
<1>6. OutcomeInv'
    BY <1>1, <1>3, SetAssumption DEF Sync, OutcomeInv, Live
<1>7. WorkInv'
    BY <1>1 DEF WorkInv, Removing
<1>8. OwnerInv'
    <2>1. InstalledHasOwner'
        BY DEF IInv, OwnerInv, Sync, InstalledHasOwner, LoadedLock
    <2>2. \A p \in Path : Recovered.out[p] \in Bytes => Recovered.canon[p.item] # None
        BY <1>2, PathType DEF IInv, OwnerInv, InstalledHasOwner, Recovered, Interrupted
    <2>3. \A p \in Path : busy' # p /\ written'[p] = None
        BY <1>1, SentinelAssumption DEF IInv, PhaseInv, Active, Sync, progress, NoWrites
    <2> QED BY <2>1, <2>2, <2>3 DEF OwnerInv, Sync
<1>9. MineInv'
    <2>1. ~Linked' /\ gone' = {} /\ LeftBehind \subseteq stray
        BY <1>1 DEF IInv, MineInv, Active, Linked, PhaseInv, Sync, progress
    <2>2. \A p \in Path : Mars(p) /\ LoadedLock.out[p] = None => p \in stray
        BY <2>1 DEF Mars, LeftBehind, Untracked, Recorded
    <2>3. tgt' = tgt /\ stray' = stray /\ old'.out = LoadedLock.out
        BY <1>2 DEF Sync, history
    <2> QED BY <1>1, <2>1, <2>2, <2>3 DEF MineInv, Mars, Noted, Active
<1> QED BY <1>4, <1>5, <1>6, <1>7, <1>8, <1>9 DEF IInv

(* A session that starts from the published lock knows its claims.         *)
LEMMA StartMine ==
    ASSUME IInv, pc = "idle", tgt' = tgt, stray' = stray, old'.out = LoadedLock.out,
           gone' = gone, Active', ~Linked'
    PROVE  MineInv'
<1>1. gone = {} /\ LeftBehind \subseteq stray
    BY DEF IInv, MineInv, Active, PhaseInv
<1>2. \A p \in Path : Mars(p) /\ LoadedLock.out[p] = None => p \in stray
    BY <1>1 DEF Mars, LeftBehind, Untracked, Recorded
<1> QED BY <1>1, <1>2 DEF MineInv, Mars, Noted

LEMMA LinkKeeps ==
    ASSUME IInv, NEW c \in Commands, Link(c)
    PROVE  IInv'
<1>1. TypeOK /\ pc = "idle" /\ pc' = "applied" /\ c \in Command /\ cmd' = c
      /\ c.kind = "link" /\ c.target \in Target
    BY SetAssumption DEF IInv, Link, Command
<1>2. LoadedLock \in Lock /\ old' = LoadedLock /\ lockFile' = lockFile
    BY <1>1, LoadedType DEF Link, disk
<1>3. busy' = None /\ written' = NoWrites /\ gone' = {}
    BY <1>1 DEF IInv, Link, PhaseInv, Active, progress
<1>4. TypeOK'
    <2>1. cfg' \in Config
        BY <1>1 DEF Link, TypeOK, Config
    <2>2. act' \in [Item -> Actions]
        BY DEF Link, Actions
    <2> QED BY <1>1, <1>2, <2>1, <2>2 DEF Link, TypeOK, Phases, disk, progress, history
<1>5. PhaseInv'
    BY <1>1, <1>2, <1>3 DEF PhaseInv, Active, Linked, LoadedLock
<1>6. OutcomeInv'
    BY <1>1, <1>2 DEF Link, OutcomeInv, Live
<1>7. WorkInv'
    BY <1>1 DEF WorkInv, Removing
<1>8. OwnerInv'
    <2>1. InstalledHasOwner'
        BY <1>2 DEF IInv, OwnerInv, InstalledHasOwner, LoadedLock
    <2>2. \A p \in Path : busy' # p /\ written'[p] = None
        BY <1>3, SentinelAssumption DEF NoWrites
    <2> QED BY <1>2, <2>1, <2>2 DEF IInv, OwnerInv, InstalledHasOwner
<1>9. MineInv'
    BY <1>1, <1>2, StartMine DEF Link, disk, history, progress, Active, Linked
<1> QED BY <1>4, <1>5, <1>6, <1>7, <1>8, <1>9 DEF IInv

LEMMA UnlinkKeeps ==
    ASSUME IInv, NEW c \in Commands, Unlink(c)
    PROVE  IInv'
<1>1. TypeOK /\ pc = "idle" /\ pc' = "unlinking" /\ c \in Command /\ cmd' = c
      /\ c.kind = "unlink"
    BY SetAssumption DEF IInv, Unlink
<1>2. LoadedLock \in Lock /\ old' = LoadedLock /\ lockFile' = lockFile
    BY <1>1, LoadedType DEF Unlink, disk
<1>3. busy' = None /\ written' = NoWrites /\ gone' = {}
    BY <1>1 DEF IInv, Unlink, PhaseInv, Active
<1>4. TypeOK'
    <2>1. cfg' \in Config
        BY <1>1 DEF Unlink, TypeOK, Config
    <2>2. left' \subseteq Path
        BY DEF Unlink
    <2> QED BY <1>1, <1>2, <2>1, <2>2 DEF Unlink, TypeOK, Phases, disk, history
<1>5. PhaseInv'
    BY <1>1, <1>2, <1>3 DEF PhaseInv, Active, Linked, LoadedLock
<1>6. OutcomeInv'
    BY <1>1 DEF OutcomeInv
<1>7. WorkInv'
    BY <1>1, <1>2 DEF Unlink, WorkInv, Recorded
<1>8. OwnerInv'
    <2>1. InstalledHasOwner'
        BY <1>2 DEF IInv, OwnerInv, InstalledHasOwner, LoadedLock
    <2>2. \A p \in Path : busy' # p /\ written'[p] = None
        BY <1>3, SentinelAssumption DEF NoWrites
    <2> QED BY <1>2, <2>1, <2>2 DEF IInv, OwnerInv, InstalledHasOwner
<1>9. MineInv'
    BY <1>1, <1>2, StartMine DEF Unlink, disk, history, Active, Linked
<1> QED BY <1>4, <1>5, <1>6, <1>7, <1>8, <1>9 DEF IInv

(* What stands while a phase does its work.                                *)
LEMMA WithinPhase ==
    ASSUME IInv, UNCHANGED <<store, lockFile, pc, cmd, cfg, old, act>>, left' \subseteq left
    PROVE  /\ OutcomeInv' /\ WorkInv' /\ InstalledHasOwner'
           /\ \A i : NewCanon(i)' = NewCanon(i)
           /\ LoadedLock' = LoadedLock
           /\ Active' = Active /\ Linked' = Linked
<1>1. \A i : NewCanon(i)' = NewCanon(i)
    BY DEF NewCanon
<1>2. OutcomeInv'
    BY DEF IInv, OutcomeInv, Active, Live
<1>3. WorkInv'
    BY <1>1 DEF IInv, WorkInv, Live, Removing
<1>4. LoadedLock' = LoadedLock /\ Active' = Active /\ Linked' = Linked
    BY DEF LoadedLock, Active, Linked
<1>5. InstalledHasOwner'
    BY <1>4 DEF IInv, OwnerInv, InstalledHasOwner
<1> QED BY <1>1, <1>2, <1>3, <1>4, <1>5

LEMMA CopyItemKeeps ==
    ASSUME IInv, NEW p \in Path, CopyItem(p)
    PROVE  IInv'
<1>1. /\ TypeOK /\ pc = "copying" /\ busy = None /\ p \in left /\ p \in ToCopy
      /\ Copies(p) /\ Write(p, store[p.item])
      /\ busy' \in {p, None} /\ (busy' = p \/ written'[p] # None)
      /\ \A q \in Path : q # p => written'[q] = written[q]
    <2>1. store[p.item] # None
        BY DEF CopyItem, Copies
    <2> QED BY <2>1 DEF IInv, CopyItem, TypeOK
<1>2. /\ UNCHANGED <<config, store, lockFile, intent, pc, cmd, cfg, old, act, gone>>
      /\ UNCHANGED <<collided, errors, passed, history>> /\ left' \subseteq left
    BY DEF CopyItem
<1>3. /\ OutcomeInv' /\ WorkInv' /\ InstalledHasOwner'
      /\ \A i : NewCanon(i)' = NewCanon(i)
      /\ LoadedLock' = LoadedLock /\ Active' = Active /\ Linked' = Linked
    BY <1>2, WithinPhase
<1>4. store[p.item] \in Bytes
    BY <1>1, PathType DEF Copies, TypeOK, Bytes
<1>5. TypeOK'
    <2>1. tgt' \in [Path -> File \cup {None}]
        BY <1>1, <1>4 DEF Write, TypeOK, File
    <2>2. written' \in [Path -> Bytes \cup {None}]
        BY <1>4 DEF CopyItem, IInv, TypeOK
    <2> QED BY <1>1, <1>2, <2>1, <2>2 DEF TypeOK, history
<1>6. PhaseInv'
    BY <1>1, <1>2, <1>3 DEF IInv, PhaseInv, Active, Linked
<1>7. OwnerInv'
    <2>1. NewCanon(p.item) # None
        <3>1. act[p.item] \in {"write", "keep", "skip"}
            <4>1. Seen(p.item) \in {"write", "keep", "skip"} /\ cfg.policy \in {"all", "selective", "suppress"}
                BY <1>1 DEF ToCopy, TypeOK, Config
            <4> QED BY <4>1 DEF Seen
        <3>2. cmd.kind # "unlink"
            BY <1>1 DEF IInv, PhaseInv, Active
        <3> QED
            BY <1>1, <3>1, <3>2, PathType
            DEF IInv, OutcomeInv, Active, NewCanon, Live, TypeOK, Command
    <2> QED BY <1>1, <1>2, <1>3, <2>1 DEF IInv, OwnerInv
<1>8. MineInv'
    BY <1>1, <1>2, <1>3, SentinelAssumption
    DEF IInv, MineInv, Mars, Noted, Write, Active, Linked, TypeOK, history
<1> QED BY <1>3, <1>5, <1>6, <1>7, <1>8 DEF IInv

LEMMA HashCopiedKeeps ==
    ASSUME IInv, HashCopied
    PROVE  IInv'
<1>1. /\ TypeOK /\ busy # None /\ busy \in Path /\ pc = "copying"
    BY DEF IInv, HashCopied, TypeOK, PhaseInv
<1>2. /\ UNCHANGED <<config, store, tgt, lockFile, intent, pc, cmd, cfg, old, act, gone>>
      /\ UNCHANGED <<collided, errors, passed, history>> /\ left' = left /\ busy' = None
    BY DEF HashCopied, disk
<1>3. /\ OutcomeInv' /\ WorkInv' /\ InstalledHasOwner'
      /\ \A i : NewCanon(i)' = NewCanon(i)
      /\ LoadedLock' = LoadedLock /\ Active' = Active /\ Linked' = Linked
    BY <1>2, WithinPhase
<1>4. tgt[busy] # None => tgt[busy].bytes \in Bytes
    BY <1>1 DEF TypeOK, File
<1>5. TypeOK'
    BY <1>1, <1>2, <1>4 DEF HashCopied, TypeOK, history
<1>6. PhaseInv'
    BY <1>1, <1>2, <1>3 DEF IInv, PhaseInv, Active, Linked
<1>7. OwnerInv'
    <2>1. \A q \in Path : Noted(q)' => Noted(q)
        BY <1>1, <1>2, SentinelAssumption DEF HashCopied, Noted, TypeOK
    <2> QED BY <1>2, <1>3, <2>1 DEF IInv, OwnerInv, Noted
<1>8. MineInv'
    <2>1. \A q \in Path : Mars(q) /\ Noted(q) => Noted(q)'
        BY <1>1, <1>4, BytesNotNone DEF HashCopied, Mars, Noted, TypeOK
    <2> QED BY <1>1, <1>2, <1>3, <2>1 DEF IInv, MineInv, Mars, Active, Linked, history
<1> QED BY <1>3, <1>5, <1>6, <1>7, <1>8 DEF IInv

(* A step that passes something over.                                      *)
LEMMA PassingOver ==
    ASSUME IInv, UNCHANGED <<disk, pc, cmd, cfg, old, act, busy, written, gone>>,
           UNCHANGED <<stray, raced, edits, changes>>, left' \subseteq left,
           collided' \subseteq Path, errors' \subseteq Target, passed' \subseteq Target,
           faults' \in Nat
    PROVE  IInv'
<1>1. /\ OutcomeInv' /\ WorkInv' /\ InstalledHasOwner'
      /\ \A i : NewCanon(i)' = NewCanon(i)
      /\ LoadedLock' = LoadedLock /\ Active' = Active /\ Linked' = Linked
    BY WithinPhase DEF disk
<1>2. TypeOK'
    BY DEF IInv, TypeOK, disk
<1>3. PhaseInv'
    BY <1>1 DEF IInv, PhaseInv, Active, Linked
<1>4. OwnerInv'
    BY <1>1 DEF IInv, OwnerInv
<1>5. MineInv'
    BY <1>1 DEF IInv, MineInv, Mars, Noted, LeftBehind, Untracked, Recorded, disk
<1> QED BY <1>1, <1>2, <1>3, <1>4, <1>5 DEF IInv

LEMMA PassingOverSteps ==
    ASSUME IInv
    PROVE  /\ \A p \in Path : CopyFails(p) \/ PreserveLocal(p) \/ EmitPreserves(p)
                             \/ EmitFails(p) => IInv'
           /\ \A t \in Target : TargetFails(t) => IInv'
<1>0. TypeOK
    BY DEF IInv
<1>1. ASSUME NEW p \in Path, CopyFails(p) PROVE IInv'
    BY <1>0, <1>1, PassingOver, PathType DEF CopyFails, TypeOK
<1>2. ASSUME NEW p \in Path, PreserveLocal(p) PROVE IInv'
    BY <1>0, <1>2, PassingOver DEF PreserveLocal, TypeOK, history
<1>3. ASSUME NEW p \in Path, EmitPreserves(p) PROVE IInv'
    BY <1>0, <1>3, PassingOver DEF EmitPreserves, TypeOK, history
<1>4. ASSUME NEW p \in Path, EmitFails(p) PROVE IInv'
    BY <1>0, <1>4, PassingOver DEF EmitFails, TypeOK
<1>5. ASSUME NEW t \in Target, TargetFails(t) PROVE IInv'
    BY <1>0, <1>5, PassingOver DEF TargetFails, TypeOK
<1> QED BY <1>1, <1>2, <1>3, <1>4, <1>5

(* A step that deletes a claimed output.                                   *)
LEMMA Removed ==
    ASSUME IInv, NEW p \in Path, Active, ~Linked,
           tgt' = [tgt EXCEPT ![p] = None], gone' = gone \cup {p}, left' \subseteq left,
           UNCHANGED <<config, store, lockFile, intent, pc, cmd, cfg, old, act, busy>>,
           UNCHANGED <<written, collided, errors, passed, history>>
    PROVE  IInv'
<1>1. /\ OutcomeInv' /\ WorkInv' /\ InstalledHasOwner'
      /\ \A i : NewCanon(i)' = NewCanon(i)
      /\ LoadedLock' = LoadedLock /\ Active' = Active /\ Linked' = Linked
    BY WithinPhase
<1>2. TypeOK'
    BY DEF IInv, TypeOK, history
<1>3. PhaseInv'
    BY <1>1 DEF IInv, PhaseInv, Active, Linked
<1>4. OwnerInv'
    BY <1>1 DEF IInv, OwnerInv
<1>5. MineInv'
    BY <1>1 DEF IInv, MineInv, Mars, Noted, TypeOK, history
<1> QED BY <1>1, <1>2, <1>3, <1>4, <1>5 DEF IInv

LEMMA RemovalSteps ==
    ASSUME IInv, NEW p \in Path, DropItem(p) \/ RemoveOutput(p)
    PROVE  IInv'
<1>1. Active /\ ~Linked
    BY DEF DropItem, RemoveOutput, Active, Linked, Removing
<1>2. CASE RemoveOutput(p)
    BY <1>1, <1>2, Removed DEF RemoveOutput
<1>3. CASE DropItem(p) /\ tgt[p] # None /\ old.out[p] # None
    BY <1>1, <1>3, Removed DEF DropItem
<1>4. CASE DropItem(p) /\ ~(tgt[p] # None /\ old.out[p] # None)
    BY <1>4, PassingOver DEF DropItem, IInv, TypeOK, disk, history
<1> QED BY <1>2, <1>3, <1>4

(* What is emitted is there to be emitted.                                 *)
LEMMA EmitContent ==
    ASSUME IInv, NEW p \in Path, EmitOutput(p)
    PROVE  Content(p) \in Bytes /\ NewCanon(p.item) # None
<1>1. TypeOK /\ pc \in Emitting /\ p \in left /\ Active /\ cmd.kind # "unlink"
    BY DEF EmitOutput, IInv, PhaseInv, Active, Emitting
<1>2. CASE pc = "hook"
    <2>1. Live(p.item) /\ cmd.kind = "sync"
        BY <1>1, <1>2 DEF IInv, WorkInv, PhaseInv
    <2>2. cfg.want[p.item] # None
        BY <1>1, <2>1, PathType DEF IInv, OutcomeInv
    <2>3. NewCanon(p.item) # None
        BY <1>1, <2>1, <2>2, PathType DEF IInv, OutcomeInv, NewCanon, Live
    <2> QED BY <1>1, <1>2, <2>2, <2>3, PathType DEF Content, TypeOK, Config, Bytes
<1>3. CASE pc = "emit"
    <2>1. store[p.item] # None /\ NewCanon(p.item) # None
        BY <1>1, <1>3 DEF IInv, WorkInv
    <2> QED BY <1>1, <1>3, <2>1, PathType DEF Content, TypeOK, Bytes
<1> QED BY <1>1, <1>2, <1>3 DEF Emitting

LEMMA EmitOutputKeeps ==
    ASSUME IInv, NEW p \in Path, EmitOutput(p)
    PROVE  IInv'
<1>1. /\ TypeOK /\ pc \in Emitting /\ p \in left /\ Write(p, Content(p))
      /\ written' = [written EXCEPT ![p] = Content(p)]
    BY DEF EmitOutput, IInv
<1>2. /\ UNCHANGED <<config, store, lockFile, intent, pc, cmd, cfg, old, act, gone>>
      /\ UNCHANGED <<busy, collided, errors, passed, history>> /\ left' \subseteq left
    BY DEF EmitOutput
<1>3. /\ OutcomeInv' /\ WorkInv' /\ InstalledHasOwner'
      /\ \A i : NewCanon(i)' = NewCanon(i)
      /\ LoadedLock' = LoadedLock /\ Active' = Active /\ Linked' = Linked
    BY <1>2, WithinPhase
<1>4. Active /\ ~Linked /\ cmd.kind # "unlink"
    BY <1>1 DEF IInv, PhaseInv, Active, Linked, Emitting
<1>5. Content(p) \in Bytes /\ NewCanon(p.item) # None
    BY EmitContent
<1>6. TypeOK'
    <2>1. tgt' \in [Path -> File \cup {None}]
        BY <1>1, <1>5 DEF Write, TypeOK, File
    <2>2. written' \in [Path -> Bytes \cup {None}]
        BY <1>1, <1>5 DEF TypeOK
    <2> QED BY <1>1, <1>2, <2>1, <2>2 DEF TypeOK, history
<1>7. PhaseInv'
    BY <1>2, <1>3, <1>4 DEF IInv, PhaseInv, Active, Linked
<1>8. OwnerInv'
    BY <1>1, <1>2, <1>3, <1>5 DEF IInv, OwnerInv, TypeOK
<1>9. MineInv'
    <2>1. written'[p] # None /\ \A q \in Path : Noted(q) => Noted(q)'
        BY <1>1, <1>2, <1>5, BytesNotNone DEF Noted, TypeOK
    <2>2. \A q \in Path : Mars(q)' => Mars(q) \/ q = p
        BY <1>1 DEF Mars, Write, TypeOK
    <2> QED BY <1>2, <1>3, <1>4, <2>1, <2>2 DEF IInv, MineInv, Noted, history
<1> QED BY <1>3, <1>6, <1>7, <1>8, <1>9 DEF IInv

(* The session ends and publishes nothing.                                 *)
LEMMA Abandoned ==
    ASSUME IInv, EndSession, UNCHANGED <<store, tgt, lockFile, intent, raced>>,
           config' \in Config, stray' \subseteq Path, LeftBehind \subseteq stray',
           edits' \in Nat, changes' \in Nat, faults' \in Nat
    PROVE  IInv'
<1>1. /\ TypeOK /\ LoadedLock' = LoadedLock /\ ~Active' /\ LeftBehind' = LeftBehind
      /\ pc' = "idle"
    BY EndType DEF IInv, LoadedLock, Active, LeftBehind, Untracked, Recorded
<1>2. TypeOK'
    BY <1>1, EndType DEF TypeOK
<1>3. PhaseInv'
    BY <1>1, EndType DEF PhaseInv
<1>4. OutcomeInv' /\ WorkInv'
    BY <1>1, EndType DEF OutcomeInv, WorkInv
<1>5. OwnerInv'
    BY <1>1 DEF IInv, OwnerInv, InstalledHasOwner
<1>6. MineInv'
    BY <1>1 DEF MineInv, Linked
<1> QED BY <1>2, <1>3, <1>4, <1>5, <1>6 DEF IInv

LEMMA LeftType == ASSUME TypeOK PROVE LeftBehind \subseteq Path /\ stray \subseteq Path
BY DEF TypeOK, LeftBehind, Untracked

LEMMA AbandonSteps ==
    ASSUME IInv, LinkRefused \/ Crash
    PROVE  IInv'
<1>1. TypeOK
    BY DEF IInv
<1>2. CASE LinkRefused
    BY <1>1, <1>2, LeftType, Abandoned DEF LinkRefused, GiveUp, TypeOK, disk
<1>3. CASE Crash
    BY <1>1, <1>3, LeftType, Abandoned DEF Crash, GiveUp, TypeOK, disk
<1> QED BY <1>2, <1>3

LEMMA RemovalFailsKeeps ==
    ASSUME IInv, NEW p \in Path, RemovalFails(p)
    PROVE  IInv'
<1>1. TypeOK
    BY DEF IInv
<1>2. CASE pc = "unlinking"
    BY <1>1, <1>2, LeftType, Abandoned DEF RemovalFails, GiveUp, TypeOK, disk
<1>3. CASE pc # "unlinking"
    BY <1>1, <1>3, PathType, PassingOver DEF RemovalFails, TypeOK
<1> QED BY <1>2, <1>3

LEMMA AdvanceKeeps ==
    ASSUME IInv, Advance
    PROVE  IInv'
<1>1. /\ TypeOK /\ pc \in DOMAIN After /\ pc' = After[pc] /\ left' = Work(pc')
      /\ busy = None
      /\ UNCHANGED <<disk, cmd, cfg, old, act, busy, written, gone, collided, errors>>
      /\ UNCHANGED <<passed, history>>
    BY DEF IInv, Advance
<1>2. /\ cmd.kind = "sync" => pc' \in {"copying", "cleaning", "unhook", "hook", "reconcile",
                                      "emit", "retry", "publish"}
      /\ cmd.kind = "link" => pc' \in {"copying", "cleaning", "reconcile", "emit", "publish"}
      /\ cmd.kind = "unlink" => pc' = "save"
      /\ pc # "idle" /\ pc # "save"
    BY <1>1 DEF After, AfterSync, AfterLink, AfterUnlink, TypeOK, Command
<1>3. /\ cmd.kind \in {"sync", "link", "unlink"} /\ Active /\ Active'
      /\ ~Linked /\ ~Linked' /\ LoadedLock' = LoadedLock
    BY <1>1, <1>2 DEF Active, Linked, LoadedLock, disk, TypeOK, Command
<1>4. TypeOK'
    <2>1. pc' \in Phases
        BY <1>2, <1>3 DEF Phases
    <2> QED BY <1>1, <2>1, WorkType DEF TypeOK, disk, history
<1>5. PhaseInv'
    BY <1>1, <1>2, <1>3 DEF IInv, PhaseInv
<1>6. OutcomeInv'
    BY <1>1, <1>3 DEF IInv, OutcomeInv, Live
<1>7. WorkInv'
    <2> SUFFICES ASSUME NEW p \in left'
                 PROVE  /\ pc' \in Removing => old.out[p] # None
                        /\ pc' = "hook" => Live(p.item)
                        /\ pc' = "emit" => store[p.item] # None /\ NewCanon(p.item) # None
        BY <1>1 DEF WorkInv, Live, NewCanon, Removing, disk
    <2>1. pc' \in Removing => old.out[p] # None
        BY <1>1, <1>2, <1>3
        DEF Removing, Work, Orphans, StaleHooks, StaleAgents, Tombstones
    <2>2. pc' = "hook" => Live(p.item)
        BY <1>1 DEF Work, EmitsHook
    <2>3. pc' = "emit" => store[p.item] # None /\ NewCanon(p.item) # None
        BY <1>1 DEF Work, Compiles, Parsed
    <2> QED BY <2>1, <2>2, <2>3
<1>8. OwnerInv'
    <2>1. \A i : NewCanon(i)' = NewCanon(i)
        BY <1>1 DEF NewCanon
    <2> QED BY <1>1, <1>3, <2>1 DEF IInv, OwnerInv, InstalledHasOwner, disk
<1>9. MineInv'
    BY <1>1, <1>3 DEF IInv, MineInv, Mars, Noted, disk, history
<1> QED BY <1>4, <1>5, <1>6, <1>7, <1>8, <1>9 DEF IInv

(* What the published lock claims, and what it forgets.                    *)
LEMMA PublishedClaims ==
    ASSUME IInv, WriteLock, NEW p \in Path
    PROVE  /\ NewClaim(p) \in Bytes => NewLock.canon[p.item] # None
           /\ NewClaim(p) = None /\ Mars(p) => p \in stray
           /\ NewLock.out[p] = NewClaim(p)
<1>1. /\ TypeOK /\ pc = "publish" /\ Active /\ ~Linked /\ busy = None
      /\ cmd.kind \in {"sync", "link", "unlink"}
    BY DEF IInv, WriteLock, Active, Linked, PhaseInv, TypeOK, Command
<1>2. NewLock.out[p] = NewClaim(p)
    BY DEF NewLock
<1>3. ASSUME NewClaim(p) \in Bytes
      PROVE  NewLock.canon[p.item] # None
    <2>1. CASE cmd.kind = "unlink"
        <3>1. old.out[p] \in Bytes
            BY <1>1, <1>3, <2>1, BytesNotNone DEF IInv, PhaseInv, NewClaim, NoWrites
        <3>2. NewLock.canon = old.canon
            BY <1>1, <2>1 DEF NewLock, TypeOK, Lock
        <3> QED BY <1>1, <3>1, <3>2 DEF IInv, OwnerInv
    <2>2. CASE cmd.kind # "unlink"
        <3>1. NewLock.canon[p.item] = NewCanon(p.item)
            BY <1>1, <2>2, PathType DEF NewLock
        <3>2. CASE written[p] # None
            BY <1>1, <3>1, <3>2 DEF IInv, OwnerInv
        <3>3. CASE written[p] = None
            <4>1. old.out[p] \in Bytes /\ (cmd.kind = "sync" => NewCanon(p.item) # None)
                BY <1>3, <3>3, BytesNotNone DEF NewClaim
            <4>2. cmd.kind = "link" => NewCanon(p.item) # None
                BY <1>1, <4>1, PathType DEF IInv, OwnerInv, OutcomeInv, NewCanon
            <4> QED BY <1>1, <2>2, <3>1, <4>1, <4>2
        <3> QED BY <3>2, <3>3
    <2> QED BY <2>1, <2>2
<1>4. ASSUME NewClaim(p) = None, Mars(p)
      PROVE  p \in stray
    <2>1. written[p] = None /\ (p \in gone \/ old.out[p] = None)
        BY <1>4, BytesNotNone DEF NewClaim
    <2>2. ~Noted(p)
        BY <1>1, <2>1, SentinelAssumption DEF Noted
    <2> QED BY <1>1, <1>4, <2>1, <2>2 DEF IInv, MineInv
<1> QED BY <1>2, <1>3, <1>4

LEMMA WriteLockKeeps ==
    ASSUME IInv, WriteLock
    PROVE  IInv'
<1>1. /\ TypeOK /\ pc = "publish" /\ NewLock \in Lock /\ NewLock # None
    BY NewLockType, SentinelAssumption DEF IInv, WriteLock
<1>2. /\ lockFile' = NewLock /\ LoadedLock' = NewLock
      /\ UNCHANGED <<config, store, tgt, raced, edits, changes, faults>>
      /\ stray' = stray \ {p \in Path : NewClaim(p) # None}
    BY <1>1 DEF WriteLock, LoadedLock
<1>3. /\ pc' \in {"idle", "save"} /\ (pc' = "save" => cmd' = cmd /\ cmd.kind = "link")
      /\ cmd' \in Command /\ cfg' \in Config /\ old' \in Lock /\ act' \in [Item -> Actions]
      /\ left' = {} /\ busy' = None /\ written' = NoWrites /\ gone' = {}
      /\ collided' = {} /\ errors' = {} /\ passed' = {}
      /\ written' \in [Path -> Bytes \cup {None}]
      /\ intent' \in Intent \cup {None}
    <2>1. CASE cmd.kind = "link"
        BY <1>1, <2>1 DEF WriteLock, NoProgress, TypeOK, NoWrites
    <2>2. CASE cmd.kind # "link"
        BY <1>1, <2>2, EndType DEF WriteLock, TypeOK
    <2> QED BY <2>1, <2>2
<1>4. TypeOK'
    BY <1>1, <1>2, <1>3 DEF TypeOK, Phases
<1>5. PhaseInv'
    BY <1>3 DEF PhaseInv, Active, Linked
<1>6. OutcomeInv'
    <2>1. CASE pc' = "idle"
        BY <2>1 DEF OutcomeInv, Active
    <2>2. CASE pc' = "save"
        <3>1. cmd.kind = "link" /\ UNCHANGED <<cmd, cfg, old, act>> /\ Active
            BY <1>1, <1>3, <2>2 DEF WriteLock, EndSession, Active
        <3> QED BY <3>1 DEF IInv, OutcomeInv, Live
    <2> QED BY <1>3, <2>1, <2>2
<1>7. WorkInv'
    BY <1>3 DEF WorkInv
<1>8. OwnerInv'
    <2>1. InstalledHasOwner'
        BY <1>2, PublishedClaims DEF InstalledHasOwner
    <2>2. CASE pc' = "idle"
        BY <2>1, <2>2 DEF OwnerInv, Active
    <2>3. CASE pc' = "save"
        <3>1. UNCHANGED old /\ Active
            BY <1>1, <1>3, <2>3 DEF WriteLock, EndSession, Active
        <3>2. \A p \in Path : busy' # p /\ written'[p] = None
            BY <1>3, SentinelAssumption DEF NoWrites
        <3> QED BY <2>1, <3>1, <3>2 DEF IInv, OwnerInv
    <2> QED BY <1>3, <2>2, <2>3
<1>9. MineInv'
    <2>1. ~Active' \/ Linked'
        BY <1>3 DEF Active, Linked
    <2>2. LeftBehind' \subseteq stray'
        BY <1>2, PublishedClaims DEF LeftBehind, Untracked, Recorded, Mars
    <2> QED BY <2>1, <2>2 DEF MineInv
<1> QED BY <1>4, <1>5, <1>6, <1>7, <1>8, <1>9 DEF IInv

LEMMA SaveConfigKeeps ==
    ASSUME IInv, SaveConfig
    PROVE  IInv'
<1>1. TypeOK /\ pc = "save" /\ cmd.kind \in {"link", "unlink"}
    BY DEF IInv, SaveConfig, PhaseInv, TypeOK, Command
<1>2. config' \in Config /\ UNCHANGED <<store, tgt, lockFile, intent, history>>
    BY <1>1 DEF SaveConfig, TypeOK, Config
<1>3. CASE cmd.kind = "link"
    <2>1. LeftBehind \subseteq stray
        BY <1>1, <1>3 DEF IInv, MineInv, Linked
    <2> QED BY <1>1, <1>2, <1>3, <2>1, Abandoned DEF SaveConfig, history, TypeOK
<1>4. CASE cmd.kind = "unlink"
    <2>1. pc' = "publish" /\ UNCHANGED <<cmd, cfg, old, act, progress>>
        BY <1>4 DEF SaveConfig
    <2>2. /\ LoadedLock' = LoadedLock /\ Active /\ Active' /\ ~Linked /\ ~Linked'
        BY <1>1, <1>2, <1>4, <2>1 DEF LoadedLock, Active, Linked
    <2>3. TypeOK'
        BY <1>1, <1>2, <2>1 DEF TypeOK, Phases, progress, history
    <2>4. PhaseInv'
        BY <1>1, <1>4, <2>1, <2>2 DEF IInv, PhaseInv, progress
    <2>5. OutcomeInv' /\ WorkInv'
        BY <1>4, <2>1 DEF OutcomeInv, WorkInv, Removing
    <2>6. OwnerInv'
        <3>1. \A i : NewCanon(i)' = NewCanon(i)
            BY <2>1 DEF NewCanon
        <3> QED BY <2>1, <2>2, <3>1 DEF IInv, OwnerInv, InstalledHasOwner, progress
    <2>7. MineInv'
        BY <1>2, <2>1, <2>2 DEF IInv, MineInv, Mars, Noted, progress, history
    <2> QED BY <2>3, <2>4, <2>5, <2>6, <2>7 DEF IInv
<1> QED BY <1>1, <1>3, <1>4

LEMMA EditKeeps ==
    ASSUME IInv, Edit
    PROVE  IInv'
<1>0. TypeOK
    BY DEF IInv
<1>1. CASE EditConfig
    <2>1. pc = "idle" /\ LeftBehind \subseteq stray
        BY <1>1 DEF IInv, MineInv, EditConfig, Active
    <2>2. TypeOK'
        BY <1>0, <1>1, SetAssumption
        DEF EditConfig, TypeOK, session, progress
    <2>3. PhaseInv' /\ OutcomeInv' /\ OwnerInv' /\ MineInv'
        BY <1>1, <2>1
        DEF IInv, EditConfig, session, progress, PhaseInv, OutcomeInv, OwnerInv, MineInv,
            InstalledHasOwner, LoadedLock, Active, Linked, LeftBehind, Untracked, Recorded
    <2>4. WorkInv'
        BY <1>1, <2>1 DEF EditConfig, session, WorkInv, Removing
    <2> QED BY <2>2, <2>3, <2>4 DEF IInv
<1>2. ASSUME NEW p \in Path, EditTarget(p)
      PROVE  IInv'
    <2>1. /\ UNCHANGED <<config, store, lockFile, intent, session, stray, faults>>
          /\ edits' = edits + 1 /\ changes' = changes + 1 /\ raced' \subseteq Path
        BY <1>0, <1>2 DEF EditTarget, TypeOK
    <2>2. tgt' \in [Path -> File \cup {None}] /\ \A q \in Path : Mars(q)' => Mars(q)
        BY <1>0, <1>2, SentinelAssumption DEF EditTarget, TypeOK, File, Mars, Bytes
    <2>3. /\ OutcomeInv' /\ WorkInv' /\ InstalledHasOwner'
          /\ \A i : NewCanon(i)' = NewCanon(i)
          /\ LoadedLock' = LoadedLock /\ Active' = Active /\ Linked' = Linked
        BY <2>1, WithinPhase DEF session, progress
    <2>4. TypeOK'
        BY <1>0, <2>1, <2>2 DEF TypeOK, session, progress
    <2>5. PhaseInv'
        BY <2>1, <2>3 DEF IInv, PhaseInv, Active, Linked, session, progress
    <2>6. OwnerInv'
        BY <2>1, <2>3 DEF IInv, OwnerInv, session, progress
    <2>7. MineInv'
        <3>1. LeftBehind' \subseteq LeftBehind
            BY <2>2, <2>3 DEF LeftBehind, Untracked, Recorded, Mars
        <3> QED BY <2>1, <2>2, <2>3, <3>1 DEF IInv, MineInv, Noted, session, progress
    <2> QED BY <2>3, <2>4, <2>5, <2>6, <2>7 DEF IInv
<1>3. ASSUME NEW i \in Item, EditStore(i)
      PROVE  IInv'
    <2>1. pc = "idle" /\ LeftBehind \subseteq stray
        BY <1>3 DEF IInv, MineInv, EditStore, Active
    <2>2. TypeOK'
        BY <1>0, <1>3 DEF EditStore, TypeOK, session, progress
    <2>3. PhaseInv' /\ OutcomeInv' /\ OwnerInv' /\ MineInv'
        BY <1>3, <2>1
        DEF IInv, EditStore, session, progress, PhaseInv, OutcomeInv, OwnerInv, MineInv,
            InstalledHasOwner, LoadedLock, Active, Linked, LeftBehind, Untracked, Recorded
    <2>4. WorkInv'
        BY <1>3, <2>1 DEF EditStore, session, WorkInv, Removing
    <2> QED BY <2>2, <2>3, <2>4 DEF IInv
<1> QED BY <1>1, <1>2, <1>3 DEF Edit

LEMMA NextIInv ==
    ASSUME IInv, [Next]_vars
    PROVE  IInv'
<1>1. CASE Start
    BY <1>1, SyncKeeps, LinkKeeps, UnlinkKeeps DEF Start
<1>2. CASE Session
    BY <1>2, CopyItemKeeps, PassingOverSteps, RemovalSteps, EmitOutputKeeps, HashCopiedKeeps,
       AdvanceKeeps, AbandonSteps, WriteLockKeeps, SaveConfigKeeps
    DEF Session
<1>3. CASE Failure
    BY <1>3, PassingOverSteps, RemovalFailsKeeps, AbandonSteps DEF Failure
<1>4. CASE Edit
    BY <1>4, EditKeeps
<1>5. CASE UNCHANGED vars
    <2>1. UNCHANGED <<disk, pc, cmd, cfg, old, act, progress, history>>
        BY <1>5 DEF vars, session
    <2> QED BY <2>1, PassingOver DEF IInv, TypeOK, progress, history
<1> QED BY <1>1, <1>2, <1>3, <1>4, <1>5 DEF Next

LEMMA Invariance == Spec => []IInv
BY InitIInv, NextIInv, PTL DEF Spec

(* Everything on disk and in a session stays of its type: no null content  *)
(* is ever written, hashed or recorded (target_sync/mod.rs, lock/mod.rs).  *)
THEOREM TypeCorrect == Spec => []TypeOK
<1>1. IInv => TypeOK
    BY DEF IInv
<1> QED BY <1>1, Invariance, PTL

(* An installed claim always has a canonical owner in the same mars.lock:  *)
(* what outlives its item is demoted to a pending deletion                 *)
(* (lock/mod.rs, retain_unremoved_noncanonical_outputs).                   *)
THEOREM InstalledOwned == Spec => []InstalledHasOwner
<1>1. IInv => InstalledHasOwner
    BY DEF IInv, OwnerInv
<1> QED BY <1>1, Invariance, PTL

(* Between sessions every file of Mars outside .mars/ is on record, unless *)
(* a killed session or a refused link left it there.                       *)
THEOREM NothingUnrecorded == Spec => []OwnedRecorded
<1>1. IInv => OwnedRecorded
    BY DEF IInv, OwnedRecorded, MineInv, Active
<1> QED BY <1>1, Invariance, PTL

-----------------------------------------------------------------------------
(* Refinement of OutputOwnership                                           *)

LEMMA SameOutputs ==
    ASSUME UNCHANGED <<tgt, lockFile, cmd, busy, written, gone>>
    PROVE  UNCHANGED Own!ovars
BY DEF Own!ovars, FileOf, ClaimOf, Recorded, LoadedLock

LEMMA InitMaps == IInv /\ Init => Own!OInit
<1> SUFFICES ASSUME IInv, Init PROVE Own!OInit
    OBVIOUS
<1>1. LoadedLock = NoLock
    BY SentinelAssumption DEF Init, LoadedLock
<1>2. \A p \in Path : LoadedLock.out[p] = None
    BY <1>1 DEF NoLock
<1>3. \A p \in Path : FileOf(p) = "none" /\ ClaimOf(p) = "none" /\ written[p] = None
    BY <1>2 DEF Init, FileOf, ClaimOf, Recorded, NoWrites
<1>4. cmd.force = FALSE /\ busy = None /\ gone = {}
    BY DEF Init, NoCmd
<1> QED BY <1>3, <1>4 DEF Own!OInit

(* The session ends, or one starts.                                        *)
LEMMA SessionMaps ==
    ASSUME UNCHANGED <<tgt, lockFile>>, cmd'.force \in BOOLEAN, busy' = None,
           written' = NoWrites, gone' = {}
    PROVE  Own!SessionStep
<1>1. \A p \in Path : written'[p] = None
    BY DEF NoWrites
<1> QED BY <1>1 DEF Own!SessionStep, FileOf, ClaimOf, Recorded, LoadedLock

LEMMA StartMaps ==
    ASSUME IInv, Start
    PROVE  Own!ONext
<1>1. pc = "idle" /\ busy = None /\ written = NoWrites /\ gone = {}
    BY DEF IInv, PhaseInv, Active, Start, Sync, Link, Unlink
<1>2. UNCHANGED <<tgt, lockFile, busy, written, gone>> /\ cmd' \in Commands
    BY DEF Start, Sync, Link, Unlink, disk, progress
<1>3. cmd'.force \in BOOLEAN
    BY <1>2, SetAssumption DEF Command
<1> QED BY <1>1, <1>2, <1>3, SessionMaps DEF Own!ONext

LEMMA EndMaps ==
    ASSUME EndSession, UNCHANGED <<tgt, lockFile>>
    PROVE  Own!SessionStep
BY EndType, SessionMaps DEF Command

(* Writing an output, and claiming it in memory or after its hash.         *)
LEMMA InstallMaps ==
    ASSUME IInv, NEW p \in Path, NEW bytes \in Bytes, Active, ~Linked,
           MayCopy(p, old.out[p]), Write(p, bytes), busy = None,
           UNCHANGED <<lockFile, cmd, gone>>,
           \/ busy' = p /\ written' = written
           \/ /\ busy' = None
              /\ written' = [written EXCEPT ![p] = bytes]
    PROVE  Own!Install(p)
<1>1. TypeOK /\ old.out[p] = LoadedLock.out[p] /\ LoadedLock' = LoadedLock
    BY DEF IInv, PhaseInv, LoadedLock
<1>2. FileOf(p) = "none" \/ ClaimOf(p) = "installed" \/ cmd.force
    BY <1>1, BytesNotNone DEF MayCopy, FileOf, ClaimOf, Recorded
<1>3. \/ [q \in Path |-> FileOf(q)]' = [[q \in Path |-> FileOf(q)] EXCEPT ![p] = "mars"]
      \/ FileOf(p) # "none" /\ [q \in Path |-> FileOf(q)]' = [q \in Path |-> FileOf(q)]
    <2>1. CASE Identical(p, bytes)
        <3>1. tgt' = tgt /\ tgt[p] # None /\ tgt[p] \in File
            BY <1>1, <2>1 DEF Write, Identical, TypeOK
        <3> QED BY <3>1 DEF FileOf, File
    <2>2. CASE ~Identical(p, bytes)
        <3>1. tgt' = [tgt EXCEPT ![p] = [bytes |-> bytes, by |-> "mars"]]
            BY <2>2 DEF Write
        <3>2. \A q \in Path : FileOf(q)' = IF q = p THEN "mars" ELSE FileOf(q)
            <4>1. [bytes |-> bytes, by |-> "mars"] # None
                BY SentinelAssumption DEF File
            <4> QED BY <1>1, <3>1, <4>1 DEF FileOf, TypeOK
        <3> QED BY <3>2
    <2> QED BY <2>1, <2>2
<1>4. \/ {q \in Path : written[q] # None}' = {q \in Path : written[q] # None} \cup {p}
         /\ busy' = None
      \/ {q \in Path : written[q] # None}' = {q \in Path : written[q] # None}
         /\ busy' = p
    BY <1>1, BytesNotNone DEF TypeOK
<1>5. UNCHANGED <<[q \in Path |-> ClaimOf(q)], cmd.force, gone>>
    BY <1>1 DEF ClaimOf, Recorded
<1> QED BY <1>2, <1>3, <1>4, <1>5 DEF Own!Install, Own!MayInstall

LEMMA CopyMaps ==
    ASSUME IInv, NEW p \in Path, CopyItem(p)
    PROVE  Own!ONext
<1>1. /\ store[p.item] \in Bytes /\ MayCopy(p, old.out[p]) /\ Active /\ ~Linked
    BY PathType DEF IInv, TypeOK, CopyItem, Copies, Bytes, Active, Linked
<1> QED BY <1>1, InstallMaps DEF CopyItem, Own!ONext

LEMMA EmitMaps ==
    ASSUME IInv, NEW p \in Path, EmitOutput(p)
    PROVE  Own!ONext
<1>1. Active /\ ~Linked /\ busy = None /\ busy' = None /\ pc \in Emitting
    BY DEF IInv, PhaseInv, EmitOutput, Emitting, Active, Linked
<1>2. MayCopy(p, old.out[p])
    BY BytesNotNone DEF EmitOutput, EmitClaim, MayCopy
<1>3. Content(p) \in Bytes
    BY EmitContent
<1> QED BY <1>1, <1>2, <1>3, InstallMaps DEF EmitOutput, Own!ONext

LEMMA HashMaps ==
    ASSUME IInv, HashCopied
    PROVE  Own!ONext
<1>1. /\ TypeOK /\ busy \in Path /\ busy # None /\ busy' = None
      /\ UNCHANGED <<tgt, lockFile, cmd, gone>>
    BY DEF IInv, HashCopied, TypeOK, disk
<1>2. {q \in Path : written[q] # None}'
          \in {{q \in Path : written[q] # None}, {q \in Path : written[q] # None} \cup {busy}}
    <2>1. CASE tgt[busy] = None
        BY <2>1 DEF HashCopied
    <2>2. CASE tgt[busy] # None
        <3>1. tgt[busy].bytes # None /\ written' = [written EXCEPT ![busy] = tgt[busy].bytes]
            BY <1>1, <2>2, BytesNotNone DEF HashCopied, TypeOK, File
        <3> QED BY <1>1, <3>1 DEF TypeOK
    <2> QED BY <2>1, <2>2
<1>3. UNCHANGED <<[q \in Path |-> FileOf(q)], [q \in Path |-> ClaimOf(q)], cmd.force>>
    BY <1>1 DEF FileOf, ClaimOf, Recorded, LoadedLock
<1> QED BY <1>1, <1>2, <1>3 DEF Own!Note, Own!ONext

LEMMA RemoveMaps ==
    ASSUME IInv, NEW p \in Path, DropItem(p) \/ RemoveOutput(p)
    PROVE  [Own!ONext]_Own!ovars
<1>1. /\ TypeOK /\ Active /\ ~Linked /\ UNCHANGED <<lockFile, cmd, busy, written>>
    BY DEF IInv, DropItem, RemoveOutput, Active, Linked, Removing
<1>2. CASE UNCHANGED <<tgt, gone>>
    BY <1>1, <1>2, SameOutputs
<1>3. CASE tgt' = [tgt EXCEPT ![p] = None] /\ gone' = gone \cup {p} /\ old.out[p] # None
    <2>1. ClaimOf(p) # "none"
        BY <1>1, <1>3 DEF IInv, PhaseInv, ClaimOf, Recorded
    <2>2. [q \in Path |-> FileOf(q)]' = [[q \in Path |-> FileOf(q)] EXCEPT ![p] = "none"]
        BY <1>1, <1>3 DEF FileOf, TypeOK
    <2>3. /\ [q \in Path |-> ClaimOf(q)]' = [q \in Path |-> ClaimOf(q)]
          /\ {q \in Path : written[q] # None}' = {q \in Path : written[q] # None}
        BY <1>1 DEF ClaimOf, Recorded, LoadedLock
    <2> QED BY <1>1, <1>3, <2>1, <2>2, <2>3 DEF Own!Remove, Own!ONext
<1> QED BY <1>2, <1>3 DEF DropItem, RemoveOutput, IInv, WorkInv

LEMMA PublishMaps ==
    ASSUME IInv, WriteLock
    PROVE  Own!ONext
<1>1. /\ TypeOK /\ pc = "publish" /\ Active /\ ~Linked /\ NewLock # None
    BY NewLockType, SentinelAssumption DEF IInv, WriteLock, Active, Linked
<1>2. LoadedLock' = NewLock /\ UNCHANGED tgt
    BY <1>1 DEF WriteLock, LoadedLock
<1>3. busy' = None /\ written' = NoWrites /\ gone' = {} /\ cmd'.force \in BOOLEAN
    BY <1>1, EndType DEF WriteLock, NoProgress, TypeOK, Command
<1>4. ASSUME NEW p \in Path
      PROVE  /\ ClaimOf(p)' \in {"none", "installed", "pending"}
             /\ ClaimOf(p)' = "installed" => written[p] # None \/ ClaimOf(p) = "installed"
             /\ ClaimOf(p)' = "pending" => ClaimOf(p) # "none" /\ p \notin gone
             /\ ClaimOf(p)' = "none" => ClaimOf(p) = "none" \/ p \in gone
    <2>1. LoadedLock'.out[p] = NewClaim(p) /\ old.out[p] = LoadedLock.out[p]
        BY <1>1, <1>2, PublishedClaims DEF IInv, PhaseInv
    <2>2. ClaimOf(p)' = IF NewClaim(p) = None THEN "none"
                        ELSE IF NewClaim(p) = Pending THEN "pending" ELSE "installed"
        BY <2>1 DEF ClaimOf, Recorded
    <2>3. ClaimOf(p) = IF old.out[p] = None THEN "none"
                       ELSE IF old.out[p] = Pending THEN "pending" ELSE "installed"
        BY <2>1 DEF ClaimOf, Recorded
    <2>4. written[p] \in Bytes \cup {None}
        BY <1>1 DEF TypeOK
    <2>5. CASE written[p] # None
        BY <2>2, <2>4, <2>5, BytesNotNone DEF NewClaim
    <2>6. CASE written[p] = None
        BY <2>2, <2>3, <2>6, BytesNotNone DEF NewClaim
    <2> QED BY <2>5, <2>6
<1>5. \A p \in Path : Own!MayBecome(p, ClaimOf(p)')
    BY <1>4 DEF Own!MayBecome
<1>6. {p \in Path : written[p] # None}' = {}
    BY <1>3 DEF NoWrites
<1>7. [p \in Path |-> FileOf(p)]' = [p \in Path |-> FileOf(p)]
    BY <1>2 DEF FileOf
<1>8. [p \in Path |-> ClaimOf(p)]' \in [Path -> {"none", "installed", "pending"}]
    BY <1>4
<1>9. \A p \in Path : Own!MayBecome(p, [q \in Path |-> ClaimOf(q)]'[p])
    BY <1>5
<1> QED BY <1>3, <1>6, <1>7, <1>8, <1>9 DEF Own!Publish, Own!ONext

LEMMA EditMaps ==
    ASSUME IInv, Edit
    PROVE  [Own!ONext]_Own!ovars
<1>1. CASE EditConfig \/ \E i \in Item : EditStore(i)
    BY <1>1, SameOutputs DEF EditConfig, EditStore, session, progress
<1>2. ASSUME NEW p \in Path, EditTarget(p)
      PROVE  Own!ONext
    <2>1. TypeOK /\ UNCHANGED <<lockFile, cmd, busy, written, gone>>
        BY <1>2 DEF IInv, EditTarget, session, progress
    <2>2. \E f \in {"none", "user"} :
              [q \in Path |-> FileOf(q)]' = [[q \in Path |-> FileOf(q)] EXCEPT ![p] = f]
        <3>1. CASE \E b \in UserBytes : tgt' = [tgt EXCEPT ![p] = [bytes |-> b, by |-> "user"]]
            <4>1. PICK b \in UserBytes : tgt' = [tgt EXCEPT ![p] = [bytes |-> b, by |-> "user"]]
                BY <3>1
            <4>2. [bytes |-> b, by |-> "user"] # None
                BY SentinelAssumption DEF File, Bytes
            <4>3. [q \in Path |-> FileOf(q)]' = [[q \in Path |-> FileOf(q)] EXCEPT ![p] = "user"]
                BY <2>1, <4>1, <4>2 DEF FileOf, TypeOK
            <4> QED BY <4>3
        <3>2. CASE tgt' = [tgt EXCEPT ![p] = None]
            <4>1. [q \in Path |-> FileOf(q)]' = [[q \in Path |-> FileOf(q)] EXCEPT ![p] = "none"]
                BY <2>1, <3>2 DEF FileOf, TypeOK
            <4> QED BY <4>1
        <3> QED BY <1>2, <3>1, <3>2 DEF EditTarget
    <2>3. /\ [q \in Path |-> ClaimOf(q)]' = [q \in Path |-> ClaimOf(q)]
          /\ {q \in Path : written[q] # None}' = {q \in Path : written[q] # None}
        BY <2>1 DEF ClaimOf, Recorded, LoadedLock
    <2> QED BY <2>1, <2>2, <2>3 DEF Own!UserStep, Own!ONext
<1> QED BY <1>1, <1>2 DEF Edit

LEMMA StepMaps ==
    ASSUME IInv, [Next]_vars
    PROVE  [Own!ONext]_Own!ovars
<1>1. CASE Start
    BY <1>1, StartMaps
<1>2. CASE Session
    <2>1. ASSUME NEW p \in Path, PreserveLocal(p) \/ EmitPreserves(p)
          PROVE  [Own!ONext]_Own!ovars
        BY <2>1, SameOutputs DEF PreserveLocal, EmitPreserves, disk
    <2>2. CASE Advance
        BY <2>2, SameOutputs DEF Advance, disk
    <2>3. CASE LinkRefused
        BY <2>3, EndMaps DEF LinkRefused, GiveUp, disk, Own!ONext
    <2>4. CASE SaveConfig
        <3>1. CASE cmd.kind = "link"
            BY <2>4, <3>1, EndMaps DEF SaveConfig, Own!ONext
        <3>2. CASE cmd.kind # "link"
            BY <2>4, <3>2, SameOutputs DEF SaveConfig, progress
        <3> QED BY <3>1, <3>2
    <2> QED
        BY <1>2, <2>1, <2>2, <2>3, <2>4, CopyMaps, RemoveMaps, EmitMaps, HashMaps, PublishMaps
        DEF Session
<1>3. CASE Failure
    <2>1. ASSUME NEW p \in Path, CopyFails(p) \/ EmitFails(p) \/ RemovalFails(p)
          PROVE  [Own!ONext]_Own!ovars
        <3>1. CASE RemovalFails(p) /\ pc = "unlinking"
            BY <3>1, EndMaps DEF RemovalFails, GiveUp, disk, Own!ONext
        <3>2. CASE ~(RemovalFails(p) /\ pc = "unlinking")
            BY <2>1, <3>2, SameOutputs DEF CopyFails, EmitFails, RemovalFails, disk
        <3> QED BY <3>1, <3>2
    <2>2. ASSUME NEW t \in Target, TargetFails(t)
          PROVE  [Own!ONext]_Own!ovars
        BY <2>2, SameOutputs DEF TargetFails, disk
    <2>3. CASE Crash
        BY <2>3, EndMaps DEF Crash, GiveUp, disk, Own!ONext
    <2> QED BY <1>3, <2>1, <2>2, <2>3 DEF Failure
<1>4. CASE Edit
    BY <1>4, EditMaps
<1>5. CASE UNCHANGED vars
    BY <1>5, SameOutputs DEF vars, disk, session, progress
<1> QED BY <1>1, <1>2, <1>3, <1>4, <1>5 DEF Next

(* Every step of every phase and command is one that OutputOwnership       *)
(* allows: only claimed, free or forced paths take Mars's bytes, only      *)
(* claimed ones are deleted, and a claim is given up only for a path seen  *)
(* gone (surface_ownership/mod.rs, target_sync/mod.rs, lock/mod.rs).       *)
THEOREM OwnershipImplemented == Spec => ImplementsOwnership
<1>1. IInv /\ Init => Own!OInit
    BY InitMaps
<1>2. IInv /\ [Next]_vars => [Own!ONext]_Own!ovars
    BY StepMaps
<1> QED BY <1>1, <1>2, Invariance, PTL DEF Spec, ImplementsOwnership, Own!OSpec
-----------------------------------------------------------------------------
(* Who wrote what is recorded, and what a generated hook file runs. JInv   *)
(* is inductive together with IInv.                                        *)

(* The lanes and items that each phase still has to treat.                 *)
LeftInv == \A p \in left :
    /\ pc = "cleaning" => p \notin ToCopy /\ p.target \in Scope
    /\ pc = "unhook" => p.lane = "hookfile"
    /\ pc = "hook" => EmitsHook(p)
    /\ pc \in {"reconcile", "emit"} => p.lane = "native"
    /\ pc = "retry" => old.canon[p.item] = None
    /\ pc = "unlinking" => p.target = cmd.target

(* Bytes of the user are hashed or recorded only where the user wrote      *)
(* between the copy and its hash.                                          *)
RaceInv ==
    /\ ClaimsAreOurs
    /\ \A p \in Path :
           /\ written[p] \in UserBytes => p \in raced
           /\ FileOf(p) = "user" => tgt[p].bytes \in UserBytes
    /\ busy # None => /\ busy.lane = "copy"
                      /\ tgt[busy] # None /\ tgt[busy].bytes \in UserBytes => busy \in raced

(* A session that writes a hook file has written the directory it runs,    *)
(* one that keeps the item removes no copy of it, and unlinking removes    *)
(* all that is claimed in the target or nothing is published.              *)
HookInv ==
    /\ HookFileRunsCopy
    /\ \A p \in Path : p.lane = "hookfile" /\ written[p] # None
           => \E q \in CopyOf(p) : written[q] # None
    /\ Active /\ cmd.kind # "unlink" =>
           \A p \in gone : p.lane = "copy" /\ p.item \notin Agent
                           /\ old.canon[p.item] # None => ~Live(p.item)
    /\ Active /\ cmd.kind = "unlink" =>
           /\ \A p \in gone : p.target = cmd.target
           /\ \A p \in Path : p.target = cmd.target /\ old.out[p] # None
                  => p \in gone \/ (pc = "unlinking" /\ p \in left)

JInv == LeftInv /\ RaceInv /\ HookInv

LEMMA InitJInv == IInv /\ Init => JInv
<1> SUFFICES ASSUME IInv, Init PROVE JInv
    OBVIOUS
<1>1. /\ \A p \in Path : LoadedLock.out[p] = None /\ tgt[p] = None /\ written[p] = None
      /\ left = {} /\ busy = None /\ ~Active
    BY SentinelAssumption DEF Init, LoadedLock, NoLock, NoWrites, Active
<1>2. None \notin UserBytes /\ None \notin Bytes
    BY SentinelAssumption DEF Bytes
<1> QED
    BY <1>1, <1>2
    DEF JInv, LeftInv, RaceInv, ClaimsAreOurs, FileOf, HookInv, HookFileRunsCopy

(* Within a phase: what may be written, hashed and removed.                *)
LEMMA Working ==
    ASSUME IInv, JInv, UNCHANGED <<lockFile, pc, cmd, cfg, old, act>>,
           left' \subseteq left, raced \subseteq raced',
           \A q \in Path : written[q] # None => written'[q] # None,
           \A q \in Path : written'[q] # written[q] =>
               /\ written'[q] \in UserBytes => q \in raced'
               /\ q.lane = "hookfile" => \E r \in CopyOf(q) : written[r] # None,
           \A q \in Path : FileOf(q)' = "user" => tgt'[q].bytes \in UserBytes,
           busy' # None =>
               /\ busy'.lane = "copy"
               /\ tgt'[busy'] # None /\ tgt'[busy'].bytes \in UserBytes => busy' \in raced',
           gone \subseteq gone',
           \A q \in gone' \ gone :
               /\ cmd.kind = "unlink" => q.target = cmd.target
               /\ cmd.kind # "unlink" /\ q.lane = "copy" /\ q.item \notin Agent
                  /\ old.canon[q.item] # None => ~Live(q.item),
           pc = "unlinking" => left \ left' \subseteq gone'
    PROVE  JInv'
<1>1. LoadedLock' = LoadedLock /\ Active' = Active /\ ToCopy' = ToCopy /\ Scope' = Scope
      /\ \A i : Live(i)' = Live(i)
    BY DEF LoadedLock, Active, ToCopy, Scope, Seen, Live
<1>2. LeftInv'
    <2>1. \A p \in Path : EmitsHook(p) => EmitsHook(p)'
        BY <1>1 DEF EmitsHook, CopyOf
    <2>2. left' \subseteq Path
        BY DEF IInv, TypeOK
    <2> QED BY <1>1, <2>1, <2>2 DEF JInv, LeftInv
<1>3. RaceInv'
    <2>1. ClaimsAreOurs'
        BY <1>1 DEF JInv, RaceInv, ClaimsAreOurs
    <2>2. \A p \in Path : written'[p] \in UserBytes => p \in raced'
        BY DEF JInv, RaceInv
    <2> QED BY <2>1, <2>2 DEF RaceInv
<1>4. HookInv'
    <2>1. HookFileRunsCopy'
        BY <1>1 DEF JInv, HookInv, HookFileRunsCopy, CopyOf
    <2>2. ASSUME NEW p \in Path, p.lane = "hookfile", written'[p] # None
          PROVE  \E q \in CopyOf(p) : written'[q] # None
        <3>1. PICK q \in CopyOf(p) : written[q] # None
            BY <2>2 DEF JInv, HookInv
        <3> QED BY <3>1 DEF CopyOf
    <2>3. Active /\ cmd.kind # "unlink" =>
              \A p \in gone' : p.lane = "copy" /\ p.item \notin Agent
                               /\ old.canon[p.item] # None => ~Live(p.item)
        BY DEF JInv, HookInv
    <2>4. Active /\ cmd.kind = "unlink" =>
              /\ \A p \in gone' : p.target = cmd.target
              /\ \A p \in Path : p.target = cmd.target /\ old.out[p] # None
                     => p \in gone' \/ (pc = "unlinking" /\ p \in left')
        BY DEF JInv, HookInv
    <2>5. \A p \in Path : CopyOf(p)' = CopyOf(p)
        BY DEF CopyOf
    <2> QED BY <1>1, <2>1, <2>2, <2>3, <2>4, <2>5 DEF HookInv
<1> QED BY <1>2, <1>3, <1>4 DEF JInv

(* Mars writes contents of packages and of the store, never the user's.    *)
LEMMA WriteKeepsAuthor ==
    ASSUME IInv, JInv, NEW p \in Path, NEW bytes \in Version \cup StoreEdits, Write(p, bytes)
    PROVE  /\ \A q \in Path : FileOf(q)' = "user" => tgt'[q].bytes \in UserBytes
           /\ tgt'[p].bytes = bytes /\ bytes \notin UserBytes
<1>1. TypeOK /\ bytes \notin UserBytes
    BY SetAssumption DEF IInv
<1>2. CASE Identical(p, bytes)
    BY <1>1, <1>2 DEF Write, Identical, JInv, RaceInv, FileOf
<1>3. CASE ~Identical(p, bytes)
    <2>1. tgt' = [tgt EXCEPT ![p] = [bytes |-> bytes, by |-> "mars"]]
        BY <1>3 DEF Write
    <2>2. tgt'[p].bytes = bytes /\ FileOf(p)' # "user"
        BY <1>1, <2>1 DEF TypeOK, FileOf
    <2>3. \A q \in Path : q # p => FileOf(q)' = FileOf(q) /\ tgt'[q] = tgt[q]
        BY <1>1, <2>1 DEF TypeOK, FileOf
    <2> QED BY <1>1, <2>2, <2>3 DEF JInv, RaceInv
<1> QED BY <1>2, <1>3

LEMMA CopyItemJ ==
    ASSUME IInv, JInv, NEW p \in Path, CopyItem(p)
    PROVE  JInv'
<1>1. /\ TypeOK /\ pc = "copying" /\ busy = None /\ p.lane = "copy"
      /\ store[p.item] \in Version \cup StoreEdits /\ Write(p, store[p.item])
      /\ UNCHANGED <<lockFile, pc, cmd, cfg, old, act, gone, raced>> /\ left' \subseteq left
    BY PathType DEF IInv, TypeOK, CopyItem, Copies, ToCopy, history
<1>2. /\ \A q \in Path : FileOf(q)' = "user" => tgt'[q].bytes \in UserBytes
      /\ tgt'[p].bytes = store[p.item] /\ store[p.item] \notin UserBytes
    BY <1>1, WriteKeepsAuthor
<1>3. store[p.item] # None
    BY DEF CopyItem, Copies
<1>4. busy' # None => busy' = p
    BY DEF CopyItem
<1>5. \A q \in Path : written'[q] # written[q] => q = p /\ written'[q] = store[p.item]
    BY <1>1 DEF CopyItem, TypeOK
<1>6. \A q \in Path : written[q] # None => written'[q] # None
    BY <1>3, <1>5
<1> QED BY <1>1, <1>2, <1>4, <1>5, <1>6, Working

LEMMA HashCopiedJ ==
    ASSUME IInv, JInv, HashCopied
    PROVE  JInv'
<1>1. /\ TypeOK /\ busy # None /\ busy \in Path /\ busy.lane = "copy" /\ busy' = None
      /\ UNCHANGED <<tgt, lockFile, pc, cmd, cfg, old, act, left, gone, raced>>
    BY DEF IInv, HashCopied, TypeOK, JInv, RaceInv, disk, history
<1>2. tgt[busy] # None => /\ tgt[busy].bytes # None
                          /\ tgt[busy].bytes \in UserBytes => busy \in raced
    BY <1>1, BytesNotNone DEF TypeOK, File, JInv, RaceInv
<1>3. \A q \in Path : written'[q] # written[q]
          => q = busy /\ tgt[busy] # None /\ written'[q] = tgt[busy].bytes
    BY <1>1 DEF HashCopied, TypeOK
<1>4. \A q \in Path : FileOf(q)' = "user" => tgt'[q].bytes \in UserBytes
    BY <1>1 DEF JInv, RaceInv, FileOf
<1> QED BY <1>1, <1>2, <1>3, <1>4, Working

(* What is passed over disturbs nothing.                                   *)
LEMMA PassingJ ==
    ASSUME IInv, JInv, UNCHANGED <<tgt, lockFile, pc, cmd, cfg, old, act, busy>>,
           UNCHANGED <<written, gone, raced>>, left' \subseteq left,
           pc = "unlinking" => left' = left
    PROVE  JInv'
<1>1. \A q \in Path : FileOf(q)' = "user" => tgt'[q].bytes \in UserBytes
    BY DEF JInv, RaceInv, FileOf
<1>2. busy' # None =>
          /\ busy'.lane = "copy"
          /\ tgt'[busy'] # None /\ tgt'[busy'].bytes \in UserBytes => busy' \in raced'
    BY DEF JInv, RaceInv
<1> QED BY <1>1, <1>2, Working

LEMMA PassingStepsJ ==
    ASSUME IInv, JInv
    PROVE  /\ \A p \in Path : CopyFails(p) \/ PreserveLocal(p) \/ EmitPreserves(p)
                             \/ EmitFails(p) => JInv'
           /\ \A p \in Path : RemovalFails(p) /\ pc # "unlinking" => JInv'
           /\ \A t \in Target : TargetFails(t) => JInv'
<1>1. ASSUME NEW p \in Path, CopyFails(p) PROVE JInv'
    BY <1>1, PassingJ DEF CopyFails, disk
<1>2. ASSUME NEW p \in Path, PreserveLocal(p) PROVE JInv'
    BY <1>2, PassingJ DEF PreserveLocal, disk, history
<1>3. ASSUME NEW p \in Path, EmitPreserves(p) PROVE JInv'
    BY <1>3, PassingJ DEF EmitPreserves, Emitting, disk, history
<1>4. ASSUME NEW p \in Path, EmitFails(p) PROVE JInv'
    BY <1>4, PassingJ DEF EmitFails, Emitting, disk
<1>5. ASSUME NEW p \in Path, RemovalFails(p), pc # "unlinking" PROVE JInv'
    BY <1>5, PassingJ DEF RemovalFails, disk
<1>6. ASSUME NEW t \in Target, TargetFails(t) PROVE JInv'
    BY <1>6, PassingJ DEF TargetFails, disk
<1> QED BY <1>1, <1>2, <1>3, <1>4, <1>5, <1>6

(* Seen as removed, an item that is not an agent is not live.              *)
LEMMA SeenItem ==
    ASSUME NEW i
    PROVE  /\ i \notin Agent => Seen(i) = act[i]
           /\ Seen(i) = "remove" /\ i \notin Agent => ~Live(i)
           /\ Seen(i) \notin {"write", "keep", "skip"} /\ i \notin Agent => ~Live(i)
BY DEF Seen, Live

LEMMA RemovalJ ==
    ASSUME IInv, JInv, NEW p \in Path, DropItem(p) \/ RemoveOutput(p)
    PROVE  JInv'
<1>1. /\ TypeOK /\ p \in left /\ left' = left \ {p}
      /\ UNCHANGED <<lockFile, pc, cmd, cfg, old, act, busy, written, raced>>
    BY DEF IInv, DropItem, RemoveOutput, history
<1>2. CASE UNCHANGED <<tgt, gone>> /\ pc = "copying"
    BY <1>1, <1>2, PassingJ
<1>3. CASE /\ tgt' = [tgt EXCEPT ![p] = None] /\ gone' = gone \cup {p} /\ busy = None
           /\ \/ pc \in Removing
              \/ pc = "copying" /\ p \in ToDrop
    <2>1. \A q \in Path : FileOf(q)' = "user" => tgt'[q].bytes \in UserBytes
        BY <1>1, <1>3 DEF JInv, RaceInv, FileOf, TypeOK
    <2>2. cmd.kind = "unlink" => p.target = cmd.target
        BY <1>1, <1>3 DEF IInv, PhaseInv, Active, Removing, JInv, LeftInv
    <2>3. p.lane = "copy" /\ p.item \notin Agent /\ old.canon[p.item] # None
              => pc = "unlinking" \/ ~Live(p.item)
        BY <1>1, <1>3, SeenItem DEF Removing, JInv, LeftInv, ToCopy, ToDrop
    <2>4. pc = "unlinking" => cmd.kind = "unlink"
        BY DEF IInv, PhaseInv
    <2> QED BY <1>1, <1>3, <2>1, <2>2, <2>3, <2>4, Working
<1> QED BY <1>1, <1>2, <1>3 DEF DropItem, RemoveOutput, IInv, PhaseInv, Removing

LEMMA EmitOutputJ ==
    ASSUME IInv, JInv, NEW p \in Path, EmitOutput(p)
    PROVE  JInv'
<1>1. /\ TypeOK /\ pc \in Emitting /\ p \in left /\ left' \subseteq left
      /\ Write(p, Content(p)) /\ written' = [written EXCEPT ![p] = Content(p)]
      /\ UNCHANGED <<lockFile, pc, cmd, cfg, old, act, busy, gone, raced>>
      /\ pc # "unlinking" /\ busy = None
    BY DEF IInv, PhaseInv, EmitOutput, Emitting, history
<1>2. Content(p) \in Version \cup StoreEdits /\ Content(p) # None
    <2>1. Content(p) \in Bytes
        BY EmitContent
    <2>2. Content(p) \in Version \cup StoreEdits \cup {None}
        BY <1>1, PathType DEF Content, TypeOK, Config
    <2> QED BY <2>1, <2>2, BytesNotNone
<1>3. /\ \A q \in Path : FileOf(q)' = "user" => tgt'[q].bytes \in UserBytes
      /\ Content(p) \notin UserBytes
    BY <1>1, <1>2, WriteKeepsAuthor
<1>4. \A q \in Path : written'[q] # written[q] => q = p /\ written'[q] = Content(p)
    BY <1>1 DEF TypeOK
<1>5. \A q \in Path : written[q] # None => written'[q] # None
    BY <1>2, <1>4
<1>6. p.lane = "hookfile" => \E r \in CopyOf(p) : written[r] # None
    BY <1>1 DEF Emitting, JInv, LeftInv, EmitsHook
<1> QED BY <1>1, <1>3, <1>4, <1>5, <1>6, Working

(* A session starts, from the claims on disk.                              *)
LEMMA StartJ ==
    ASSUME IInv, JInv, Start
    PROVE  JInv'
<1>1. /\ TypeOK /\ pc = "idle" /\ busy = None /\ written = NoWrites /\ gone = {}
      /\ UNCHANGED <<tgt, lockFile, busy, written, gone, raced>>
    BY DEF IInv, PhaseInv, Active, Start, Sync, Link, Unlink, disk, progress, history
<1>2. RaceInv'
    BY <1>1 DEF JInv, RaceInv, ClaimsAreOurs, LoadedLock, FileOf
<1>3. HookFileRunsCopy' /\ \A p \in Path : written'[p] = None
    BY <1>1 DEF JInv, HookInv, HookFileRunsCopy, LoadedLock, CopyOf, NoWrites
<1>4. CASE pc' = "applied" /\ cmd'.kind # "unlink"
    BY <1>1, <1>2, <1>3, <1>4 DEF JInv, LeftInv, HookInv
<1>5. CASE /\ pc' = "unlinking" /\ old' = LoadedLock
           /\ left' = {p \in Path : p.target = cmd'.target /\ Recorded(p)}
    <2>1. LeftInv'
        BY <1>5 DEF LeftInv
    <2>2. HookInv'
        BY <1>1, <1>3, <1>5 DEF HookInv, Recorded, IInv, PhaseInv
    <2> QED BY <1>2, <2>1, <2>2 DEF JInv
<1> QED BY <1>4, <1>5 DEF Start, Sync, Link, Unlink

(* A session ends without publishing anything, or after it did.            *)
LEMMA EndJ ==
    ASSUME EndSession, UNCHANGED raced, HookFileRunsCopy', ClaimsAreOurs',
           \A q \in Path : FileOf(q)' = "user" => tgt'[q].bytes \in UserBytes
    PROVE  JInv'
<1>1. /\ pc' = "idle" /\ left' = {} /\ busy' = None /\ gone' = {}
      /\ \A p \in Path : written'[p] = None
    BY EndType DEF NoWrites
<1>2. None \notin UserBytes
    BY SentinelAssumption DEF Bytes
<1> QED BY <1>1, <1>2 DEF JInv, LeftInv, RaceInv, HookInv, Active

LEMMA AbandonJ ==
    ASSUME IInv, JInv, EndSession, UNCHANGED <<tgt, lockFile, raced>>
    PROVE  JInv'
<1>1. HookFileRunsCopy' /\ ClaimsAreOurs'
    BY DEF JInv, HookInv, RaceInv, HookFileRunsCopy, ClaimsAreOurs, LoadedLock, CopyOf
<1>2. \A q \in Path : FileOf(q)' = "user" => tgt'[q].bytes \in UserBytes
    BY DEF JInv, RaceInv, FileOf
<1> QED BY <1>1, <1>2, EndJ

(* The session goes on to its next phase.                                  *)
LEMMA PhaseJ ==
    ASSUME IInv, JInv, Active, Active',
           UNCHANGED <<tgt, lockFile, cmd, cfg, old, act, busy, written, gone, raced>>,
           LeftInv',
           cmd.kind = "unlink" => pc' # "unlinking" /\ (pc = "unlinking" => left = {})
    PROVE  JInv'
<1>1. LoadedLock' = LoadedLock /\ \A i : Live(i)' = Live(i)
    BY DEF LoadedLock, Live
<1>2. RaceInv'
    BY <1>1 DEF JInv, RaceInv, ClaimsAreOurs, FileOf
<1>3. HookInv'
    <2>1. HookFileRunsCopy'
        BY <1>1 DEF JInv, HookInv, HookFileRunsCopy, CopyOf
    <2> QED BY <1>1, <2>1 DEF JInv, HookInv, CopyOf
<1> QED BY <1>2, <1>3 DEF JInv

LEMMA AdvanceJ ==
    ASSUME IInv, JInv, Advance
    PROVE  JInv'
<1>1. /\ TypeOK /\ pc \in DOMAIN After /\ pc' = After[pc] /\ left' = Work(pc') /\ left = {}
      /\ UNCHANGED <<tgt, lockFile, cmd, cfg, old, act, busy, written, gone, raced>>
    BY DEF IInv, Advance, disk, history
<1>2. /\ cmd.kind = "unlink" => pc' = "save"
      /\ cmd.kind # "unlink" => pc' # "unlinking"
      /\ pc # "idle" /\ pc' # "idle"
    BY <1>1 DEF After, AfterSync, AfterLink, AfterUnlink, TypeOK, Command
<1>3. LeftInv'
    <2> SUFFICES ASSUME NEW p \in left'
                 PROVE  /\ pc' = "cleaning" => p \notin ToCopy /\ p.target \in Scope
                        /\ pc' = "unhook" => p.lane = "hookfile"
                        /\ pc' = "hook" => EmitsHook(p)
                        /\ pc' \in {"reconcile", "emit"} => p.lane = "native"
                        /\ pc' = "retry" => old.canon[p.item] = None
                        /\ pc' # "unlinking"
        <3>1. /\ ToCopy' = ToCopy /\ Scope' = Scope
              /\ \A p \in Path : EmitsHook(p)' = EmitsHook(p)
            BY <1>1 DEF ToCopy, Scope, Seen, EmitsHook, CopyOf, Live
        <3> QED BY <1>1, <3>1, WorkType DEF LeftInv
    <2>1. pc' = "cleaning" => p \notin ToCopy /\ p.target \in Scope
        BY <1>1 DEF Work, Orphans
    <2>2. pc' = "unhook" => p.lane = "hookfile"
        BY <1>1 DEF Work, StaleHooks
    <2>3. pc' = "hook" => EmitsHook(p)
        BY <1>1 DEF Work
    <2>4. pc' \in {"reconcile", "emit"} => p.lane = "native"
        BY <1>1 DEF Work, StaleAgents, Compiles
    <2>5. pc' = "retry" => old.canon[p.item] = None
        BY <1>1 DEF Work, Tombstones
    <2> QED BY <1>2, <2>1, <2>2, <2>3, <2>4, <2>5
<1> QED BY <1>1, <1>2, <1>3, PhaseJ DEF Active

(* What is published of claims: nothing of the user's bytes, and a hook    *)
(* file's claim only with that of a copy it runs.                          *)
LEMMA PublishedRaces ==
    ASSUME IInv, JInv, WriteLock, NEW p \in Path, NewClaim(p) \in UserBytes
    PROVE  p \in raced
<1>1. old.out[p] = LoadedLock.out[p] /\ Pending \notin UserBytes /\ None \notin UserBytes
    BY SentinelAssumption DEF IInv, PhaseInv, WriteLock, Active, Linked, Bytes
<1> QED BY <1>1 DEF NewClaim, JInv, RaceInv, ClaimsAreOurs

LEMMA PublishedHooks ==
    ASSUME IInv, JInv, WriteLock, NEW p \in Path, p.lane = "hookfile", NewClaim(p) \in Bytes
    PROVE  \E q \in CopyOf(p) : NewClaim(q) \in Bytes
<1>1. /\ TypeOK /\ pc = "publish" /\ Active /\ old.out = LoadedLock.out
      /\ p.item \in Item /\ p.item \notin Agent
      /\ cmd.kind \in {"sync", "link", "unlink"}
    BY PathAssumption DEF IInv, PhaseInv, WriteLock, Active, Linked, TypeOK, Command
<1>2. CASE written[p] # None
    <2>1. PICK q \in CopyOf(p) : written[q] # None
        BY <1>2 DEF JInv, HookInv
    <2>2. NewClaim(q) \in Bytes
        BY <1>1, <2>1 DEF NewClaim, TypeOK, CopyOf
    <2> QED BY <2>2
<1>3. CASE written[p] = None
    <2>1. /\ old.out[p] \in Bytes /\ old.out[p] # None /\ p \notin gone
          /\ cmd.kind = "sync" => NewCanon(p.item) # None
        BY <1>3, BytesNotNone DEF NewClaim
    <2>2. PICK q \in CopyOf(p) : old.out[q] \in Bytes
        BY <1>1, <2>1 DEF JInv, HookInv, HookFileRunsCopy
    <2>3. q \in Path /\ q.lane = "copy" /\ q.item = p.item /\ q.target = p.target
        BY DEF CopyOf
    <2>4. q \notin gone
        <3>1. CASE cmd.kind = "unlink"
            BY <1>1, <2>1, <2>3, <3>1 DEF JInv, HookInv
        <3>2. CASE cmd.kind # "unlink"
            <4>1. old.canon[p.item] # None
                BY <1>1, <2>1 DEF IInv, OwnerInv
            <4>2. Live(p.item)
                <5>1. CASE cmd.kind = "sync"
                    BY <1>1, <2>1, <5>1 DEF NewCanon, Live
                <5>2. CASE cmd.kind = "link"
                    BY <1>1, <4>1, <5>2 DEF IInv, OutcomeInv, Live
                <5> QED BY <1>1, <3>2, <5>1, <5>2
            <4> QED BY <1>1, <2>3, <3>2, <4>1, <4>2 DEF JInv, HookInv
        <3> QED BY <3>1, <3>2
    <2>5. written[q] \in Bytes \cup {None} /\ old.out[q] # None
        BY <1>1, <2>2, <2>3, BytesNotNone DEF TypeOK
    <2>6. NewClaim(q) \in Bytes
        BY <2>1, <2>2, <2>3, <2>4, <2>5 DEF NewClaim
    <2> QED BY <2>6
<1> QED BY <1>2, <1>3

LEMMA WriteLockJ ==
    ASSUME IInv, JInv, WriteLock
    PROVE  JInv'
<1>1. /\ LoadedLock' = NewLock /\ UNCHANGED <<tgt, raced>> /\ pc = "publish"
      /\ \A p \in Path : NewLock.out[p] = NewClaim(p)
    BY NewLockType, SentinelAssumption DEF IInv, WriteLock, LoadedLock, NewLock
<1>2. ClaimsAreOurs'
    BY <1>1, PublishedRaces DEF ClaimsAreOurs
<1>3. HookFileRunsCopy'
    <2>1. \A p \in Path : CopyOf(p)' = CopyOf(p) /\ CopyOf(p) \subseteq Path
        BY DEF CopyOf
    <2> QED BY <1>1, <2>1, PublishedHooks DEF HookFileRunsCopy
<1>4. \A q \in Path : FileOf(q)' = "user" => tgt'[q].bytes \in UserBytes
    BY <1>1 DEF JInv, RaceInv, FileOf
<1>5. CASE cmd.kind # "link"
    BY <1>1, <1>2, <1>3, <1>4, <1>5, EndJ DEF WriteLock
<1>6. CASE cmd.kind = "link"
    <2>1. /\ pc' = "save" /\ left' = {} /\ busy' = None /\ gone' = {} /\ cmd' = cmd
          /\ \A p \in Path : written'[p] = None
        BY <1>6 DEF WriteLock, NoProgress, NoWrites
    <2>2. None \notin UserBytes
        BY SentinelAssumption DEF Bytes
    <2> QED BY <1>2, <1>3, <1>4, <1>6, <2>1, <2>2
        DEF JInv, LeftInv, RaceInv, HookInv
<1> QED BY <1>5, <1>6

LEMMA SaveConfigJ ==
    ASSUME IInv, JInv, SaveConfig
    PROVE  JInv'
<1>1. pc = "save" /\ UNCHANGED <<tgt, lockFile, raced>>
    BY DEF SaveConfig, history
<1>2. CASE cmd.kind = "link"
    BY <1>1, <1>2, AbandonJ DEF SaveConfig
<1>3. CASE cmd.kind # "link"
    <2>1. pc' = "publish" /\ UNCHANGED <<cmd, cfg, old, act, progress>>
        BY <1>3 DEF SaveConfig
    <2>2. LeftInv'
        BY <2>1 DEF LeftInv
    <2> QED BY <1>1, <2>1, <2>2, PhaseJ DEF Active, progress
<1> QED BY <1>2, <1>3

LEMMA EditJ ==
    ASSUME IInv, JInv, Edit
    PROVE  JInv'
<1>1. CASE EditConfig \/ \E i \in Item : EditStore(i)
    BY <1>1, PassingJ DEF EditConfig, EditStore, session, progress
<1>2. ASSUME NEW p \in Path, EditTarget(p)
      PROVE  JInv'
    <2>1. /\ TypeOK /\ raced \subseteq raced' /\ (busy = p => p \in raced')
          /\ UNCHANGED <<lockFile, pc, cmd, cfg, old, act, busy, written, gone, left>>
        BY <1>2 DEF IInv, EditTarget, session, progress
    <2>2. /\ \A q \in Path : q # p => tgt'[q] = tgt[q]
          /\ FileOf(p)' = "user" => tgt'[p].bytes \in UserBytes
        BY <1>2, <2>1 DEF EditTarget, FileOf, TypeOK
    <2>3. \A q \in Path : FileOf(q)' = "user" => tgt'[q].bytes \in UserBytes
        BY <2>2 DEF JInv, RaceInv, FileOf
    <2>4. busy' # None =>
              /\ busy'.lane = "copy"
              /\ tgt'[busy'] # None /\ tgt'[busy'].bytes \in UserBytes => busy' \in raced'
        BY <2>1, <2>2 DEF JInv, RaceInv, TypeOK
    <2> QED BY <2>1, <2>3, <2>4, Working
<1> QED BY <1>1, <1>2 DEF Edit

LEMMA NextJInv ==
    ASSUME IInv, JInv, [Next]_vars
    PROVE  JInv'
<1>1. CASE Start
    BY <1>1, StartJ
<1>2. CASE Session
    <2>1. CASE LinkRefused
        BY <2>1, AbandonJ DEF LinkRefused, GiveUp, disk
    <2> QED
        BY <1>2, <2>1, CopyItemJ, PassingStepsJ, RemovalJ, EmitOutputJ, HashCopiedJ, AdvanceJ,
           WriteLockJ, SaveConfigJ
        DEF Session
<1>3. CASE Failure
    <2>1. CASE Crash
        BY <2>1, AbandonJ DEF Crash, GiveUp, disk
    <2>2. ASSUME NEW p \in Path, RemovalFails(p), pc = "unlinking" PROVE JInv'
        BY <2>2, AbandonJ DEF RemovalFails, GiveUp, disk
    <2> QED BY <1>3, <2>1, <2>2, PassingStepsJ DEF Failure
<1>4. CASE Edit
    BY <1>4, EditJ
<1>5. CASE UNCHANGED vars
    BY <1>5, PassingJ DEF vars, disk, session, progress, history
<1> QED BY <1>1, <1>2, <1>3, <1>4, <1>5 DEF Next

LEMMA JInvariance == Spec => []JInv
<1>1. Init => IInv
    BY InitIInv
<1> QED BY <1>1, InitJInv, NextJInv, Invariance, PTL DEF Spec

(* Whatever races, crashes and retries there were, mars.lock records no    *)
(* bytes of the user as installed, but where the user wrote a path between *)
(* its copy and the hash that is read back (target_sync/mod.rs, the copy   *)
(* step and the checksum read back from the target).                       *)
THEOREM ClaimsOurs == Spec => []ClaimsAreOurs
<1>1. JInv => ClaimsAreOurs
    BY DEF JInv, RaceInv
<1> QED BY <1>1, JInvariance, PTL

(* No generated hook file is on record as installed without the copy of    *)
(* the directory whose script it runs, after any mixture of syncs, links,  *)
(* unlinks, failing removals and kills (sync/mod.rs, hook emission gated   *)
(* on what target sync installed).                                         *)
THEOREM HookFilesRun == Spec => []HookFileRunsCopy
<1>1. JInv => HookFileRunsCopy
    BY DEF JInv, HookInv
<1> QED BY <1>1, JInvariance, PTL

(* What an unforced session does to a copy whose item is unchanged and     *)
(* that the user has edited: nothing, unless a race recorded the edit.     *)
EditKept == \A p \in ToCopy :
    /\ pc \notin {"idle", "unlinking"} /\ ~cmd.force /\ Seen(p.item) = "skip"
    /\ FileOf(p) = "user" /\ edits' = edits
    => tgt'[p] = tgt[p] \/ p \in raced

LEMMA EditKeptByWriting ==
    ASSUME IInv, JInv, NEW p \in ToCopy, NEW q \in Path, ~cmd.force,
           pc \notin {"idle", "unlinking"}, Seen(p.item) = "skip", FileOf(p) = "user",
           \/ CopyItem(q) \/ DropItem(q) \/ RemoveOutput(q) \/ EmitOutput(q)
    PROVE  tgt'[p] = tgt[p] \/ p \in raced
<1>1. /\ TypeOK /\ p \in Path /\ p.lane = "copy" /\ p.item \in Item
      /\ tgt[p] # None /\ tgt[p].bytes \in UserBytes
    BY PathAssumption DEF IInv, JInv, RaceInv, ToCopy, FileOf
<1>2. CASE q # p
    <2>1. tgt'[p] = tgt[p]
        BY <1>1, <1>2 DEF CopyItem, DropItem, RemoveOutput, EmitOutput, Write, TypeOK
    <2> QED BY <2>1
<1>3. CASE q = p /\ CopyItem(p)
    <2>1. tgt[p].bytes \in {old.out[p], old.canon[p.item]}
        BY <1>1, <1>3 DEF CopyItem, Copies, WantsCopy
    <2>2. old.canon[p.item] \notin UserBytes
        BY <1>1, SetAssumption, SentinelAssumption DEF TypeOK, Lock, Bytes
    <2>3. old.out[p] = LoadedLock.out[p]
        BY <1>3 DEF CopyItem, IInv, PhaseInv, Active, Linked
    <2> QED BY <1>1, <2>1, <2>2, <2>3 DEF JInv, RaceInv, ClaimsAreOurs
<1>4. CASE q = p /\ (DropItem(p) \/ EmitOutput(p))
    BY <1>1, <1>4 DEF DropItem, ToDrop, EmitOutput, Emitting, JInv, LeftInv, EmitsHook
<1>5. CASE q = p /\ RemoveOutput(p)
    <2>1. pc \in {"cleaning", "unhook", "reconcile", "retry"} /\ p \in left /\ cmd.kind # "unlink"
        BY <1>5 DEF RemoveOutput, Removing, IInv, PhaseInv, Active
    <2>2. act[p.item] = "skip"
        BY <1>1 DEF Seen, TypeOK, Config
    <2>3. old.canon[p.item] # None
        BY <1>1, <2>1, <2>2 DEF IInv, OutcomeInv, Active
    <2> QED BY <1>1, <2>1, <2>3 DEF JInv, LeftInv
<1> QED BY <1>2, <1>3, <1>4, <1>5

(* Only an edit, a copy, an emission or a removal changes an output.       *)
LEMMA OutputsChanged ==
    ASSUME IInv, [Next]_vars, tgt' # tgt
    PROVE  \/ edits' # edits
           \/ \E q \in Path : CopyItem(q) \/ DropItem(q) \/ RemoveOutput(q) \/ EmitOutput(q)
<1>1. CASE Start \/ UNCHANGED vars
    BY <1>1 DEF Start, Sync, Link, Unlink, vars, disk
<1>2. CASE Session
    BY <1>2
    DEF Session, PreserveLocal, EmitPreserves, HashCopied, Advance, LinkRefused, WriteLock,
        SaveConfig, disk
<1>3. CASE Failure
    BY <1>3 DEF Failure, CopyFails, RemovalFails, EmitFails, TargetFails, Crash, disk
<1>4. CASE Edit
    <2>1. edits + 1 # edits
        BY DEF IInv, TypeOK
    <2> QED BY <1>4, <2>1 DEF Edit, EditConfig, EditTarget, EditStore
<1> QED BY <1>1, <1>2, <1>3, <1>4 DEF Next

(* No phase of an unforced session (copies, cleanup, hooks, agents, retried *)
(* deletions) changes the user's edit of a copy whose item is unchanged    *)
(* (target_sync/mod.rs, the divergence check; lock/mod.rs, tombstones).    *)
THEOREM EditsKept == Spec => EditedCopyKept
<1>1. IInv /\ JInv /\ [Next]_vars => [EditKept]_vars
    BY EditKeptByWriting, OutputsChanged DEF EditKept, ToCopy
<1> QED BY <1>1, Invariance, JInvariance, PTL DEF Spec, EditedCopyKept, EditKept
==============================================================================
