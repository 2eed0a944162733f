---------------------------- MODULE Provide_proofs ----------------------------
(***************************************************************************)
(* Theorems about Provide, for any number of hosts, providers, names and   *)
(* sources, and any number of edits, faults and syncs.                     *)
(***************************************************************************)
EXTENDS Provide, TLAPS

-----------------------------------------------------------------------------
(* The inductive invariant                                                 *)

(* Who plans or writes holds the flock, and only he has a directory open.  *)
LockInv ==
    /\ \A p \in Proc : pc[p] \in {"locked", "apply"} <=> flock = p
    /\ \A p \in Proc : pc[p] # "idle" => src[p] \in Source
    /\ cur # NoName => cur \in todo /\ \E p \in Proc : pc[p] = "apply"

(* A name is recorded under the provider it belongs to.                    *)
RecordInv == record \in [Provider -> Entry] =>
    \A q \in Provider, n \in Name : n \in record[q].skills => Owner[n] = q

(* While a run writes, the record lists, as pending, all it may touch.     *)
PlanInv(p) ==
    /\ journal = {}
    /\ record \in [Provider -> Entry]
    /\ record[src[p].provider] = [of |-> Pending, skills |-> seen[p].skills \cup keep]
    /\ todo \subseteq keep /\ keep \subseteq Shipped(src[p])
    /\ drop \subseteq seen[p].skills \ keep

(* What it has left to do was free or on record when it planned; what it   *)
(* has done is in place, as far as the user lets it.                       *)
DiskInv(p) ==
    /\ \A n \in todo : dir[n] # Absent => n \in touched \cup seen[p].skills
    /\ \A n \in keep \ todo : n \notin touched => Same(src[p], n)
    /\ \A n \in keep \ todo :
           dir[n] # Absent /\ dir[n].by = "provide" => Same(src[p], n)
    /\ \A n \in seen[p].skills \ (keep \cup drop \cup claims) :
           dir[n] = Absent \/ (n \in touched /\ dir[n].by = "user")

WorkInv == \A p \in Proc : pc[p] = "apply" => PlanInv(p) /\ DiskInv(p)

IInv == TypeOK /\ LockInv /\ RecordInv /\ WorkInv /\ ProvidedCovered /\ DigestTrue

-----------------------------------------------------------------------------
(* Constants and helpers                                                   *)

LEMMA Constants ==
    /\ \A s \in Source : s.provider \in Provider /\ s.skills \in [Name -> Bytes \cup {NoSkill}]
    /\ \A s \in Source : \A n \in Shipped(s) : n \in Name /\ s.skills[n] \in Bytes
                                           /\ Owner[n] = s.provider
    /\ \A p \in Proc : p # Free /\ p # Sync
    /\ Package \in Bytes /\ Torn \in Bytes /\ UserBytes \subseteq Bytes
    /\ \A b \in Bytes, w \in Writers : [bytes |-> b, by |-> w] # Absent
    /\ Corrupt \notin [Provider -> Entry] /\ Newer \notin [Provider -> Entry]
    /\ \A s \in Source : s # Pending /\ s # NoSource /\ s # Never
    /\ NoName \notin Name
BY NameAssumption, SentinelAssumption DEF Shipped

LEMMA EntryType ==
    /\ NoEntry \in Entry /\ NoEntry.skills = {}
    /\ NoRecord \in [Provider -> Entry]
    /\ \A e \in Entry : e.skills \subseteq Name
    /\ \A of \in Source \cup {Pending, Never} : \A names \in SUBSET Name :
           [of |-> of, skills |-> names] \in Entry
BY DEF Entry, NoEntry, NoRecord

LEMMA LoadedType ==
    ASSUME TypeOK, record # Newer
    PROVE  Loaded \in [Provider -> Entry]
BY EntryType DEF TypeOK, Loaded

(* What the end of a run, or a step before it has the flock, leaves.       *)
Away(p) ==
    /\ \A q \in Proc \ {p} : pc'[q] = pc[q] /\ src'[q] = src[q] /\ seen'[q] = seen[q]
    /\ pc'[p] \notin {"locked", "apply"}
    /\ pc'[p] # "idle" => src'[p] \in Source
    /\ IF flock = p THEN flock' = Free /\ cur' = NoName
                    ELSE UNCHANGED <<flock, touched, work>>
    /\ flock' \in Proc \cup {Free, Sync}
    /\ pc' \in [Proc -> PC]
    /\ src' \in [Proc -> Source \cup {NoSource}]
    /\ seen' \in [Proc -> Entry]
    /\ seenClaims' \in [Proc -> SUBSET Name]
    /\ {todo', drop', keep'} \subseteq SUBSET Name
    /\ cur' \in Name \cup {NoName}
    /\ stash' \in MaybeDir
    /\ touched' \subseteq Name

LEMMA ExitAway == ASSUME TypeOK, NEW p \in Proc, Exit(p) PROVE Away(p)
<1>1. /\ pc' \in [Proc -> PC] /\ pc'[p] = "idle"
      /\ \A q \in Proc \ {p} : pc'[q] = pc[q] /\ src'[q] = src[q] /\ seen'[q] = seen[q]
    BY DEF TypeOK, Exit, PC
<1>2. /\ src' \in [Proc -> Source \cup {NoSource}]
      /\ seenClaims' \in [Proc -> SUBSET Name]
    BY DEF TypeOK, Exit
<1>3. seen' \in [Proc -> Entry]
    BY EntryType DEF TypeOK, Exit
<1>4. /\ IF flock = p THEN flock' = Free /\ cur' = NoName
                      ELSE UNCHANGED <<flock, touched, work>>
      /\ flock' \in Proc \cup {Free, Sync} /\ touched' \subseteq Name
      /\ {todo', drop', keep'} \subseteq SUBSET Name
      /\ cur' \in Name \cup {NoName} /\ stash' \in MaybeDir
    BY DEF TypeOK, Exit, MaybeDir, work
<1> QED BY <1>1, <1>2, <1>3, <1>4 DEF Away

(* The steps of a run without the flock, and those that end it and write   *)
(* nothing.                                                                *)
Looks(p) ==
    \/ Launch(p) \/ FastPending(p) \/ FastRecord(p) \/ FastClaims(p) \/ FastScan(p)
    \/ (TryLock(p) /\ flock # Free) \/ NothingToDo(p) \/ NameTaken(p) \/ Kill(p)

LEMMA LooksAway ==
    ASSUME IInv, NEW p \in Proc, Looks(p)
    PROVE  Away(p) /\ UNCHANGED <<disk, sync>> /\ {edits', faults', syncs'} \subseteq Nat
                   /\ edits' = edits
<1>0. TypeOK /\ LockInv
    BY DEF IInv
<1>1. CASE Launch(p)
    <2>1. PICK s \in Hosts[p] :
              /\ pc[p] = "idle" /\ pc' = [pc EXCEPT ![p] = "start"]
              /\ src' = [src EXCEPT ![p] = s]
              /\ UNCHANGED <<disk, flock, seen, seenClaims, work, sync, touched, bounds>>
        BY <1>1 DEF Launch
    <2>2. s \in Source
        BY <2>1, NameAssumption
    <2>3. flock # p
        BY <1>0, <2>1 DEF LockInv
    <2> QED BY <1>0, <2>1, <2>2, <2>3 DEF TypeOK, Away, PC, work, bounds
<1>2. CASE \/ FastPending(p) \/ FastRecord(p) \/ FastClaims(p) \/ FastScan(p)
    <2>0. flock # p /\ pc[p] # "idle" /\ src[p] \in Source
        BY <1>0, <1>2 DEF LockInv, FastPending, FastRecord, FastClaims, FastScan
    <2>1. CASE Exit(p)
        BY <1>0, <1>2, <2>1, ExitAway
           DEF FastPending, FastRecord, FastClaims, FastScan, bounds, TypeOK
    <2>2. CASE ~Exit(p) /\ ~FastRecord(p)
        <3>1. /\ pc' \in {[pc EXCEPT ![p] = label] : label \in {"record", "scan", "lock"}}
              /\ seenClaims' \in [Proc -> SUBSET Name]
              /\ UNCHANGED <<disk, flock, src, seen, work, sync, touched, bounds>>
            BY <1>0, <1>2, <2>2
               DEF FastPending, FastClaims, FastScan, Goto, TypeOK, answer
        <3> QED BY <1>0, <2>0, <3>1 DEF TypeOK, Away, PC, work, bounds
    <2>3. CASE ~Exit(p) /\ FastRecord(p)
        <3>1. Loaded[src[p].provider] \in Entry
            BY <1>0, <2>0, <2>3, LoadedType, Constants DEF FastRecord
        <3>2. /\ pc' \in {[pc EXCEPT ![p] = label] : label \in {"claims", "lock"}}
              /\ seen' = [seen EXCEPT ![p] = Loaded[src[p].provider]]
              /\ UNCHANGED <<disk, flock, src, seenClaims, work, sync, touched, bounds>>
            BY <2>3 DEF FastRecord
        <3> QED BY <1>0, <2>0, <3>1, <3>2 DEF TypeOK, Away, PC, work, bounds
    <2> QED BY <1>2, <2>1, <2>2, <2>3
<1>3. CASE (TryLock(p) /\ flock # Free) \/ NothingToDo(p) \/ NameTaken(p)
    BY <1>0, <1>3, ExitAway DEF TryLock, NothingToDo, NameTaken, bounds, TypeOK
<1>4. CASE Kill(p)
    BY <1>0, <1>4, ExitAway DEF Kill, TypeOK
<1> QED BY <1>1, <1>2, <1>3, <1>4 DEF Looks


LEMMA AwayLock ==
    ASSUME IInv, NEW p \in Proc, Away(p)
    PROVE  /\ LockInv'
           /\ \A q \in Proc : pc'[q] = "apply" =>
                  /\ pc[q] = "apply" /\ flock # p
                  /\ src'[q] = src[q] /\ seen'[q] = seen[q]
<1>0. LockInv /\ TypeOK
    BY DEF IInv
<1>1. \A q \in Proc : pc'[q] \in {"locked", "apply"} <=> flock' = q
    BY <1>0, Constants DEF LockInv, Away
<1>2. \A q \in Proc : pc'[q] # "idle" => src'[q] \in Source
    BY <1>0 DEF LockInv, Away
<1>3. \A q \in Proc : pc'[q] = "apply" =>
          /\ pc[q] = "apply" /\ flock # p
          /\ src'[q] = src[q] /\ seen'[q] = seen[q]
    BY <1>0 DEF LockInv, Away
<1>4. cur' # NoName => cur' \in todo' /\ \E q \in Proc : pc'[q] = "apply"
    <2>1. SUFFICES ASSUME cur' # NoName
                   PROVE  cur' \in todo' /\ \E q \in Proc : pc'[q] = "apply"
        OBVIOUS
    <2>2. flock # p /\ UNCHANGED work
        BY <2>1 DEF Away
    <2>3. PICK q \in Proc : pc[q] = "apply" /\ cur \in todo
        BY <1>0, <2>1, <2>2 DEF LockInv, work
    <2> QED BY <1>0, <2>2, <2>3 DEF LockInv, Away, work
<1> QED BY <1>1, <1>2, <1>3, <1>4 DEF LockInv

LEMMA AwayKeeps ==
    ASSUME IInv, NEW p \in Proc, Away(p), UNCHANGED <<disk, sync>>,
           {edits', faults', syncs'} \subseteq Nat
    PROVE  IInv'
<1>0. TypeOK /\ RecordInv /\ WorkInv /\ ProvidedCovered /\ DigestTrue
    BY DEF IInv
<1>1. TypeOK'
    BY <1>0 DEF TypeOK, Away, disk, sync
<1>2. RecordInv' /\ ProvidedCovered' /\ DigestTrue'
    BY <1>0 DEF RecordInv, ProvidedCovered, DigestTrue, Recorded, disk
<1>3. ASSUME NEW q \in Proc, pc'[q] = "apply"
      PROVE  PlanInv(q)' /\ DiskInv(q)'
    <2>1. /\ pc[q] = "apply" /\ UNCHANGED <<flock, touched, work>>
          /\ src'[q] = src[q] /\ seen'[q] = seen[q]
        BY <1>3, AwayLock DEF Away
    <2>2. PlanInv(q) /\ DiskInv(q)
        BY <1>0, <2>1 DEF WorkInv
    <2> QED BY <2>1, <2>2 DEF PlanInv, DiskInv, Same, Holds, disk, work
<1> QED BY <1>1, <1>2, <1>3, AwayLock DEF IInv, WorkInv

(* The steps that end a run with a write: the record is final, a copy is   *)
(* put back, a removal is interrupted.                                     *)
LEMMA FinalRecordKeeps == ASSUME IInv, NEW p \in Proc, FinalRecord(p) PROVE IInv'
<1>0. /\ TypeOK /\ LockInv /\ RecordInv /\ ProvidedCovered /\ DigestTrue
      /\ PlanInv(p) /\ DiskInv(p) /\ todo = {} /\ drop = {} /\ pc[p] = "apply"
    BY DEF IInv, WorkInv, FinalRecord, Record
<1>1. Exit(p) /\ UNCHANGED <<dir, claims, journal, sync, bounds>> /\ flock = p
    BY <1>0 DEF FinalRecord, Record, LockInv
<1>2. Away(p)
    BY <1>0, <1>1, ExitAway
<1>3. src[p] \in Source /\ src[p].provider \in Provider /\ keep \subseteq Name
    BY <1>0, Constants DEF LockInv, TypeOK
<1>4. /\ record' = [record EXCEPT ![src[p].provider] = [of |-> src[p], skills |-> keep]]
      /\ record' \in [Provider -> Entry]
    <2>1. Loaded = record
        BY <1>0, Constants DEF PlanInv, Loaded
    <2>2. [of |-> src[p], skills |-> keep] \in Entry
        BY <1>3, EntryType
    <2> QED BY <1>0, <2>1, <2>2 DEF FinalRecord, Record, PlanInv
<1>5. TypeOK'
    BY <1>0, <1>1, <1>2, <1>4 DEF TypeOK, Away, bounds, sync
<1>6. \A n \in keep : n \in Name /\ Owner[n] = src[p].provider
    BY <1>0, <1>3, Constants DEF PlanInv
<1>7. RecordInv'
    BY <1>0, <1>3, <1>4, <1>6 DEF RecordInv, PlanInv
<1>8. \A n \in Name : Recorded(n) =>
          Recorded(n)' \/ n \in seen[p].skills \ keep
    BY <1>0, <1>3, <1>4 DEF Recorded, PlanInv, RecordInv
<1>9. ProvidedCovered'
    <2>1. SUFFICES ASSUME NEW n \in Name, dir[n] # Absent, dir[n].by \in {"provide", "edited"}
                   PROVE  Recorded(n)' \/ n \in claims
        BY <1>1 DEF ProvidedCovered
    <2>2. Recorded(n) \/ n \in claims
        BY <1>0, <2>1 DEF ProvidedCovered
    <2> QED BY <1>0, <1>8, <2>1, <2>2 DEF DiskInv
<1>10. DigestTrue'
    <2>1. SUFFICES ASSUME NEW n \in Name, dir[n] # Absent, dir[n].by = "provide",
                          Recorded(n)', record'[Owner[n]].of \in Source
                   PROVE  dir[n].bytes = record'[Owner[n]].of.skills[n]
        BY <1>1 DEF DigestTrue
    <2>2. CASE Owner[n] = src[p].provider
        <3>1. record'[Owner[n]] = [of |-> src[p], skills |-> keep] /\ n \in keep
            BY <1>0, <1>3, <1>4, <2>1, <2>2 DEF PlanInv, Recorded
        <3> QED BY <1>0, <2>1, <3>1 DEF DiskInv, Same, Holds
    <2>3. CASE Owner[n] # src[p].provider
        <3>1. record'[Owner[n]] = record[Owner[n]] /\ Recorded(n)
            BY <1>0, <1>3, <1>4, <2>1, <2>3 DEF PlanInv, Recorded
        <3> QED BY <1>0, <2>1, <3>1 DEF DigestTrue
    <2> QED BY <2>2, <2>3
<1> QED BY <1>1, <1>2, <1>5, <1>7, <1>9, <1>10, AwayLock DEF IInv, WorkInv

(* A run that writes writes under names that are on record as pending.     *)
LEMMA WriteCovered ==
    ASSUME IInv, NEW p \in Proc, pc[p] = "apply",
           NEW n \in seen[p].skills \cup keep, NEW d \in MaybeDir,
           dir' = [dir EXCEPT ![n] = d], UNCHANGED <<record, claims>>
    PROVE  n \in Name /\ Owner[n] = src[p].provider
           /\ dir' \in [Name -> MaybeDir] /\ RecordInv' /\ ProvidedCovered' /\ DigestTrue'
<1>0. /\ TypeOK /\ LockInv /\ RecordInv /\ ProvidedCovered /\ DigestTrue /\ PlanInv(p)
    BY DEF IInv, WorkInv
<1>1. src[p] \in Source /\ src[p].provider \in Provider /\ seen[p].skills \subseteq Name
    BY <1>0, Constants, EntryType DEF LockInv, TypeOK
<1>2. n \in Name /\ keep \subseteq Name
    BY <1>0, <1>1 DEF TypeOK
<1>3. Owner[n] = src[p].provider
    BY <1>0, <1>1, <1>2 DEF PlanInv, RecordInv
<1>4. Recorded(n) /\ record[Owner[n]].of = Pending
    BY <1>0, <1>3 DEF PlanInv, Recorded
<1>5. dir' \in [Name -> MaybeDir] /\ \A m \in Name \ {n} : dir'[m] = dir[m]
    BY <1>0, <1>2 DEF TypeOK
<1>6. RecordInv' /\ \A m : Recorded(m)' <=> Recorded(m)
    BY <1>0 DEF RecordInv, Recorded
<1>7. ProvidedCovered'
    BY <1>0, <1>4, <1>5, <1>6 DEF ProvidedCovered
<1>8. DigestTrue'
    BY <1>0, <1>4, <1>5, <1>6, Constants DEF DigestTrue
<1> QED BY <1>2, <1>3, <1>5, <1>6, <1>7, <1>8

(* A run that fails while it writes.                                       *)
Fails(p) ==
    \/ PlaceFails(p)
    \/ \E n \in Name : Remove(p, n) /\ Exit(p)

LEMMA FailsKeeps == ASSUME IInv, NEW p \in Proc, Fails(p) PROVE IInv'
<1>0. TypeOK /\ LockInv /\ WorkInv
    BY DEF IInv
<1>1. /\ pc[p] = "apply" /\ Exit(p)
      /\ UNCHANGED <<record, claims, journal, sync>>
      /\ {edits', faults', syncs'} \subseteq Nat
      /\ \E n \in seen[p].skills \cup keep, d \in MaybeDir : dir' = [dir EXCEPT ![n] = d]
    <2>1. CASE PlaceFails(p)
        <3>1. cur \in keep
            BY <1>0, <2>1 DEF PlaceFails, LockInv, WorkInv, PlanInv
        <3>2. {edits', faults', syncs'} \subseteq Nat
            BY <1>0, <2>1 DEF PlaceFails, TypeOK
        <3>3. stash \in MaybeDir /\ dir' = [dir EXCEPT ![cur] = stash]
            BY <1>0, <2>1 DEF PlaceFails, TypeOK
        <3>4. pc[p] = "apply" /\ Exit(p) /\ UNCHANGED <<record, claims, journal, sync>>
            BY <2>1 DEF PlaceFails
        <3> QED BY <3>1, <3>2, <3>3, <3>4
    <2>2. ASSUME NEW n \in Name, Remove(p, n), Exit(p)
          PROVE  /\ pc[p] = "apply" /\ Exit(p)
                 /\ UNCHANGED <<record, claims, journal, sync>>
                 /\ {edits', faults', syncs'} \subseteq Nat
                 /\ \E m \in seen[p].skills \cup keep, d \in MaybeDir :
                        dir' = [dir EXCEPT ![m] = d]
        <3>1. n \in seen[p].skills
            BY <1>0, <2>2 DEF Remove, WorkInv, PlanInv
        <3>2. \E d \in MaybeDir : dir' = [dir EXCEPT ![n] = d]
            <4>1. CASE dir' = [dir EXCEPT ![n] = Absent]
                BY <4>1 DEF MaybeDir
            <4>2. CASE dir[n] # Absent /\ dir' = [dir EXCEPT ![n].bytes = Torn]
                <5>1. [dir[n] EXCEPT !.bytes = Torn] \in MaybeDir
                    BY <1>0, <4>2, Constants DEF TypeOK, MaybeDir
                <5> QED BY <1>0, <4>2, <5>1
            <4> QED BY <2>2, <4>1, <4>2 DEF Remove
        <3>3. {edits', faults', syncs'} \subseteq Nat
            BY <1>0, <2>2 DEF Remove, TypeOK
        <3>4. pc[p] = "apply" /\ Exit(p) /\ UNCHANGED <<record, claims, journal, sync>>
            BY <2>2 DEF Remove
        <3> QED BY <3>1, <3>2, <3>3, <3>4
    <2> QED BY <2>1, <2>2 DEF Fails
<1>2. Away(p) /\ flock = p
    BY <1>0, <1>1, ExitAway DEF LockInv
<1>3. /\ dir' \in [Name -> MaybeDir] /\ RecordInv' /\ ProvidedCovered' /\ DigestTrue'
    BY <1>1, WriteCovered
<1>4. TypeOK'
    BY <1>0, <1>1, <1>2, <1>3 DEF TypeOK, Away, sync
<1> QED BY <1>2, <1>3, <1>4, AwayLock DEF IInv, WorkInv

-----------------------------------------------------------------------------
(* The steps of the holder of the flock                                    *)

(* Nobody else plans or writes.                                            *)
LEMMA HolderAlone ==
    ASSUME IInv, NEW p \in Proc, flock = p
    PROVE  \A q \in Proc : pc[q] \in {"locked", "apply"} => q = p
BY DEF IInv, LockInv

LEMMA TryLockKeeps ==
    ASSUME IInv, NEW p \in Proc, TryLock(p), flock = Free
    PROVE  IInv'
<1>0. /\ TypeOK /\ LockInv /\ RecordInv /\ WorkInv /\ ProvidedCovered /\ DigestTrue
      /\ flock' = p /\ touched' = {} /\ pc' = [pc EXCEPT ![p] = "locked"] /\ pc[p] = "lock"
      /\ UNCHANGED <<answer, work, disk, sync, bounds>>
    BY Constants DEF IInv, TryLock
<1>1. \A q \in Proc : pc[q] \notin {"locked", "apply"}
    BY <1>0, Constants DEF LockInv
<1>2. TypeOK'
    BY <1>0 DEF TypeOK, PC, answer, work, disk, sync, bounds
<1>3. RecordInv' /\ ProvidedCovered' /\ DigestTrue'
    BY <1>0 DEF RecordInv, ProvidedCovered, DigestTrue, Recorded, disk
<1>4. \A q \in Proc : pc'[q] # "apply"
    BY <1>0, <1>1 DEF TypeOK
<1>5. LockInv'
    BY <1>0, <1>1 DEF TypeOK, LockInv, answer, work
<1> QED BY <1>2, <1>3, <1>4, <1>5 DEF IInv, WorkInv

(* What the plan of a source over an entry consists of.                    *)
LEMMA PlanParts ==
    ASSUME NEW s \in Source, NEW e \in Entry
    PROVE  /\ Owned(s, e, claims) \subseteq Shipped(s)
           /\ Installs(s, e, claims) \cup Replaces(s, e, claims) \subseteq Owned(s, e, claims)
           /\ Removals(s, e, claims) = e.skills \ (Owned(s, e, claims) \cup claims)
           /\ \A n \in Owned(s, e, claims) \ (Installs(s, e, claims) \cup Replaces(s, e, claims)) :
                  Same(s, n)
           /\ \A n \in Installs(s, e, claims) \cup Replaces(s, e, claims) :
                  dir[n] # Absent => n \in e.skills
BY DEF Owned, Installs, Replaces, Keeps, Adopts, Removals

LEMMA PreRecordKeeps == ASSUME IInv, NEW p \in Proc, PreRecord(p) PROVE IInv'
<1> DEFINE e == Loaded[src[p].provider]
           own == Owned(src[p], e, claims)
<1>0. /\ TypeOK /\ LockInv /\ RecordInv /\ ProvidedCovered /\ DigestTrue
      /\ pc[p] = "locked" /\ flock = p /\ journal = {} /\ record # Newer
    BY DEF IInv, LockInv, PreRecord, Plan
<1>1. src[p] \in Source /\ src[p].provider \in Provider
    BY <1>0, Constants DEF LockInv
<1>2. Loaded \in [Provider -> Entry] /\ e \in Entry /\ e.skills \subseteq Name
    BY <1>0, <1>1, LoadedType, EntryType
<1>3. own \subseteq Shipped(src[p]) /\ Shipped(src[p]) \subseteq Name
    BY <1>1, <1>2, PlanParts DEF Shipped
<1>4. \A n \in e.skills \cup own : Owner[n] = src[p].provider
    <2>1. \A n \in e.skills : Owner[n] = src[p].provider
        <3>1. CASE record = Corrupt
            BY <1>1, <3>1, EntryType DEF Loaded, NoRecord
        <3>2. CASE record # Corrupt
            BY <1>1, <1>2, <1>0, <3>2 DEF Loaded, RecordInv
        <3> QED BY <3>1, <3>2
    <2> QED BY <2>1, <1>1, <1>3, Constants
<1>5. /\ record' = [Loaded EXCEPT ![src[p].provider] =
                        [of |-> Pending, skills |-> e.skills \cup own]]
      /\ seen' = [seen EXCEPT ![p] = e]
      /\ todo' = Installs(src[p], e, claims) \cup Replaces(src[p], e, claims)
      /\ drop' = Removals(src[p], e, claims)
      /\ keep' = own
      /\ pc' = [pc EXCEPT ![p] = "apply"]
      /\ UNCHANGED <<dir, claims, journal, flock, src, seenClaims, cur, stash, sync,
                     touched, bounds>>
    BY DEF PreRecord, Plan, RecordedFirst
<1>6. [of |-> Pending, skills |-> e.skills \cup own] \in Entry
    BY <1>2, <1>3, EntryType
<1>7. record' \in [Provider -> Entry]
    BY <1>2, <1>5, <1>6
<1>8. todo' \subseteq keep' /\ drop' \subseteq seen'[p].skills \ keep' /\ seen'[p] = e
    BY <1>0, <1>1, <1>2, <1>5, PlanParts DEF TypeOK
<1>9. TypeOK'
    BY <1>0, <1>2, <1>3, <1>5, <1>7, <1>8 DEF TypeOK, PC, sync, bounds
<1>10. LockInv'
    BY <1>0, <1>5, Constants DEF TypeOK, LockInv
<1>11. RecordInv'
    BY <1>0, <1>1, <1>2, <1>4, <1>5 DEF RecordInv, Loaded, NoRecord, NoEntry
<1>12. WorkInv'
    <2>1. SUFFICES ASSUME NEW q \in Proc, pc'[q] = "apply" PROVE PlanInv(q)' /\ DiskInv(q)'
        BY DEF WorkInv
    <2>2. q = p
        BY <1>0, <1>5, <2>1, HolderAlone DEF TypeOK
    <2>3. PlanInv(p)'
        BY <1>0, <1>1, <1>2, <1>3, <1>5, <1>7, <1>8 DEF PlanInv, Shipped
    <2>4. DiskInv(p)'
        <3>1. \A n \in keep' \ todo' : Same(src[p], n)
            BY <1>1, <1>2, <1>5, PlanParts
        <3>2. \A n \in todo' : dir[n] # Absent => n \in seen'[p].skills
            BY <1>1, <1>2, <1>5, <1>8, PlanParts
        <3>3. seen'[p].skills \ (keep' \cup drop' \cup claims') = {}
            BY <1>1, <1>2, <1>5, <1>8, PlanParts
        <3> QED BY <1>5, <3>1, <3>2, <3>3 DEF DiskInv, Same, Holds
    <2> QED BY <2>2, <2>3, <2>4
<1>13. \A n \in Name : Recorded(n) => Recorded(n)'
    <2>1. SUFFICES ASSUME NEW n \in Name, Recorded(n) PROVE Recorded(n)'
        OBVIOUS
    <2>2. Loaded = record
        BY <2>1, Constants DEF Recorded, Loaded
    <2> QED BY <1>1, <1>5, <1>7, <2>1, <2>2 DEF Recorded
<1>14. ProvidedCovered'
    BY <1>0, <1>5, <1>13 DEF ProvidedCovered
<1>15. DigestTrue'
    <2>1. SUFFICES ASSUME NEW n \in Name, dir[n] # Absent, dir[n].by = "provide",
                          Recorded(n)', record'[Owner[n]].of \in Source
                   PROVE  dir[n].bytes = record'[Owner[n]].of.skills[n]
        BY <1>5 DEF DigestTrue
    <2>2. Owner[n] # src[p].provider /\ Owner[n] \in Provider
        BY <1>1, <1>2, <1>5, <2>1, Constants, NameAssumption
    <2>3. record'[Owner[n]] = Loaded[Owner[n]] /\ n \in Loaded[Owner[n]].skills
        BY <1>1, <1>2, <1>5, <2>1, <2>2 DEF Recorded
    <2>4. Loaded = record /\ Recorded(n)
        BY <1>2, <2>2, <2>3, EntryType DEF Loaded, NoRecord, Recorded
    <2> QED BY <1>0, <2>1, <2>3, <2>4 DEF DigestTrue
<1> QED BY <1>9, <1>10, <1>11, <1>12, <1>14, <1>15 DEF IInv

(* A step that goes on: only the directory of n and the work change.       *)
LEMMA WriteKeeps ==
    ASSUME IInv, NEW p \in Proc, pc[p] = "apply",
           NEW n \in seen[p].skills \cup keep, NEW d \in MaybeDir,
           dir' = [dir EXCEPT ![n] = d], stash' \in MaybeDir,
           UNCHANGED <<record, claims, journal, flock, pc, answer, keep, sync, touched, bounds>>,
           todo' \subseteq todo, drop' \subseteq drop,
           cur' # NoName => cur' \in todo',
           DiskInv(p)'
    PROVE  IInv'
<1>0. TypeOK /\ LockInv /\ WorkInv /\ PlanInv(p) /\ flock = p
    BY DEF IInv, WorkInv, LockInv
<1>1. dir' \in [Name -> MaybeDir] /\ RecordInv' /\ ProvidedCovered' /\ DigestTrue'
    BY WriteCovered
<1>2. cur' \in Name \cup {NoName}
    BY <1>0 DEF TypeOK
<1>3. TypeOK'
    BY <1>0, <1>1, <1>2 DEF TypeOK, answer, sync, bounds
<1>4. LockInv'
    BY <1>0 DEF LockInv, answer
<1>5. PlanInv(p)'
    BY <1>0 DEF PlanInv, answer
<1>6. \A q \in Proc : pc'[q] = "apply" => q = p
    BY <1>0, HolderAlone
<1> QED BY <1>1, <1>3, <1>4, <1>5, <1>6 DEF IInv, WorkInv

LEMMA VacateKeeps ==
    ASSUME IInv, NEW p \in Proc, NEW n \in Name, Vacate(p, n)
    PROVE  IInv'
<1>0. /\ TypeOK /\ PlanInv(p) /\ DiskInv(p) /\ pc[p] = "apply" /\ n \in keep /\ n \in todo
      /\ Absent \in MaybeDir /\ dir[n] \in MaybeDir
    BY DEF IInv, WorkInv, Vacate, PlanInv, TypeOK, MaybeDir
<1>1. /\ dir' = [dir EXCEPT ![n] = Absent] /\ cur' = n /\ stash' = dir[n]
      /\ UNCHANGED <<record, claims, journal, flock, pc, answer, todo, drop, keep, sync,
                     touched, bounds>>
    BY DEF Vacate
<1>2. dir'[n] = Absent /\ \A m \in Name \ {n} : dir'[m] = dir[m]
    BY <1>0, <1>1 DEF TypeOK
<1>3. keep \subseteq Name /\ seen[p].skills \subseteq Name
    BY <1>0, EntryType DEF TypeOK
<1>4. DiskInv(p)'
    <2>1. \A m \in todo' : dir'[m] # Absent => m \in touched' \cup seen'[p].skills
        BY <1>0, <1>1, <1>2, <1>3 DEF DiskInv, PlanInv, answer
    <2>2. \A m \in keep' \ todo' : Same(src[p], m)' <=> Same(src[p], m)
        BY <1>0, <1>1, <1>2, <1>3 DEF Same, Holds, answer
    <2>3. \A m \in keep' \ todo' : m \notin touched' => Same(src[p], m)'
        BY <1>0, <1>1, <2>2 DEF DiskInv
    <2>4. \A m \in keep' \ todo' :
              dir'[m] # Absent /\ dir'[m].by = "provide" => Same(src[p], m)'
        BY <1>0, <1>1, <1>2, <1>3, <2>2 DEF DiskInv
    <2>5. \A m \in seen'[p].skills \ (keep' \cup drop' \cup claims') :
              dir'[m] = Absent \/ (m \in touched' /\ dir'[m].by = "user")
        BY <1>0, <1>1, <1>2, <1>3 DEF DiskInv, answer
    <2> QED BY <2>1, <2>3, <2>4, <2>5, <1>1 DEF DiskInv, Same, Holds, answer
<1> QED BY <1>0, <1>1, <1>4, WriteKeeps

LEMMA PlaceKeeps ==
    ASSUME IInv, NEW p \in Proc, NEW n \in Name, Place(p, n)
    PROVE  IInv'
<1> DEFINE d == [bytes |-> src[p].skills[n], by |-> "provide"]
<1>0. /\ TypeOK /\ LockInv /\ PlanInv(p) /\ DiskInv(p) /\ pc[p] = "apply"
      /\ n \in keep /\ n \in todo
    BY DEF IInv, WorkInv, Place, PlanInv
<1>1. /\ dir' = [dir EXCEPT ![n] = d] /\ cur' = NoName /\ stash' = Absent
      /\ todo' = todo \ {n}
      /\ UNCHANGED <<record, claims, journal, flock, pc, answer, drop, keep, sync,
                     touched, bounds>>
    BY DEF Place
<1>2. src[p] \in Source /\ src[p].skills[n] \in Bytes
    BY <1>0, Constants DEF LockInv, PlanInv
<1>3. d \in MaybeDir /\ Absent \in MaybeDir /\ d # Absent
    BY <1>2, Constants DEF MaybeDir, Writers
<1>4. dir'[n] = d /\ \A m \in Name \ {n} : dir'[m] = dir[m]
    BY <1>0, <1>1 DEF TypeOK
<1>5. keep \subseteq Name /\ seen[p].skills \subseteq Name
    BY <1>0, EntryType DEF TypeOK
<1>6. DiskInv(p)'
    <2>1. \A m \in todo' : dir'[m] # Absent => m \in touched' \cup seen'[p].skills
        BY <1>0, <1>1, <1>4, <1>5 DEF DiskInv, PlanInv, answer
    <2>2. Holds(n, src[p].skills[n])'
        BY <1>1, <1>3, <1>4 DEF Holds, answer
    <2>3. \A m \in keep' \ todo' : m # n => (Holds(m, src[p].skills[m])' <=> Same(src[p], m))
        BY <1>0, <1>1, <1>4, <1>5 DEF Same, Holds, answer
    <2>4. \A m \in keep' \ todo' : m \notin touched' => Same(src[p], m)'
        BY <1>0, <1>1, <2>2, <2>3 DEF DiskInv, Same, answer
    <2>5. \A m \in keep' \ todo' :
              dir'[m] # Absent /\ dir'[m].by = "provide" => Same(src[p], m)'
        BY <1>0, <1>1, <1>4, <1>5, <2>2, <2>3 DEF DiskInv, Same, answer
    <2>6. \A m \in seen'[p].skills \ (keep' \cup drop' \cup claims') :
              dir'[m] = Absent \/ (m \in touched' /\ dir'[m].by = "user")
        BY <1>0, <1>1, <1>4, <1>5 DEF DiskInv, answer
    <2> QED BY <2>1, <2>4, <2>5, <2>6 DEF DiskInv
<1> QED BY <1>0, <1>1, <1>3, <1>6, WriteKeeps

LEMMA RemoveKeeps ==
    ASSUME IInv, NEW p \in Proc, NEW n \in Name, Remove(p, n), ~Exit(p)
    PROVE  IInv'
<1>0. /\ TypeOK /\ PlanInv(p) /\ DiskInv(p) /\ pc[p] = "apply" /\ todo = {}
      /\ n \in drop /\ n \in seen[p].skills /\ n \notin keep /\ Absent \in MaybeDir
    BY DEF IInv, WorkInv, Remove, PlanInv, MaybeDir
<1>1. /\ dir' = [dir EXCEPT ![n] = Absent] /\ drop' = drop \ {n}
      /\ UNCHANGED <<record, claims, journal, flock, pc, answer, todo, keep, cur, stash,
                     sync, touched, bounds>>
    BY DEF Remove, bounds
<1>2. dir'[n] = Absent /\ \A m \in Name \ {n} : dir'[m] = dir[m]
    BY <1>0, <1>1 DEF TypeOK
<1>3. keep \subseteq Name /\ seen[p].skills \subseteq Name
    BY <1>0, EntryType DEF TypeOK
<1>4. DiskInv(p)'
    <2>1. \A m \in keep' : Holds(m, src[p].skills[m])' <=> Same(src[p], m)
        BY <1>0, <1>1, <1>2, <1>3 DEF Same, Holds, answer
    <2>2. \A m \in keep' \ todo' : m \notin touched' => Same(src[p], m)'
        BY <1>0, <1>1, <2>1 DEF DiskInv, Same, answer
    <2>3. \A m \in keep' \ todo' :
              dir'[m] # Absent /\ dir'[m].by = "provide" => Same(src[p], m)'
        BY <1>0, <1>1, <1>2, <1>3, <2>1 DEF DiskInv, Same, answer
    <2>4. \A m \in seen'[p].skills \ (keep' \cup drop' \cup claims') :
              dir'[m] = Absent \/ (m \in touched' /\ dir'[m].by = "user")
        BY <1>0, <1>1, <1>2, <1>3 DEF DiskInv, answer
    <2> QED BY <1>0, <1>1, <2>2, <2>3, <2>4 DEF DiskInv
<1>5. cur' # NoName => cur' \in todo'
    BY <1>1 DEF IInv, LockInv
<1>6. stash' \in MaybeDir
    BY <1>0, <1>1 DEF TypeOK
<1> QED BY <1>0, <1>1, <1>4, <1>5, <1>6, WriteKeeps

-----------------------------------------------------------------------------
(* The user and the sync                                                   *)

LEMMA EditKeeps ==
    ASSUME IInv, NEW n \in Name, NEW d \in MaybeDir, dir' = [dir EXCEPT ![n] = d],
           d # Absent =>
               \/ d.by = "user" /\ ~(dir[n] # Absent /\ dir[n].by \in {"provide", "edited"})
               \/ d.by = "edited" /\ dir[n] # Absent /\ dir[n].by \in {"provide", "edited"},
           touched' = IF flock \in Proc THEN touched \cup {n} ELSE {},
           UNCHANGED <<record, claims, journal, flock, pc, answer, work, sync>>,
           {edits', faults', syncs'} \subseteq Nat
    PROVE  IInv'
<1>0. TypeOK /\ LockInv /\ RecordInv /\ WorkInv /\ ProvidedCovered /\ DigestTrue
    BY DEF IInv
<1>1. dir' \in [Name -> MaybeDir] /\ dir'[n] = d /\ \A m \in Name \ {n} : dir'[m] = dir[m]
    BY <1>0 DEF TypeOK
<1>2. TypeOK'
    BY <1>0, <1>1 DEF TypeOK, answer, work, sync
<1>3. LockInv' /\ RecordInv'
    BY <1>0 DEF LockInv, RecordInv, answer, work
<1>4. \A m \in Name : Recorded(m)' <=> Recorded(m)
    BY DEF Recorded
<1>5. ProvidedCovered'
    BY <1>0, <1>1, <1>4 DEF ProvidedCovered
<1>6. DigestTrue'
    BY <1>0, <1>1, <1>4 DEF DigestTrue
<1>7. ASSUME NEW p \in Proc, pc'[p] = "apply"
      PROVE  PlanInv(p)' /\ DiskInv(p)'
    <2>1. PlanInv(p) /\ DiskInv(p) /\ flock = p /\ touched' = touched \cup {n}
        BY <1>0, <1>7 DEF WorkInv, LockInv
    <2>2. keep \subseteq Name /\ seen[p].skills \subseteq Name /\ todo \subseteq Name
        BY <1>0, EntryType DEF TypeOK
    <2>3. \A m \in keep : m # n => (Same(src[p], m)' <=> Same(src[p], m))
        BY <1>1, <2>2 DEF Same, Holds, answer
    <2>4. \A m \in todo' : dir'[m] # Absent => m \in touched' \cup seen'[p].skills
        BY <1>1, <2>1, <2>2 DEF DiskInv, answer, work
    <2>5. \A m \in keep' \ todo' : m \notin touched' => Same(src[p], m)'
        BY <2>1, <2>3 DEF DiskInv, work
    <2>6. \A m \in keep' \ todo' :
              dir'[m] # Absent /\ dir'[m].by = "provide" => Same(src[p], m)'
        BY <1>1, <2>1, <2>2, <2>3 DEF DiskInv, work
    <2>7. \A m \in seen'[p].skills \ (keep' \cup drop' \cup claims') :
              dir'[m] = Absent \/ (m \in touched' /\ dir'[m].by = "user")
        BY <1>1, <2>1, <2>2 DEF DiskInv, answer, work
    <2> QED BY <2>1, <2>4, <2>5, <2>6, <2>7 DEF PlanInv, DiskInv, answer, work
<1> QED BY <1>2, <1>3, <1>5, <1>6, <1>7 DEF IInv, WorkInv

LEMMA UserKeeps ==
    ASSUME IInv, NEW n \in Name, UserDelete(n) \/ \E b \in UserBytes : UserWrite(n, b)
    PROVE  IInv'
<1>0. TypeOK /\ dir[n] \in MaybeDir
    BY DEF IInv, TypeOK
<1>1. CASE UserDelete(n)
    <2>1. /\ Absent \in MaybeDir /\ dir' = [dir EXCEPT ![n] = Absent]
          /\ touched' = IF flock \in Proc THEN touched \cup {n} ELSE {}
          /\ UNCHANGED <<record, claims, journal, flock, pc, answer, work, sync>>
        BY <1>1 DEF UserDelete, MaybeDir
    <2>2. {edits', faults', syncs'} \subseteq Nat
        BY <1>0, <1>1 DEF UserDelete, TypeOK
    <2> QED BY <2>1, <2>2, EditKeeps
<1>2. ASSUME NEW b \in UserBytes, UserWrite(n, b) PROVE IInv'
    <2> DEFINE d == [bytes |-> b, by |->
                         IF dir[n] # Absent /\ dir[n].by \in {"provide", "edited"}
                         THEN "edited" ELSE "user"]
    <2>1. d \in MaybeDir /\ dir' = [dir EXCEPT ![n] = d]
        BY <1>2, Constants DEF UserWrite, MaybeDir, Writers
    <2>2. {edits', faults', syncs'} \subseteq Nat
        BY <1>0, <1>2 DEF UserWrite, TypeOK
    <2>3. /\ touched' = IF flock \in Proc THEN touched \cup {n} ELSE {}
          /\ UNCHANGED <<record, claims, journal, flock, pc, answer, work, sync>>
        BY <1>2 DEF UserWrite
    <2> QED BY <2>1, <2>2, <2>3, EditKeeps
<1> QED BY <1>1, <1>2

(* Steps that are taken while no run holds the flock.                      *)
LEMMA OthersKeep ==
    ASSUME IInv, TypeOK', flock \in {Free, Sync}, flock' \in {Free, Sync},
           UNCHANGED <<pc, answer, work>>, RecordInv', ProvidedCovered', DigestTrue'
    PROVE  IInv'
<1>1. \A p \in Proc : flock # p /\ flock' # p
    BY Constants
<1>2. LockInv' /\ WorkInv'
    BY <1>1 DEF IInv, LockInv, WorkInv, answer, work
<1> QED BY <1>2 DEF IInv

LEMMA BetweenKeeps ==
    ASSUME IInv, (\E r \in Damage : DamageRecord(r)) \/ (\E c \in Packaged : Checkout(c))
    PROVE  IInv'
<1>0. TypeOK /\ RecordInv /\ ProvidedCovered /\ DigestTrue
    BY DEF IInv
<1>1. /\ flock = Free
      /\ \A n \in Name : dir'[n] = dir[n] \/ (dir[n] # Absent /\ dir'[n] = By(dir[n], "user"))
      /\ UNCHANGED <<journal, flock, pc, answer, work, sync, touched, faults, syncs>>
      /\ edits' = edits + 1
    BY DEF DamageRecord, Checkout
<1>2. \A n \in Name : dir[n] # Absent => By(dir[n], "user") \in MaybeDir
    BY <1>0 DEF TypeOK, MaybeDir, By, Writers
<1>3. dir' \in [Name -> MaybeDir]
    <2>1. CASE \E r \in Damage : DamageRecord(r)
        BY <1>0, <1>2, <2>1 DEF DamageRecord, TypeOK, MaybeDir
    <2>2. CASE \E c \in Packaged : Checkout(c)
        BY <1>0, <1>2, <2>2 DEF Checkout, TypeOK, MaybeDir
    <2> QED BY <2>1, <2>2
<1>4. CASE \E r \in Damage : DamageRecord(r)
    <2>1. record' \in {Corrupt, Newer} /\ claims' = claims
        BY <1>4, NameAssumption DEF DamageRecord
    <2>2. TypeOK'
        BY <1>0, <1>1, <1>3, <2>1 DEF TypeOK, answer, work, sync
    <2>3. RecordInv' /\ \A n \in Name : ~Recorded(n)'
        BY <2>1, Constants DEF RecordInv, Recorded
    <2>4. \A n \in Name : dir'[n] # Absent => dir'[n].by = "user"
        BY <1>4 DEF DamageRecord, By
    <2> QED BY <1>1, <2>2, <2>3, <2>4, OthersKeep DEF ProvidedCovered, DigestTrue
<1>5. CASE \E c \in Packaged : Checkout(c)
    <2>1. record' = record /\ claims' \subseteq Name
        BY <1>5, NameAssumption DEF Checkout
    <2>2. ASSUME NEW n \in Name, dir'[n] # Absent, dir'[n].by # "user"
          PROVE  dir'[n] = dir[n] /\ (n \in claims' <=> n \in claims)
        BY <1>5, <2>2 DEF Checkout, By
    <2>3. TypeOK'
        BY <1>0, <1>1, <1>3, <2>1 DEF TypeOK, answer, work, sync
    <2>4. RecordInv' /\ \A n \in Name : Recorded(n)' <=> Recorded(n)
        BY <1>0, <2>1 DEF RecordInv, Recorded
    <2>5. ProvidedCovered'
        BY <1>0, <2>4, <2>2 DEF ProvidedCovered
    <2>6. DigestTrue'
        BY <1>0, <2>1, <2>4, <2>2 DEF DigestTrue
    <2> QED BY <1>1, <2>3, <2>4, <2>5, <2>6, OthersKeep
<1> QED BY <1>4, <1>5

Syncs == \/ \E t \in Packaged : SyncBegin(t)
         \/ SyncProceed \/ SyncKill

LEMMA SyncKeeps == ASSUME IInv, Syncs PROVE IInv'
<1>0. TypeOK /\ RecordInv /\ ProvidedCovered /\ DigestTrue
    BY DEF IInv
<1>1. /\ flock \in {Free, Sync} /\ flock' \in {Free, Sync}
      /\ UNCHANGED <<record, pc, answer, work, touched, edits>>
      /\ {faults', syncs'} \subseteq Nat
    BY <1>0 DEF Syncs, SyncBegin, SyncProceed, SyncWrite, SyncRemove, SyncPublish, SyncDone,
                SyncKill, SyncEnd, TypeOK, bounds
<1>2. RecordInv' /\ \A n \in Name : Recorded(n)' <=> Recorded(n)
    BY <1>0, <1>1 DEF RecordInv, Recorded
<1>3. CASE (\E t \in Packaged : SyncBegin(t)) \/ SyncDone \/ SyncKill
    <2>1. UNCHANGED <<dir, claims>> /\ goal' \subseteq Name /\ journal' \subseteq Name
          /\ stage' \in {"apply", "published"}
        BY <1>0, <1>3, NameAssumption DEF SyncBegin, SyncDone, SyncKill, SyncEnd, TypeOK
    <2>2. TypeOK'
        BY <1>0, <1>1, <2>1 DEF TypeOK, answer, work
    <2>3. ProvidedCovered' /\ DigestTrue'
        BY <1>0, <1>1, <1>2, <2>1 DEF ProvidedCovered, DigestTrue
    <2> QED BY <1>1, <1>2, <2>2, <2>3, OthersKeep
<1>4. ASSUME NEW n \in Name, SyncWrite(n) \/ SyncRemove(n) PROVE IInv'
    <2>1. UNCHANGED <<claims, journal, sync>>
        BY <1>4 DEF SyncWrite, SyncRemove
    <2>2. PICK d \in MaybeDir :
              dir' = [dir EXCEPT ![n] = d] /\ (d = Absent \/ d.by = "sync")
        BY <1>4, Constants DEF SyncWrite, SyncRemove, MaybeDir, Writers
    <2>3. /\ dir' \in [Name -> MaybeDir] /\ dir'[n] = d
          /\ \A m \in Name \ {n} : dir'[m] = dir[m]
        BY <1>0, <2>2 DEF TypeOK
    <2>4. TypeOK'
        BY <1>0, <1>1, <2>1, <2>3 DEF TypeOK, answer, work, sync
    <2>5. ProvidedCovered' /\ DigestTrue'
        BY <1>0, <1>1, <1>2, <2>1, <2>2, <2>3 DEF ProvidedCovered, DigestTrue
    <2> QED BY <1>1, <1>2, <2>4, <2>5, OthersKeep
<1>5. CASE SyncPublish
    <2>1. /\ claims' = goal /\ stage' = "published" /\ UNCHANGED <<dir, journal, goal>>
          /\ \A n \in claims \ goal : dir[n] = Absent
        BY <1>5 DEF SyncPublish
    <2>2. TypeOK'
        BY <1>0, <1>1, <2>1 DEF TypeOK, answer, work
    <2>3. ProvidedCovered' /\ DigestTrue'
        BY <1>0, <1>1, <1>2, <2>1 DEF ProvidedCovered, DigestTrue
    <2> QED BY <1>1, <1>2, <2>2, <2>3, OthersKeep
<1> QED BY <1>3, <1>4, <1>5 DEF Syncs, SyncProceed

-----------------------------------------------------------------------------
(* Theorems                                                                *)

Steps(p) ==
    \/ PreRecord(p) \/ FinalRecord(p) \/ Fails(p)
    \/ \E n \in Name : Vacate(p, n) \/ Place(p, n) \/ (Remove(p, n) /\ ~Exit(p))

Edits ==
    \/ \E n \in Name : UserDelete(n) \/ \E b \in UserBytes : UserWrite(n, b)
    \/ (\E r \in Damage : DamageRecord(r)) \/ (\E c \in Packaged : Checkout(c))

(* Next, by who holds the flock and what is written.                       *)
LEMMA NextCases ==
    ASSUME IInv, [Next]_vars
    PROVE  \/ \E p \in Proc : Looks(p) \/ (TryLock(p) /\ flock = Free) \/ Steps(p)
           \/ Syncs \/ Edits \/ UNCHANGED vars
<1>1. \A p \in Proc : TryLock(p) => flock # Free \/ flock = Free
    OBVIOUS
<1> QED BY <1>1 DEF Next, Mars, User, Proceed, Looks, Steps, Fails, Syncs, Edits

LEMMA InitOK == Init => IInv
<1> SUFFICES ASSUME Init PROVE IInv
    OBVIOUS
<1>1. NoRecord \in [Provider -> Entry] /\ \A q \in Provider : NoRecord[q].skills = {}
    BY EntryType DEF NoRecord
<1>2. TypeOK
    BY <1>1, EntryType DEF Init, TypeOK, PC, MaybeDir
<1>3. LockInv /\ RecordInv /\ WorkInv
    BY <1>1, Constants DEF Init, LockInv, RecordInv, WorkInv
<1>4. ProvidedCovered /\ DigestTrue
    BY DEF Init, ProvidedCovered, DigestTrue
<1> QED BY <1>2, <1>3, <1>4 DEF IInv

LEMMA StepOK == ASSUME IInv, [Next]_vars PROVE IInv'
<1>1. ASSUME NEW p \in Proc, Looks(p) PROVE IInv'
    BY <1>1, LooksAway, AwayKeeps
<1>2. ASSUME NEW p \in Proc, Steps(p) PROVE IInv'
    BY <1>2, PreRecordKeeps, FinalRecordKeeps, FailsKeeps, VacateKeeps, PlaceKeeps, RemoveKeeps
       DEF Steps
<1>3. CASE Edits
    BY <1>3, UserKeeps, BetweenKeeps DEF Edits
<1>4. CASE UNCHANGED vars
    BY <1>4 DEF vars, disk, answer, work, sync, bounds, IInv, TypeOK, LockInv, RecordInv,
                WorkInv, PlanInv, DiskInv, Same, Holds, ProvidedCovered, DigestTrue, Recorded
<1> QED BY <1>1, <1>2, <1>3, <1>4, NextCases, TryLockKeeps, SyncKeeps

LEMMA Invariant == Spec => []IInv
BY InitOK, StepOK, PTL DEF Spec

(* The record, the plan and what the plan writes stay what the code's      *)
(* types say, for any hosts and sources.                                   *)
THEOREM TypeCorrect == Spec => []TypeOK
<1>1. IInv => TypeOK
    BY DEF IInv
<1> QED BY <1>1, Invariant, PTL

(* Whatever is killed, fails or is edited, and however runs and syncs      *)
(* interleave: no directory that mars provide made is without an owner.    *)
THEOREM InstalledIsOwned == Spec => []ProvidedCovered
<1>1. IInv => ProvidedCovered
    BY DEF IInv
<1> QED BY <1>1, Invariant, PTL

(* A record with a digest says what is installed under its names.          *)
THEOREM DigestsAreTrue == Spec => []DigestTrue
<1>1. IInv => DigestTrue
    BY DEF IInv
<1> QED BY <1>1, Invariant, PTL

(* What a step of mars provide, of nobody else, does to the directories    *)
(* and to the record.                                                      *)
LEMMA Writes ==
    ASSUME IInv, [Next]_vars
    PROVE  /\ dir' # dir /\ edits' = edits /\ flock # Sync =>
                 \E p \in Proc :
                     /\ pc[p] = "apply" /\ flock = p
                     /\ \/ PlaceFails(p)
                        \/ \E n \in Name : Vacate(p, n) \/ Place(p, n) \/ Remove(p, n)
           /\ record' # record /\ flock # Free =>
                 \E p \in Proc : flock = p /\ (PreRecord(p) \/ FinalRecord(p))
           /\ record' # record /\ flock = Free => edits' # edits
<1>0. TypeOK /\ LockInv
    BY DEF IInv
<1>1. ASSUME NEW p \in Proc, Looks(p) PROVE UNCHANGED <<dir, record>>
    BY <1>1, LooksAway DEF disk
<1>2. ASSUME NEW p \in Proc, TryLock(p) PROVE UNCHANGED <<dir, record>>
    BY <1>2 DEF TryLock, disk
<1>3. ASSUME NEW p \in Proc, Steps(p)
      PROVE  /\ flock = p /\ flock # Free
             /\ \/ record' = record /\ pc[p] = "apply"
                   /\ (PlaceFails(p) \/ \E n \in Name : Vacate(p, n) \/ Place(p, n) \/ Remove(p, n))
                \/ dir' = dir /\ (PreRecord(p) \/ FinalRecord(p))
    <2>1. CASE PreRecord(p) \/ FinalRecord(p)
        BY <1>0, <2>1, Constants DEF LockInv, PreRecord, Plan, FinalRecord, Record
    <2>2. CASE PlaceFails(p)
        BY <1>0, <2>2, Constants DEF LockInv, PlaceFails
    <2>3. CASE \E n \in Name : Vacate(p, n) \/ Place(p, n) \/ Remove(p, n)
        BY <1>0, <2>3, Constants DEF LockInv, Vacate, Place, Remove
    <2> QED BY <1>3, <2>1, <2>2, <2>3 DEF Steps, Fails
<1>4. CASE Syncs
    BY <1>4 DEF Syncs, SyncBegin, SyncProceed, SyncWrite, SyncRemove, SyncPublish, SyncDone,
                SyncKill, SyncEnd
<1>5. CASE Edits
    <2>1. edits' # edits /\ (record' # record => flock = Free)
        BY <1>0, <1>5 DEF Edits, UserDelete, UserWrite, DamageRecord, Checkout, TypeOK
    <2> QED BY <2>1
<1>6. CASE UNCHANGED vars
    BY <1>6 DEF vars, disk
<1> QED BY <1>1, <1>2, <1>3, <1>4, <1>5, <1>6, NextCases

(* Bytes of the user are replaced only under a name that was on record     *)
(* before the run, or that the user has changed since it began.            *)
THEOREM RecordedOnly == Spec => OnlyRecordedReplaced
<1>1. ASSUME IInv, [Next]_vars, NEW n \in Name, Loses(n, {"user", "edited"})
      PROVE  n \in touched \cup seen[flock].skills
    <2>1. /\ flock \in Proc /\ flock # Sync /\ edits' = edits /\ dir[n] # Absent
          /\ dir'[n] = Absent \/ dir'[n].bytes # dir[n].bytes
        BY <1>1, Constants DEF Loses
    <2>2. PICK p \in Proc :
              /\ pc[p] = "apply" /\ flock = p
              /\ \/ PlaceFails(p)
                 \/ \E m \in Name : Vacate(p, m) \/ Place(p, m) \/ Remove(p, m)
        BY <1>1, <2>1, Writes
    <2>3. TypeOK /\ PlanInv(p) /\ DiskInv(p)
        BY <1>1, <2>2 DEF IInv, WorkInv
    <2>4. CASE PlaceFails(p)
        BY <2>1, <2>3, <2>4 DEF PlaceFails, TypeOK
    <2>5. ASSUME NEW m \in Name, Vacate(p, m) PROVE n \in touched \cup seen[p].skills
        BY <2>1, <2>3, <2>5 DEF Vacate, DiskInv, TypeOK
    <2>6. ASSUME NEW m \in Name, Place(p, m) PROVE n \in touched \cup seen[p].skills
        BY <2>1, <2>3, <2>6 DEF Place, TypeOK
    <2>7. ASSUME NEW m \in Name, Remove(p, m) PROVE n \in touched \cup seen[p].skills
        BY <2>1, <2>3, <2>7 DEF Remove, PlanInv, TypeOK
    <2> QED BY <2>2, <2>4, <2>5, <2>6, <2>7
<1>2. ASSUME IInv, [Next]_vars
      PROVE  [\A n \in Name :
                 Loses(n, {"user", "edited"}) => n \in touched \cup seen[flock].skills]_vars
    BY <1>1, <1>2
<1> QED BY <1>2, Invariant, PTL DEF Spec, OnlyRecordedReplaced

(* Whatever run found the journal of an interrupted sync, or failed to     *)
(* look: as long as the journal stands, none of them writes.               *)
THEOREM InterruptedSyncUntouched == Spec => PendingSyncUntouched
<1>1. ASSUME IInv, [Next]_vars, journal # {}, flock # Sync, edits' = edits
      PROVE  UNCHANGED <<dir, record>>
    <2>1. \A p \in Proc : pc[p] # "apply"
        BY <1>1 DEF IInv, WorkInv, PlanInv
    <2>2. \A p \in Proc : ~PreRecord(p) /\ ~FinalRecord(p)
        BY <1>1, <2>1 DEF PreRecord, FinalRecord, Record
    <2> QED BY <1>1, <2>1, <2>2, Writes
<1>2. ASSUME IInv, [Next]_vars
      PROVE  [journal # {} /\ flock # Sync /\ edits' = edits => UNCHANGED <<dir, record>>]_vars
    BY <1>1, <1>2
<1> QED BY <1>2, Invariant, PTL DEF Spec, PendingSyncUntouched

(* A final record is written when all it lists is in place, and all that   *)
(* it no longer lists is gone.                                             *)
THEOREM ReportsAreTrue == Spec => AppliedIsInstalled
<1>1. ASSUME IInv, [Next]_vars, NEW p \in Proc, NEW n \in Name \ touched, Applies(p)
      PROVE  /\ n \in record'[src[p].provider].skills => Same(src[p], n)
             /\ n \in seen[p].skills \ record'[src[p].provider].skills =>
                    dir[n] = Absent \/ n \in claims
    <2>0. TypeOK /\ LockInv /\ PlanInv(p) /\ DiskInv(p) /\ pc[p] = "apply" /\ flock = p
        BY <1>1 DEF IInv, WorkInv, LockInv, Applies
    <2>1. FinalRecord(p)
        <3>1. \E q \in Proc : flock = q /\ (PreRecord(q) \/ FinalRecord(q))
            BY <1>1, <2>0, Constants, Writes DEF Applies
        <3> QED BY <2>0, <3>1 DEF PreRecord, Plan
    <2>2. todo = {} /\ drop = {}
        BY <2>1 DEF FinalRecord
    <2>3. Loaded = record /\ src[p].provider \in Provider
        BY <2>0, Constants DEF PlanInv, Loaded, LockInv
    <2>4. record'[src[p].provider].skills = keep
        BY <2>0, <2>1, <2>3 DEF FinalRecord, Record, PlanInv
    <2> QED BY <2>0, <2>2, <2>4 DEF DiskInv
<1>2. ASSUME IInv, [Next]_vars
      PROVE  [\A p \in Proc, n \in Name \ touched :
                 Applies(p) =>
                     /\ n \in record'[src[p].provider].skills => Same(src[p], n)
                     /\ n \in seen[p].skills \ record'[src[p].provider].skills =>
                            dir[n] = Absent \/ n \in claims]_vars
    BY <1>1, <1>2
<1> QED BY <1>2, Invariant, PTL DEF Spec, AppliedIsInstalled

===============================================================================
