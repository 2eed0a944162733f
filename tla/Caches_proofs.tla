----------------------------- MODULE Caches_proofs -----------------------------
(***************************************************************************)
(* Theorems about the two caches that detached processes refresh: about    *)
(* CatalogCache, for any number of commands and workers, any time limits,  *)
(* revisions, faults and clock changes, and, in the second part, about     *)
(* ProbeCache, for any number of commands and refreshers, any time limit,  *)
(* clock changes and failures.                                             *)
(***************************************************************************)
EXTENDS CatalogCache, ProbeCache, TLAPS

-----------------------------------------------------------------------------
(* The catalog: the inductive invariant                                    *)

(* An age has gone below 0 only as far as the clock was set back.          *)
AgeInv ==
    /\ snapshot # Empty => snapshot.age >= -backs
    /\ marker # NoMarker => marker >= -backs
    /\ claim # NoClaim => claim.age >= -backs

(* Who fetches holds the flock. A worker that is claimed for is not running*)
(* yet, and one command has claimed for it.                                *)
HolderInv ==
    /\ \A p \in Process : pc[p] \in {"fetch", "clear"} => cacheLock = p
    /\ \A l \in Lookup : token[l] # Free => pc[token[l]] = "idle"
    /\ \A k, l \in Lookup : token[k] # Free /\ token[k] = token[l] => k = l

(* As long as the clock is right, the claim file tells the age of the claim*)
(* and a worker whose lease runs is the one that the file names.           *)
Active(w) ==
    pc[w] \in {"check", "refresh", "fetch", "clear"} \/ \E l \in Lookup : token[l] = w
LeaseInv == backs = 0 =>
    /\ claim # NoClaim =>
           claimed[claim.token] = IF claim.age < Lease THEN claim.age ELSE Lease
    /\ \A w \in Worker : Active(w) /\ claimed[w] < Lease => Owner = w

(* A failure that is recent has its marker, which no snapshot that follows *)
(* it has removed.                                                         *)
MarkerInv ==
    /\ failed < Cooldown => marker # NoMarker /\ marker <= failed
    /\ \A p \in Process : pc[p] = "clear" => failed = Cooldown

(* Nobody has replaced the snapshot since the holder of the flock read it. *)
BaseInv == \A p \in Process : pc[p] = "fetch" => CurrentRevision <= base.revision

IInv == TypeOK /\ AgeInv /\ HolderInv /\ LeaseInv /\ MarkerInv /\ BaseInv

-----------------------------------------------------------------------------
(* Constants and helpers                                                   *)

LEMMA Constants ==
    /\ Ttl \in Nat /\ Lease \in Nat /\ Lease > 0
    /\ Cooldown \in Nat /\ Cooldown > 0 /\ MaxRevision \in Nat
    /\ MaxBacks \in Nat /\ MaxFaults \in Nat
    /\ \A p \in Process : p # Free
    /\ \A w \in Worker : w \in Process /\ w \notin Lookup
    /\ \A l \in Lookup : l \in Process /\ l \notin Worker
BY TimeAssumption, BoundAssumption, ProcessAssumption DEF Process

LEMMA NowType == ASSUME TypeOK PROVE Now \in View /\ CurrentRevision \in Nat
BY Constants DEF TypeOK, Now, View, CurrentRevision, Usable, Fresh, Cooling, Snapshot, Revision

(* What the end of a command, of a refresh or of a process does to memory. *)
Ends(p) ==
    /\ pc' = [pc EXCEPT ![p] = pc'[p]]
    /\ pc'[p] \in {"idle", "release"}
    /\ pc'[p] = "release" => pc[p] # "idle"
    /\ \A l \in Lookup : token'[l] \in {token[l], Free}
    /\ p \in Lookup => token'[p] = Free
    /\ cacheLock' = IF cacheLock = p THEN Free ELSE cacheLock
    /\ cacheLock # p => base' = base
    /\ base' \in View /\ looked' \in View
    /\ pc' \in [Process -> PC]
    /\ mode' \in [Process -> {"background", "force", "worker"}]
    /\ expected' \in [Process -> Revision \cup {AnyRevision}]
    /\ token' \in [Lookup -> Worker \cup {Free}]
    /\ claimLock' \in Lookup \cup {Free}

LEMMA LeaveEnds == ASSUME TypeOK, NEW p \in Process, Leave(p) PROVE Ends(p)
<1>1. Blank \in View
    BY Constants DEF Blank, View, Revision
<1>2. pc' = [pc EXCEPT ![p] = "idle"] /\ AnyRevision \in Revision \cup {AnyRevision}
    BY DEF Leave, Goto
<1>3. pc' \in [Process -> PC] /\ pc'[p] = "idle"
    BY <1>2 DEF TypeOK, PC
<1>4. /\ expected' \in [Process -> Revision \cup {AnyRevision}]
      /\ mode' \in [Process -> {"background", "force", "worker"}]
      /\ token' \in [Lookup -> Worker \cup {Free}]
    BY DEF TypeOK, Leave
<1>5. /\ \A l \in Lookup : token'[l] \in {token[l], Free}
      /\ p \in Lookup => token'[p] = Free
    BY DEF TypeOK, Leave
<1>6. /\ cacheLock' = IF cacheLock = p THEN Free ELSE cacheLock
      /\ cacheLock # p => base' = base
      /\ base' \in View /\ looked' \in View
      /\ claimLock' \in Lookup \cup {Free}
    BY <1>1, Constants DEF TypeOK, Leave
<1> QED BY <1>2, <1>3, <1>4, <1>5, <1>6 DEF Ends

LEMMA FinishEnds ==
    ASSUME TypeOK, NEW p \in Process, pc[p] # "idle", Finish(p)
    PROVE  Ends(p)
<1>1. CASE p \in Worker
    <2>1. Blank \in View
        BY Constants DEF Blank, View, Revision
    <2>2. p \notin Lookup /\ pc' = [pc EXCEPT ![p] = "release"]
        BY <1>1, Constants DEF Finish, Goto
    <2> QED BY <1>1, <2>1, <2>2 DEF TypeOK, Finish, Ends, PC
<1>2. CASE p \notin Worker
    BY <1>2, LeaveEnds DEF Finish
<1> QED BY <1>1, <1>2

(* The steps that end something, by what they leave on disk.               *)
Quits(p) ==
    \/ p \in Lookup /\ (Suppress(p) \/ NoWorker(p) \/ ClaimFails(p))
    \/ AlreadyFresh(p) \/ (StartFetch(p) /\ NotNeeded(p))
    \/ RevisionExhausted(p) \/ Kill(p)

LEMMA QuitsEnds ==
    ASSUME TypeOK, NEW p \in Process, Quits(p)
    PROVE  Ends(p) /\ UNCHANGED <<disk, claimed, failed, backs>>
                   /\ faults' \in 0..MaxFaults
<1>1. CASE p \in Lookup /\ (Suppress(p) \/ NoWorker(p) \/ ClaimFails(p))
    BY <1>1, LeaveEnds, Constants DEF TypeOK, Suppress, NoWorker, ClaimFails, history, disk
<1>2. CASE AlreadyFresh(p)
    BY <1>2, FinishEnds DEF TypeOK, AlreadyFresh, history, disk
<1>3. CASE StartFetch(p) /\ NotNeeded(p)
    BY <1>3, FinishEnds DEF TypeOK, StartFetch, Enter, history, disk
<1>4. CASE RevisionExhausted(p)
    BY <1>4, FinishEnds DEF TypeOK, RevisionExhausted, history, disk
<1>5. CASE Kill(p)
    BY <1>5, LeaveEnds, Constants DEF TypeOK, Kill, disk
<1> QED BY <1>1, <1>2, <1>3, <1>4, <1>5 DEF Quits

(* Next, with those steps taken together.                                  *)
LEMMA NextCases ==
    ASSUME TypeOK, [Next]_vars
    PROVE  \/ \E l \in Lookup : Ensure(l) \/ ForceRefresh(l) \/ SpawnFails(l) \/ ClaimRead(l)
                                \/ (\E w \in Worker : ClaimRefresh(l, w)) \/ Spawn(l)
           \/ \E w \in Worker : CheckOwned(w) \/ Release(w)
           \/ \E p \in Process : Quits(p) \/ (StartFetch(p) /\ ~NotNeeded(p))
                                 \/ ClearMarker(p) \/ FetchOk(p) \/ FetchFails(p)
           \/ LoseSnapshot \/ Tick \/ SetClockBack \/ UNCHANGED vars
BY Constants DEF Next, Local, Settle, Fetched, Quits

-----------------------------------------------------------------------------
(* Types                                                                   *)

LEMMA InitOK == ASSUME Init PROVE IInv
<1>1. TypeOK
    BY Constants DEF Init, TypeOK, PC, Snapshot, Age, View, Blank, Revision
<1>2. AgeInv /\ HolderInv /\ LeaseInv /\ MarkerInv /\ BaseInv
    BY Constants DEF Init, AgeInv, HolderInv, LeaseInv, MarkerInv, BaseInv, Active
<1> QED BY <1>1, <1>2 DEF IInv

(* Ages stay within what the clock changes allow.                          *)
LEMMA ShiftedType ==
    ASSUME NEW limit \in Nat, NEW age \in Age(limit), NEW by \in {-1, 1},
           backs \in 0..MaxBacks, age >= -backs,
           by = -1 => backs < MaxBacks /\ backs' = backs + 1,
           by = 1 => backs' = backs
    PROVE  Shifted(age, limit, by) \in Age(limit) /\ Shifted(age, limit, by) >= -backs'
BY Constants DEF Shifted, Age

LEMMA ShiftTypes ==
    ASSUME TypeOK, AgeInv, NEW by \in {-1, 1}, Shift(by),
           by = -1 => backs < MaxBacks /\ backs' = backs + 1,
           by = 1 => backs' = backs
    PROVE  /\ snapshot' \in Snapshot \cup {Empty}
           /\ marker' \in Age(Cooldown) \cup {NoMarker}
           /\ claim' \in Claim \cup {NoClaim}
           /\ AgeInv'
<1> USE Constants
<1>1. backs \in 0..MaxBacks
    BY DEF TypeOK
<1>3. snapshot' \in Snapshot \cup {Empty} /\ (snapshot' # Empty => snapshot'.age >= -backs')
    <2>1. CASE snapshot = Empty
        BY <2>1 DEF Shift, Usable
    <2>2. CASE snapshot # Empty
        <3>1. snapshot.age \in Age(Ttl) /\ snapshot.age >= -backs /\ snapshot \in Snapshot
            BY <2>2 DEF TypeOK, AgeInv, Snapshot
        <3>2. Shifted(snapshot.age, Ttl, by) \in Age(Ttl)
                  /\ Shifted(snapshot.age, Ttl, by) >= -backs'
            BY <1>1, <3>1, ShiftedType
        <3>3. snapshot' = [snapshot EXCEPT !.age = Shifted(snapshot.age, Ttl, by)]
            BY <2>2 DEF Shift, Usable
        <3> QED BY <3>1, <3>2, <3>3 DEF Snapshot
    <2> QED BY <2>1, <2>2
<1>4. marker' \in Age(Cooldown) \cup {NoMarker} /\ (marker' # NoMarker => marker' >= -backs')
    <2>1. CASE marker = NoMarker
        BY <2>1 DEF Shift
    <2>2. CASE marker # NoMarker
        <3>1. marker \in Age(Cooldown) /\ marker >= -backs
            BY <2>2 DEF TypeOK, AgeInv
        <3>2. Shifted(marker, Cooldown, by) \in Age(Cooldown)
                  /\ Shifted(marker, Cooldown, by) >= -backs'
            BY <1>1, <3>1, ShiftedType
        <3> QED BY <2>2, <3>2 DEF Shift
    <2> QED BY <2>1, <2>2
<1>5. claim' \in Claim \cup {NoClaim} /\ (claim' # NoClaim => claim'.age >= -backs')
    <2>1. CASE claim = NoClaim
        BY <2>1 DEF Shift
    <2>2. CASE claim # NoClaim
        <3>1. claim.age \in Age(Lease) /\ claim.age >= -backs /\ claim \in Claim
            BY <2>2 DEF TypeOK, AgeInv, Claim
        <3>2. Shifted(claim.age, Lease, by) \in Age(Lease)
                  /\ Shifted(claim.age, Lease, by) >= -backs'
            BY <1>1, <3>1, ShiftedType
        <3>3. claim' = [claim EXCEPT !.age = Shifted(claim.age, Lease, by)]
            BY <2>2 DEF Shift
        <3> QED BY <3>1, <3>2, <3>3 DEF Claim
    <2> QED BY <2>1, <2>2
<1> QED BY <1>3, <1>4, <1>5 DEF AgeInv

(* What a step must leave for the types to hold, in two parts.             *)
DiskType ==
    /\ snapshot \in Snapshot \cup {Empty}
    /\ marker \in Age(Cooldown) \cup {NoMarker}
    /\ claim \in Claim \cup {NoClaim}
    /\ claimed \in [Worker -> 0..Lease]
    /\ failed \in 0..Cooldown
    /\ backs \in 0..MaxBacks /\ faults \in 0..MaxFaults
MemoryType ==
    /\ cacheLock \in Process \cup {Free}
    /\ claimLock \in Lookup \cup {Free}
    /\ pc \in [Process -> PC]
    /\ mode \in [Process -> {"background", "force", "worker"}]
    /\ expected \in [Process -> Revision \cup {AnyRevision}]
    /\ token \in [Lookup -> Worker \cup {Free}]
    /\ looked \in View /\ base \in View

LEMMA TypeParts == TypeOK <=> DiskType /\ MemoryType
BY DEF TypeOK, DiskType, MemoryType

LEMMA EndsType == ASSUME MemoryType, NEW p \in Process, Ends(p) PROVE MemoryType'
BY DEF Ends, MemoryType

LEMMA StepParts ==
    ASSUME TypeOK, AgeInv, [Next]_vars
    PROVE  DiskType' /\ MemoryType' /\ AgeInv'
<1> USE Constants
<1>1. DiskType /\ MemoryType
    BY TypeParts
<1>2. ASSUME UNCHANGED <<disk, claimed, failed, backs>>, faults' \in 0..MaxFaults
      PROVE  DiskType' /\ AgeInv'
    BY <1>1, <1>2 DEF DiskType, AgeInv, disk
<1>3. 0 \in Age(Ttl) /\ 0 \in Age(Cooldown) /\ 0 \in Age(Lease)
    BY DEF Age
<1>4. backs \in Nat /\ \A b \in {backs} : 0 >= -b
    BY <1>1 DEF DiskType
<1>5. Now \in View
    BY NowType
<1>6. CASE \E l \in Lookup : Ensure(l) \/ ForceRefresh(l)
    <2>1. DiskType' /\ AgeInv'
        BY <1>2, <1>6, <1>1 DEF Ensure, ForceRefresh, history, DiskType
    <2>2. CurrentRevision \in Revision
        BY <1>1 DEF DiskType, CurrentRevision, Usable, Snapshot, Revision
    <2>3. MemoryType'
        BY <1>1, <1>6, <2>2 DEF Ensure, ForceRefresh, locks, Goto, MemoryType, PC
    <2> QED BY <2>1, <2>3
<1>7. CASE \E l \in Lookup : SpawnFails(l)
    <2>1. PICK l \in Lookup : SpawnFails(l)
        BY <1>7
    <2>2. Ends(l)
        BY <2>1, LeaveEnds DEF SpawnFails
    <2>3. DiskType' /\ AgeInv'
        BY <1>1, <2>1 DEF SpawnFails, ReleaseClaim, DiskType, AgeInv
    <2> QED BY <1>1, <2>2, <2>3, EndsType
<1>8. CASE \E l \in Lookup : ClaimRead(l)
    <2>1. DiskType' /\ AgeInv'
        BY <1>2, <1>8, <1>1 DEF ClaimRead, Look, history, DiskType
    <2>2. MemoryType'
        BY <1>1, <1>5, <1>8 DEF ClaimRead, Look, Goto, MemoryType, PC
    <2> QED BY <2>1, <2>2
<1>9. CASE \E l \in Lookup, w \in Worker : ClaimRefresh(l, w)
    <2>1. PICK l \in Lookup, w \in Worker : ClaimRefresh(l, w)
        BY <1>9
    <2>2. DiskType' /\ AgeInv'
        <3>1. claim' = [token |-> w, age |-> 0] /\ claimed' = [claimed EXCEPT ![w] = 0]
              /\ UNCHANGED <<snapshot, marker, failed, backs, faults>>
            BY <2>1 DEF ClaimRefresh
        <3>2. claim' \in Claim /\ claimed' \in [Worker -> 0..Lease]
            BY <1>1, <1>3, <3>1 DEF Claim, DiskType
        <3> QED BY <1>1, <1>4, <3>1, <3>2 DEF DiskType, AgeInv
    <2>3. MemoryType'
        <3>1. Blank \in View
            BY DEF Blank, View, Revision
        <3> QED BY <1>1, <2>1, <3>1 DEF ClaimRefresh, Goto, MemoryType, PC
    <2> QED BY <2>2, <2>3
<1>10. CASE \E l \in Lookup : Spawn(l)
    <2>1. DiskType' /\ AgeInv'
        BY <1>2, <1>10, <1>1 DEF Spawn, history, DiskType
    <2>2. PICK l \in Lookup : Spawn(l)
        BY <1>10
    <2>3. pc' \in [Process -> PC]
        BY <1>1, <2>2 DEF Spawn, MemoryType, PC
    <2>4. expected' \in [Process -> Revision \cup {AnyRevision}]
        BY <1>1, <2>2 DEF Spawn, MemoryType
    <2>5. MemoryType'
        BY <1>1, <2>2, <2>3, <2>4 DEF Spawn, locks, MemoryType
    <2> QED BY <2>1, <2>5
<1>11. CASE \E w \in Worker : CheckOwned(w)
    <2>1. DiskType' /\ AgeInv'
        BY <1>2, <1>11, <1>1 DEF CheckOwned, history, DiskType
    <2>2. MemoryType'
        BY <1>1, <1>11 DEF CheckOwned, locks, Goto, MemoryType, PC
    <2> QED BY <2>1, <2>2
<1>12. CASE \E w \in Worker : Release(w)
    <2>1. PICK w \in Worker : Release(w)
        BY <1>12
    <2>2. Ends(w)
        BY <2>1, LeaveEnds DEF Release
    <2>3. DiskType' /\ AgeInv'
        BY <1>1, <2>1 DEF Release, ReleaseClaim, DiskType, AgeInv, history
    <2> QED BY <1>1, <2>2, <2>3, EndsType
<1>13. CASE \E p \in Process : Quits(p)
    BY <1>1, <1>2, <1>13, QuitsEnds, EndsType
<1>14. CASE \E p \in Process : StartFetch(p) /\ ~NotNeeded(p)
    <2>1. PICK p \in Process : StartFetch(p) /\ ~NotNeeded(p)
        BY <1>14
    <2>2. DiskType' /\ AgeInv'
        BY <1>2, <2>1, <1>1 DEF StartFetch, Enter, history, DiskType
    <2>3. MemoryType'
        <3>1. [Now EXCEPT !.fresh = FALSE, !.cooling = FALSE] \in View
            BY <1>5 DEF View
        <3> QED BY <1>1, <2>1, <3>1 DEF StartFetch, Enter, Goto, MemoryType, PC
    <2> QED BY <2>2, <2>3
<1>15. CASE \E p \in Process : ClearMarker(p)
    <2>1. PICK p \in Process : ClearMarker(p)
        BY <1>15
    <2>2. Ends(p)
        BY <2>1, FinishEnds DEF ClearMarker
    <2>3. DiskType' /\ AgeInv'
        BY <1>1, <2>1 DEF ClearMarker, history, DiskType, AgeInv
    <2> QED BY <1>1, <2>2, <2>3, EndsType
<1>16. CASE \E p \in Process : FetchOk(p)
    <2>1. PICK p \in Process : FetchOk(p)
        BY <1>16
    <2>2. base.revision + 1 \in Revision
        BY <1>1, <2>1 DEF FetchOk, MemoryType, View, Revision
    <2>3. DiskType' /\ AgeInv'
        BY <1>1, <1>3, <1>4, <2>1, <2>2 DEF FetchOk, Replace, DiskType, AgeInv, Snapshot
    <2>4. MemoryType'
        BY <1>1, <2>1 DEF FetchOk, Replace, locks, Goto, MemoryType, PC
    <2> QED BY <2>3, <2>4
<1>17. CASE \E p \in Process : FetchFails(p)
    <2>1. PICK p \in Process : FetchFails(p)
        BY <1>17
    <2>2. Ends(p)
        BY <2>1, FinishEnds DEF FetchFails
    <2>3. DiskType' /\ AgeInv'
        BY <1>1, <1>3, <1>4, <2>1 DEF FetchFails, DiskType, AgeInv
    <2> QED BY <1>1, <2>2, <2>3, EndsType
<1>18. CASE LoseSnapshot
    BY <1>1, <1>18 DEF LoseSnapshot, locks, memory, DiskType, MemoryType, AgeInv
<1>19. CASE Tick
    <2>1. Shift(1) /\ UNCHANGED <<locks, memory, backs, faults>>
        BY <1>19 DEF Tick
    <2>2. claimed' \in [Worker -> 0..Lease] /\ failed' \in 0..Cooldown
        BY <1>1, <1>19 DEF Tick, Older, DiskType
    <2> QED BY <1>1, <2>1, <2>2, ShiftTypes DEF DiskType, MemoryType, locks, memory
<1>20. CASE SetClockBack
    <2>1. Shift(-1) /\ backs < MaxBacks /\ backs' = backs + 1
          /\ UNCHANGED <<locks, memory, claimed, failed, faults>>
        BY <1>20 DEF SetClockBack
    <2> QED BY <1>1, <2>1, ShiftTypes DEF DiskType, MemoryType, locks, memory
<1>21. CASE UNCHANGED vars
    BY <1>1, <1>21 DEF vars, disk, locks, memory, history, DiskType, MemoryType, AgeInv
<1> QED BY <1>6, <1>7, <1>8, <1>9, <1>10, <1>11, <1>12, <1>13, <1>14, <1>15, <1>16,
           <1>17, <1>18, <1>19, <1>20, <1>21, NextCases

LEMMA StepTypes == ASSUME TypeOK, AgeInv, [Next]_vars PROVE TypeOK' /\ AgeInv'
BY StepParts DEF TypeOK, DiskType, MemoryType

-----------------------------------------------------------------------------
(* The flock and the claims                                                *)

LEMMA EndsHolder ==
    ASSUME TypeOK, HolderInv, NEW p \in Process, Ends(p)
    PROVE  /\ HolderInv'
           /\ \A w \in Worker : Active(w)' => Active(w)
           /\ pc'[p] \notin {"fetch", "clear"}
           /\ \A q \in Process \ {p} : pc'[q] = pc[q]
           /\ \A q \in Process : pc'[q] = "fetch" => base' = base
<1> USE Constants
<1>1. \A q \in Process \ {p} : pc'[q] = pc[q]
    BY DEF TypeOK, Ends
<1>2. pc'[p] \in {"idle", "release"} /\ (pc'[p] = "release" => pc[p] # "idle")
    BY DEF Ends
<1>3. \A l \in Lookup : token'[l] # Free => token'[l] = token[l] /\ token[l] \in Process
    BY DEF Ends, TypeOK
<1>4. \A q \in Process : pc'[q] \in {"fetch", "clear"} => cacheLock = q /\ cacheLock' = q
    BY <1>1, <1>2 DEF HolderInv, Ends
<1>5. \A l \in Lookup : token'[l] # Free => pc'[token'[l]] = "idle"
    BY <1>1, <1>2, <1>3 DEF HolderInv
<1>6. \A k, l \in Lookup : token'[k] # Free /\ token'[k] = token'[l] => k = l
    BY <1>3 DEF HolderInv
<1>7. \A w \in Worker : Active(w)' => Active(w)
    BY <1>1, <1>2, <1>3 DEF Active
<1>8. \A q \in Process : pc'[q] = "fetch" => base' = base
    BY <1>2, <1>4 DEF Ends
<1> QED BY <1>1, <1>2, <1>4, <1>5, <1>6, <1>7, <1>8 DEF HolderInv

(* The steps that end something, now with all of them.                     *)
Ending(p) ==
    \/ Quits(p) \/ ClearMarker(p) \/ FetchFails(p)
    \/ p \in Lookup /\ SpawnFails(p)
    \/ p \in Worker /\ Release(p)

LEMMA EndingEnds == ASSUME TypeOK, NEW p \in Process, Ending(p) PROVE Ends(p)
BY LeaveEnds, FinishEnds, QuitsEnds
DEF Ending, ClearMarker, FetchFails, SpawnFails, Release

LEMMA HolderCases ==
    ASSUME TypeOK, [Next]_vars
    PROVE  \/ \E l \in Lookup : Ensure(l) \/ ForceRefresh(l) \/ ClaimRead(l)
                                \/ (\E w \in Worker : ClaimRefresh(l, w)) \/ Spawn(l)
           \/ \E w \in Worker : CheckOwned(w)
           \/ \E p \in Process : Ending(p) \/ (StartFetch(p) /\ ~NotNeeded(p)) \/ FetchOk(p)
           \/ LoseSnapshot \/ Tick \/ SetClockBack \/ UNCHANGED vars
BY NextCases, Constants DEF Ending

LEMMA StepHolder == ASSUME TypeOK, HolderInv, [Next]_vars PROVE HolderInv'
<1> USE Constants
<1>0. pc \in [Process -> PC] /\ token \in [Lookup -> Worker \cup {Free}]
    BY DEF TypeOK
<1>1. CASE \E l \in Lookup : Ensure(l) \/ ForceRefresh(l) \/ ClaimRead(l)
    BY <1>0, <1>1 DEF HolderInv, Ensure, ForceRefresh, ClaimRead, Look, Goto, locks
<1>2. CASE \E l \in Lookup, w \in Worker : ClaimRefresh(l, w)
    BY <1>0, <1>2 DEF HolderInv, ClaimRefresh, Unused, Goto
<1>3. CASE \E l \in Lookup : Spawn(l)
    BY <1>0, <1>3 DEF HolderInv, Spawn, locks
<1>4. CASE \E w \in Worker : CheckOwned(w)
    BY <1>0, <1>4 DEF HolderInv, CheckOwned, Goto, locks
<1>5. CASE \E p \in Process : Ending(p)
    BY <1>5, EndingEnds, EndsHolder
<1>6. CASE \E p \in Process : StartFetch(p) /\ ~NotNeeded(p)
    BY <1>0, <1>6 DEF HolderInv, StartFetch, Enter, Goto
<1>7. CASE \E p \in Process : FetchOk(p)
    BY <1>0, <1>7 DEF HolderInv, FetchOk, Replace, Goto, locks
<1>8. CASE LoseSnapshot \/ Tick \/ SetClockBack \/ UNCHANGED vars
    BY <1>8 DEF HolderInv, LoseSnapshot, Tick, SetClockBack, vars, locks, memory
<1> QED BY <1>1, <1>2, <1>3, <1>4, <1>5, <1>6, <1>7, <1>8, HolderCases

-----------------------------------------------------------------------------
(* Fetches, failures and their marker                                      *)

LEMMA StepBase == ASSUME TypeOK, HolderInv, BaseInv, [Next]_vars PROVE BaseInv'
<1> USE Constants
<1>0. /\ pc \in [Process -> PC] /\ token \in [Lookup -> Worker \cup {Free}]
      /\ base.revision \in Nat /\ CurrentRevision \in Nat
    BY NowType DEF TypeOK, View, Revision
<1>1. CASE \E l \in Lookup : Ensure(l) \/ ForceRefresh(l) \/ ClaimRead(l)
                             \/ (\E w \in Worker : ClaimRefresh(l, w))
    BY <1>0, <1>1 DEF BaseInv, Ensure, ForceRefresh, ClaimRead, Look, ClaimRefresh, Goto,
                      locks, disk, CurrentRevision, Usable
<1>2. CASE (\E l \in Lookup : Spawn(l)) \/ \E w \in Worker : CheckOwned(w)
    BY <1>0, <1>2 DEF BaseInv, Spawn, CheckOwned, Goto, locks, disk, CurrentRevision, Usable
<1>3. CASE \E p \in Process : Ending(p)
    <2>1. PICK p \in Process : Ending(p)
        BY <1>3
    <2>2. UNCHANGED snapshot
        BY <2>1, QuitsEnds DEF Ending, ClearMarker, FetchFails, SpawnFails, Release, disk
    <2>3. \A q \in Process : pc'[q] = "fetch" => base' = base /\ pc[q] = "fetch"
        BY <2>1, EndingEnds, EndsHolder
    <2> QED BY <2>2, <2>3 DEF BaseInv, CurrentRevision, Usable
<1>4. CASE \E p \in Process : StartFetch(p) /\ ~NotNeeded(p)
    <2>1. PICK p \in Process : StartFetch(p) /\ ~NotNeeded(p)
        BY <1>4
    <2>2. base'.revision = CurrentRevision /\ UNCHANGED snapshot
        BY <2>1 DEF StartFetch, Enter, Now, disk
    <2> QED BY <1>0, <2>2 DEF BaseInv, CurrentRevision, Usable
<1>5. CASE \E p \in Process : FetchOk(p)
    <2>1. PICK p \in Process : FetchOk(p)
        BY <1>5
    <2>2. pc' = [pc EXCEPT ![p] = "clear"] /\ cacheLock = p
        BY <2>1 DEF FetchOk, Replace, Goto, HolderInv
    <2>3. \A q \in Process : pc'[q] # "fetch"
        BY <1>0, <2>2 DEF HolderInv
    <2> QED BY <2>3 DEF BaseInv
<1>6. CASE LoseSnapshot
    BY <1>0, <1>6 DEF BaseInv, LoseSnapshot, locks, memory, CurrentRevision, Usable
<1>7. CASE Tick \/ SetClockBack
    <2>1. snapshot' = snapshot \/ (Usable /\ \E a : snapshot' = [snapshot EXCEPT !.age = a])
        BY <1>7 DEF Tick, SetClockBack, Shift, Usable
    <2>2. CurrentRevision' \in {0, CurrentRevision}
        BY <2>1 DEF TypeOK, CurrentRevision, Usable, Snapshot
    <2> QED BY <1>0, <1>7, <2>2 DEF BaseInv, Tick, SetClockBack, locks, memory
<1>8. CASE UNCHANGED vars
    BY <1>8 DEF BaseInv, vars, locks, memory, disk, CurrentRevision, Usable
<1> QED BY <1>1, <1>2, <1>3, <1>4, <1>5, <1>6, <1>7, <1>8, HolderCases

LEMMA StepMarker ==
    ASSUME TypeOK, HolderInv, MarkerInv, [Next]_vars
    PROVE  MarkerInv'
<1> USE Constants
<1>0. /\ pc \in [Process -> PC] /\ token \in [Lookup -> Worker \cup {Free}]
      /\ failed \in 0..Cooldown /\ marker \in Age(Cooldown) \cup {NoMarker}
      /\ backs \in 0..MaxBacks
    BY DEF TypeOK
<1>1. CASE \E l \in Lookup : Ensure(l) \/ ForceRefresh(l) \/ ClaimRead(l)
                             \/ (\E w \in Worker : ClaimRefresh(l, w))
    BY <1>0, <1>1 DEF MarkerInv, Ensure, ForceRefresh, ClaimRead, Look, ClaimRefresh, Goto,
                      disk, history
<1>2. CASE (\E l \in Lookup : Spawn(l)) \/ \E w \in Worker : CheckOwned(w)
    BY <1>0, <1>2 DEF MarkerInv, Spawn, CheckOwned, Goto, disk, history
<1>3. CASE \E p \in Process : Ending(p)
    <2>1. PICK p \in Process : Ending(p)
        BY <1>3
    <2>2. \A q \in Process : pc'[q] = "clear" => pc[q] = "clear" /\ q # p /\ cacheLock = q
        BY <2>1, EndingEnds, EndsHolder DEF HolderInv
    <2>3. CASE Quits(p) \/ SpawnFails(p) \/ Release(p)
        <3>1. UNCHANGED <<marker, failed>>
            BY <2>3, QuitsEnds DEF SpawnFails, Release, disk, history
        <3> QED BY <2>2, <3>1 DEF MarkerInv
    <2>4. CASE ClearMarker(p)
        <3>1. failed = Cooldown /\ UNCHANGED failed
            BY <2>4 DEF MarkerInv, ClearMarker, history
        <3> QED BY <3>1 DEF MarkerInv
    <2>5. CASE FetchFails(p)
        <3>1. \A q \in Process : pc'[q] # "clear"
            BY <2>2, <2>5 DEF FetchFails, HolderInv
        <3>2. \/ marker' = 0 /\ failed' = 0
              \/ UNCHANGED <<marker, failed>>
            BY <2>5 DEF FetchFails
        <3> QED BY <3>1, <3>2, ProcessAssumption DEF MarkerInv
    <2> QED BY <2>1, <2>3, <2>4, <2>5 DEF Ending
<1>4. CASE \E p \in Process : StartFetch(p) /\ ~NotNeeded(p)
    BY <1>0, <1>4 DEF MarkerInv, StartFetch, Enter, Goto, disk, history
<1>5. CASE \E p \in Process : FetchOk(p)
    BY <1>0, <1>5 DEF MarkerInv, FetchOk, Replace, Goto
<1>6. CASE LoseSnapshot \/ UNCHANGED vars
    BY <1>6 DEF MarkerInv, LoseSnapshot, memory, vars, disk, history
<1>7. CASE Tick
    <2>1. failed' = IF failed < Cooldown THEN failed + 1 ELSE failed
        BY <1>7 DEF Tick, Older
    <2>2. marker # NoMarker => marker' \in {marker, marker + 1} /\ marker \in Int
        BY <1>0, <1>7 DEF Tick, Shift, Shifted, Age
    <2>3. marker # NoMarker => marker' # NoMarker
        BY <2>2, ProcessAssumption
    <2> QED BY <1>0, <1>7, <2>1, <2>2, <2>3 DEF MarkerInv, Tick, memory
<1>8. CASE SetClockBack
    <2>1. UNCHANGED <<failed, pc>>
        BY <1>8 DEF SetClockBack, memory
    <2>2. marker # NoMarker => marker' \in {marker, marker - 1} /\ marker \in Int
        BY <1>0, <1>8 DEF SetClockBack, Shift, Shifted, Age
    <2>3. marker # NoMarker => marker' # NoMarker
        BY <2>2, ProcessAssumption
    <2> QED BY <1>0, <2>1, <2>2, <2>3 DEF MarkerInv
<1> QED BY <1>1, <1>2, <1>3, <1>4, <1>5, <1>6, <1>7, <1>8, HolderCases

-----------------------------------------------------------------------------
(* The lease                                                               *)

(* A step that touches no claim and activates no worker.                   *)
LEMMA LeaseKept ==
    ASSUME LeaseInv, UNCHANGED <<claim, claimed, backs>>,
           \A w \in Worker : Active(w)' => Active(w)
    PROVE  LeaseInv'
BY DEF LeaseInv, Owner

LEMMA StepLease ==
    ASSUME TypeOK, AgeInv, HolderInv, LeaseInv, [Next]_vars
    PROVE  LeaseInv'
<1> USE Constants
<1>0. /\ pc \in [Process -> PC] /\ token \in [Lookup -> Worker \cup {Free}]
      /\ claimed \in [Worker -> 0..Lease] /\ backs \in 0..MaxBacks
      /\ claim # NoClaim => claim \in Claim /\ claim.token \in Worker /\ claim.age \in Int
    BY DEF TypeOK, Claim, Age
<1>1. CASE \E l \in Lookup : Ensure(l) \/ ForceRefresh(l) \/ ClaimRead(l)
    <2>1. PICK l \in Lookup : Ensure(l) \/ ForceRefresh(l) \/ ClaimRead(l)
        BY <1>1
    <2>2. UNCHANGED <<token, claim, claimed, backs>>
              /\ \A w \in Worker : pc'[w] = pc[w]
        BY <1>0, <2>1 DEF Ensure, ForceRefresh, ClaimRead, Look, Goto, disk, history
    <2> QED BY <2>2, LeaseKept DEF Active
<1>2. CASE \E l \in Lookup, w \in Worker : ClaimRefresh(l, w)
    <2>1. PICK l \in Lookup, w \in Worker : ClaimRefresh(l, w)
        BY <1>2
    <2>2. /\ claim' = [token |-> w, age |-> 0] /\ claimed' = [claimed EXCEPT ![w] = 0]
          /\ token' = [token EXCEPT ![l] = w] /\ pc' = [pc EXCEPT ![l] = "spawn"]
          /\ UNCHANGED backs /\ ~Leased
        BY <2>1 DEF ClaimRefresh, Goto, Suppressed
    <2>3. ASSUME backs = 0, NEW v \in Worker, Active(v)', claimed'[v] < Lease
          PROVE  v = w
        <3>1. CASE v # w
            <4>1. Active(v) /\ claimed[v] < Lease
                BY <1>0, <2>2, <2>3, <3>1 DEF Active
            <4>2. claim # NoClaim /\ claim.token = v
                BY <2>3, <4>1 DEF LeaseInv, Owner
            <4>3. claim.age < Lease /\ claim.age >= 0
                BY <1>0, <2>3, <4>1, <4>2 DEF LeaseInv, AgeInv
            <4> QED BY <2>2, <4>2, <4>3 DEF Leased
        <3> QED BY <3>1
    <2>4. Owner' = w /\ claimed'[w] = 0
        BY <1>0, <2>2, ProcessAssumption DEF Owner, Claim, Age
    <2> QED BY <1>0, <2>2, <2>3, <2>4 DEF LeaseInv
<1>3. CASE \E l \in Lookup : Spawn(l)
    <2>1. PICK l \in Lookup : Spawn(l)
        BY <1>3
    <2>2. /\ pc' = [pc EXCEPT ![l] = "idle", ![token[l]] = "check"]
          /\ token' = [token EXCEPT ![l] = Free]
          /\ UNCHANGED <<claim, claimed, backs>>
        BY <2>1 DEF Spawn, disk, history
    <2>3. \A w \in Worker : Active(w)' => Active(w)
        BY <1>0, <2>2 DEF Active
    <2> QED BY <2>2, <2>3, LeaseKept
<1>4. CASE \E w \in Worker : CheckOwned(w)
    <2>1. PICK w \in Worker : CheckOwned(w)
        BY <1>4
    <2>2. UNCHANGED <<token, claim, claimed, backs>> /\ pc[w] = "check"
              /\ \A v \in Worker \ {w} : pc'[v] = pc[v]
        BY <1>0, <2>1 DEF CheckOwned, Goto, disk, history
    <2> QED BY <2>2, LeaseKept DEF Active
<1>5. CASE \E p \in Process : Ending(p)
    <2>1. PICK p \in Process : Ending(p)
        BY <1>5
    <2>2. \A w \in Worker : Active(w)' => Active(w)
        BY <2>1, EndingEnds, EndsHolder
    <2>3. CASE Quits(p) \/ ClearMarker(p) \/ FetchFails(p)
        <3>1. UNCHANGED <<claim, claimed, backs>>
            BY <2>3, QuitsEnds DEF ClearMarker, FetchFails, disk, history
        <3> QED BY <2>2, <3>1, LeaseKept
    <2>4. CASE p \in Lookup /\ SpawnFails(p)
        <3>1. /\ claim' = IF Owner = token[p] THEN NoClaim ELSE claim
              /\ UNCHANGED <<claimed, backs>> /\ token' = [token EXCEPT ![p] = Free]
              /\ pc' = [pc EXCEPT ![p] = "idle"]
            BY <2>4 DEF SpawnFails, ReleaseClaim, Leave, Goto
        <3>2. CASE token[p] = Free
            <4>1. claim' = claim
                BY <1>0, <3>1, <3>2 DEF Owner
            <4> QED BY <2>2, <3>1, <4>1, LeaseKept
        <3>3. CASE token[p] # Free
            <4>1. PICK w \in Worker : w = token[p]
                BY <1>0, <2>4, <3>3
            <4>2. pc[w] = "idle" /\ w # p
                BY <1>0, <2>4, <3>3, <4>1 DEF HolderInv
            <4>3. pc'[w] = "idle"
                BY <1>0, <3>1, <4>2
            <4>4. \A l \in Lookup : token'[l] # w
                BY <1>0, <2>4, <3>1, <3>3, <4>1 DEF HolderInv
            <4>5. ~Active(w)'
                BY <4>3, <4>4 DEF Active
            <4> QED BY <1>0, <2>2, <3>1, <4>1, <4>5 DEF LeaseInv, Owner
        <3> QED BY <3>2, <3>3
    <2>5. CASE p \in Worker /\ Release(p)
        <3>1. /\ claim' = IF Owner = p THEN NoClaim ELSE claim
              /\ UNCHANGED <<claimed, backs, token>> /\ pc[p] = "release"
              /\ pc' = [pc EXCEPT ![p] = "idle"]
            BY <2>5 DEF Release, ReleaseClaim, Leave, Goto, history
        <3>2. ~Active(p)'
            BY <1>0, <2>5, <3>1 DEF HolderInv, Active
        <3> QED BY <1>0, <2>2, <3>1, <3>2 DEF LeaseInv, Owner
    <2> QED BY <2>1, <2>3, <2>4, <2>5 DEF Ending
<1>6. CASE \E p \in Process : StartFetch(p) /\ ~NotNeeded(p)
    <2>1. PICK p \in Process : StartFetch(p) /\ ~NotNeeded(p)
        BY <1>6
    <2>2. UNCHANGED <<token, claim, claimed, backs>> /\ pc[p] = "refresh"
              /\ \A v \in Process \ {p} : pc'[v] = pc[v]
        BY <1>0, <2>1 DEF StartFetch, Enter, Goto, disk, history
    <2> QED BY <2>2, LeaseKept DEF Active
<1>7. CASE \E p \in Process : FetchOk(p)
    <2>1. PICK p \in Process : FetchOk(p)
        BY <1>7
    <2>2. UNCHANGED <<token, claim, claimed, backs>> /\ pc[p] = "fetch"
              /\ \A v \in Process \ {p} : pc'[v] = pc[v]
        BY <1>0, <2>1 DEF FetchOk, Replace, Goto
    <2> QED BY <2>2, LeaseKept DEF Active
<1>8. CASE LoseSnapshot \/ UNCHANGED vars
    BY <1>8, LeaseKept DEF LoseSnapshot, vars, disk, memory, history, Active
<1>9. CASE Tick
    <2>1. /\ claimed' = [w \in Worker |-> Older(claimed[w], Lease)]
          /\ UNCHANGED <<pc, token, backs>>
          /\ claim' = IF claim = NoClaim THEN NoClaim
                      ELSE [claim EXCEPT !.age = Shifted(@, Lease, 1)]
        BY <1>9 DEF Tick, Shift, memory
    <2>2. \A w \in Worker : claimed'[w] < Lease => claimed[w] < Lease
        BY <1>0, <2>1 DEF Older
    <2>3. Owner' = Owner
        <3>1. CASE claim = NoClaim
            BY <2>1, <3>1 DEF Owner
        <3>2. CASE claim # NoClaim
            <4>1. claim.age \in Age(Lease) /\ claim.age >= -backs
                BY <3>2 DEF TypeOK, AgeInv, Claim
            <4>2. Shifted(claim.age, Lease, 1) \in Age(Lease)
                BY <1>0, <2>1, <4>1, ShiftedType
            <4>3. claim' \in Claim /\ claim'.token = claim.token
                BY <1>0, <2>1, <3>2, <4>2 DEF Claim
            <4> QED BY <3>2, <4>3, ProcessAssumption DEF Owner
        <3> QED BY <3>1, <3>2
    <2>4. ASSUME backs = 0, claim' # NoClaim
          PROVE  claimed'[claim'.token] = IF claim'.age < Lease THEN claim'.age ELSE Lease
        <3>1. claim # NoClaim /\ claim'.token = claim.token
              /\ claim'.age = IF claim.age + 1 > Lease + MaxBacks THEN claim.age
                              ELSE claim.age + 1
            BY <1>0, <2>1, <2>4 DEF Claim, Shifted
        <3>2. claimed[claim.token] = IF claim.age < Lease THEN claim.age ELSE Lease
            BY <2>4, <3>1 DEF LeaseInv
        <3> QED BY <1>0, <2>1, <3>1, <3>2 DEF Older
    <2> QED BY <2>1, <2>2, <2>3, <2>4 DEF LeaseInv, Active
<1>10. CASE SetClockBack
    BY <1>0, <1>10 DEF SetClockBack, LeaseInv
<1> QED BY <1>1, <1>2, <1>3, <1>4, <1>5, <1>6, <1>7, <1>8, <1>9, <1>10, HolderCases

-----------------------------------------------------------------------------
(* Theorems                                                                *)

LEMMA StepOK == ASSUME IInv, [Next]_vars PROVE IInv'
BY StepTypes, StepHolder, StepBase, StepMarker, StepLease DEF IInv

LEMMA Invariant == Spec => []IInv
BY InitOK, StepOK, PTL DEF Spec

(* Revisions stay within their width and ages within what the comparisons  *)
(* of the code can tell apart, however often the clock is set back.        *)
THEOREM TypeCorrect == Spec => []TypeOK
<1>1. IInv => TypeOK
    BY DEF IInv
<1> QED BY <1>1, Invariant, PTL

(* One background worker is at it per lease, for any number of commands    *)
(* and workers that claim, overrun their lease, fail or are killed.        *)
THEOREM OneWorkerAtATime == Spec => []OneWorker
<1>1. ASSUME IInv PROVE OneWorker
    <2>1. SUFFICES ASSUME NEW v \in Worker, NEW w \in Worker, v # w,
                          AtWork(v), AtWork(w), backs = 0
                   PROVE  claimed[v] >= Lease \/ claimed[w] >= Lease
        BY DEF OneWorker
    <2>2. Active(v) /\ Active(w)
        BY <2>1 DEF AtWork, Active
    <2>3. claimed[v] \in 0..Lease /\ claimed[w] \in 0..Lease
        BY <1>1 DEF IInv, TypeOK
    <2> QED BY <1>1, <2>1, <2>2, <2>3, Constants DEF IInv, LeaseInv
<1> QED BY <1>1, Invariant, PTL

(* No refresh writes a revision that is not above the one on disk, however *)
(* many of them forced, in the background and first ones meet.             *)
THEOREM RefreshesSurvive == Spec => NoLostRefresh
<1>1. ASSUME IInv, [Next]_vars, NEW p \in Process,
             pc[p] = "fetch", snapshot' # snapshot, pc'[p] = "clear"
      PROVE  CurrentRevision' > CurrentRevision
    <2>0. pc \in [Process -> PC] /\ token \in [Lookup -> Worker \cup {Free}]
          /\ base.revision \in Nat /\ CurrentRevision \in Nat /\ cacheLock = p
        BY <1>1, NowType DEF IInv, TypeOK, View, Revision, HolderInv
    <2>1. CASE \E l \in Lookup : Ensure(l) \/ ForceRefresh(l) \/ ClaimRead(l)
                                 \/ (\E w \in Worker : ClaimRefresh(l, w)) \/ Spawn(l)
        BY <1>1, <2>1 DEF Ensure, ForceRefresh, ClaimRead, Look, ClaimRefresh, Spawn, disk
    <2>2. CASE \E w \in Worker : CheckOwned(w)
        BY <1>1, <2>2 DEF CheckOwned, disk
    <2>3. CASE \E q \in Process : Ending(q)
        <3>1. PICK q \in Process : Ending(q)
            BY <2>3
        <3> QED BY <1>1, <3>1, QuitsEnds
                DEF Ending, ClearMarker, FetchFails, SpawnFails, Release, disk, IInv
    <2>4. CASE \E q \in Process : StartFetch(q) /\ ~NotNeeded(q)
        BY <1>1, <2>4 DEF StartFetch, Enter, disk
    <2>5. CASE \E q \in Process : FetchOk(q)
        <3>1. snapshot' = [revision |-> base.revision + 1, age |-> 0]
            BY <2>5 DEF FetchOk, Replace
        <3>2. base.revision >= CurrentRevision
            BY <1>1, <2>0 DEF IInv, BaseInv
        <3>3. base.revision + 1 \in Revision /\ 0 \in Age(Ttl)
            BY <2>0, <2>5, Constants DEF FetchOk, Revision, Age
        <3>4. snapshot' # Empty
            BY <3>1, <3>3, ProcessAssumption DEF Snapshot
        <3> QED BY <2>0, <3>1, <3>2, <3>4 DEF CurrentRevision, Usable
    <2>6. CASE LoseSnapshot \/ Tick \/ SetClockBack \/ UNCHANGED vars
        BY <1>1, <2>0, <2>6 DEF LoseSnapshot, Tick, SetClockBack, memory, vars
    <2> QED BY <1>1, <2>1, <2>2, <2>3, <2>4, <2>5, <2>6, HolderCases DEF IInv
<1>2. ASSUME IInv, [Next]_vars
      PROVE  [\A p \in Process :
                 pc[p] = "fetch" /\ snapshot' # snapshot /\ pc'[p] = "clear" =>
                     CurrentRevision' > CurrentRevision]_vars
    BY <1>1, <1>2
<1> QED BY <1>2, Invariant, PTL DEF Spec, NoLostRefresh

(* After a failure nobody but a forced refresh starts a fetch within the   *)
(* cooldown, whatever the wall clock says.                                 *)
THEOREM FailuresBackOff == Spec => CooldownKept
<1>1. ASSUME IInv, [Next]_vars, NEW p \in Process,
             pc[p] # "fetch", pc'[p] = "fetch", mode[p] # "force", Usable
      PROVE  failed >= Cooldown
    <2>0. pc \in [Process -> PC] /\ token \in [Lookup -> Worker \cup {Free}]
          /\ failed \in 0..Cooldown /\ marker \in Age(Cooldown) \cup {NoMarker}
        BY <1>1 DEF IInv, TypeOK
    <2>1. CASE \E l \in Lookup : Ensure(l) \/ ForceRefresh(l) \/ ClaimRead(l)
                                 \/ (\E w \in Worker : ClaimRefresh(l, w)) \/ Spawn(l)
        BY <1>1, <2>0, <2>1
           DEF Ensure, ForceRefresh, ClaimRead, Look, ClaimRefresh, Spawn, Goto
    <2>2. CASE \E w \in Worker : CheckOwned(w)
        BY <1>1, <2>0, <2>2 DEF CheckOwned, Goto
    <2>3. CASE \E q \in Process : Ending(q)
        BY <1>1, <2>3, EndingEnds, EndsHolder DEF IInv
    <2>4. CASE \E q \in Process : StartFetch(q) /\ ~NotNeeded(q)
        <3>1. PICK q \in Process : StartFetch(q) /\ ~NotNeeded(q)
            BY <2>4
        <3>2. pc' = [pc EXCEPT ![q] = "fetch"]
            BY <3>1 DEF StartFetch, Enter, Goto
        <3>3. p = q
            BY <1>1, <2>0, <3>2
        <3>4. ~Cooling
            BY <1>1, <3>1, <3>3 DEF NotNeeded
        <3> QED BY <1>1, <2>0, <3>4, Constants DEF Cooling, IInv, MarkerInv, Age
    <2>5. CASE \E q \in Process : FetchOk(q)
        BY <1>1, <2>0, <2>5 DEF FetchOk, Replace, Goto
    <2>6. CASE LoseSnapshot \/ Tick \/ SetClockBack \/ UNCHANGED vars
        BY <1>1, <2>0, <2>6 DEF LoseSnapshot, Tick, SetClockBack, memory, vars
    <2> QED BY <1>1, <2>1, <2>2, <2>3, <2>4, <2>5, <2>6, HolderCases DEF IInv
<1>2. ASSUME IInv, [Next]_vars
      PROVE  [\A p \in Process :
                 pc[p] # "fetch" /\ pc'[p] = "fetch" /\ mode[p] # "force" /\ Usable =>
                     failed >= Cooldown]_vars
    BY <1>1, <1>2
<1> QED BY <1>2, Invariant, PTL DEF Spec, CooldownKept

-----------------------------------------------------------------------------
(* A probe cache: the inductive invariant                                  *)

ProbeTypeOK ==
    /\ harness \in Harness
    /\ cache \in Entry \cup {NoListing}
    /\ lock \in Prober \cup {Nobody}
    /\ at \in [Prober -> Place]
    /\ answer \in [Command -> Outcome \cup {NoAnswer}]
    /\ seen \in [Command -> Entry \cup {NoListing}]
    /\ lastOk \in BOOLEAN
    /\ setBacks \in 0..MaxSetBacks /\ failures \in 0..MaxFailures

(* A listing is from the future only as far as the clock was set back.     *)
ListingAgeInv == Listed =>
    cache.age >= -setBacks /\ cache.age <= Late + MaxSetBacks - setBacks

(* Who probes holds the flock, as does a command from its second look until*)
(* it has spawned the refresher.                                           *)
ProberInv == \A p \in Prober : at[p] \in {"probe", "spawn", "drop"} => lock = p

(* So nobody has written since the command that probes has read the entry. *)
SeenInv == \A c \in Command : seen[c] = IF at[c] = "probe" THEN cache ELSE NoListing

(* A refresher probes for a listing that has expired: as long as the clock *)
(* was not set back, the present time is after it.                         *)
ExpiredInv == \A r \in Refresher :
    at[r] = "probe" /\ Listed /\ setBacks = 0 => cache.age >= Expiry

(* The entry tells how the last attempt ended.                             *)
HonestInv ==
    Listed /\ DatesFailures => (cache.failedSince <=> ~lastOk)

ProbeInv ==
    ProbeTypeOK /\ ListingAgeInv /\ ProberInv /\ SeenInv /\ ExpiredInv /\ HonestInv

-----------------------------------------------------------------------------
(* Constants and helpers                                                   *)

LEMMA ProbeConstants ==
    /\ Expiry \in Nat /\ Late \in Nat /\ Late > 0 /\ Late >= Expiry
    /\ MaxSetBacks \in Nat /\ MaxFailures \in Nat
    /\ \A p \in Prober : p # Nobody
    /\ \A c \in Command : c \in Prober /\ c \notin Refresher
    /\ \A r \in Refresher : r \in Prober /\ r \notin Command
    /\ \A entry \in Entry : entry # NoListing
BY ExpiryAssumption, ProbeBoundAssumption, ProberAssumption DEF Prober, Late

LEMMA EntryType ==
    ASSUME ProbeTypeOK, Listed
    PROVE  /\ cache \in Entry /\ cache.age \in ListingAge /\ cache.failedSince \in BOOLEAN
           /\ cache.age \in Int
BY ProbeConstants DEF ProbeTypeOK, Listed, Entry, ListingAge

(* What is left unless somebody starts or ends a probe: p goes on outside a*)
(* probe, refreshers may be started, and the others keep the flock.        *)
Quiet(p) ==
    /\ UNCHANGED <<harness, cache, seen, lastOk, setBacks>>
    /\ answer' \in [Command -> Outcome \cup {NoAnswer}]
    /\ at' \in [Prober -> Place]
    /\ lock' \in Prober \cup {Nobody}
    /\ failures' \in 0..MaxFailures
    /\ at[p] # "probe" /\ at'[p] # "probe"
    /\ at'[p] \in {"spawn", "drop"} => lock' = p
    /\ \A q \in Prober \ {p} :
        /\ at'[q] = at[q] \/ (at'[q] = "wait" /\ at[q] = "idle")
        /\ lock = q => lock' = q

LEMMA QuietIInv == ASSUME ProbeInv, NEW p \in Prober, Quiet(p) PROVE ProbeInv'
<1>1. ProbeTypeOK'
    BY DEF ProbeInv, ProbeTypeOK, Quiet
<1>2. ListingAgeInv' /\ HonestInv'
    BY DEF ProbeInv, ListingAgeInv, HonestInv, DatesFailures, Listed, Quiet
<1>3. ProberInv'
    BY DEF ProbeInv, ProberInv, Quiet
<1>4. \A q \in Prober : at'[q] = "probe" <=> at[q] = "probe"
    BY DEF Quiet
<1>5. SeenInv'
    BY <1>4, ProbeConstants DEF ProbeInv, SeenInv, Quiet
<1>6. ExpiredInv'
    BY <1>4, ProbeConstants DEF ProbeInv, ExpiredInv, Listed, Quiet
<1> QED BY <1>1, <1>2, <1>3, <1>5, <1>6 DEF ProbeInv

-----------------------------------------------------------------------------
(* Commands that answer and spawn                                          *)

LEMMA EvidenceType == Evidence \in Outcome
BY DEF Evidence, Outcome

LEMMA AskIInv ==
    ASSUME ProbeInv, NEW c \in Command, NEW how \in Mode, Ask(c, how)
    PROVE  ProbeInv'
<1>1. ProbeTypeOK /\ c \in Prober /\ "unavailable" \in Outcome
    BY ProbeConstants DEF ProbeInv, Outcome
<1>2. PICK label \in {"trigger", "answered", "wait"} : Move(c, label)
    BY DEF Ask
<1>3. answer' \in [Command -> Outcome \cup {NoAnswer}]
    <2>1. CASE \E o \in Outcome : Answer(c, o)
        BY <1>1, <2>1 DEF ProbeTypeOK, Answer
    <2>2. CASE UNCHANGED answer
        BY <1>1, <2>2 DEF ProbeTypeOK
    <2> QED BY <1>1, <2>1, <2>2, EvidenceType DEF Ask
<1>4. at' \in [Prober -> Place] /\ at'[c] = label /\ at[c] = "idle"
    BY <1>1, <1>2 DEF ProbeTypeOK, Move, Place, Ask
<1>5. Quiet(c)
    BY <1>1, <1>2, <1>3, <1>4 DEF Quiet, Ask, Move, bounds, ProbeTypeOK
<1> QED BY <1>1, <1>5, QuietIInv

LEMMA TriggerIInv ==
    ASSUME ProbeInv, NEW c \in Command, Trigger(c) \/ RefresherFails(c)
    PROVE  ProbeInv'
<1> USE DEF bounds, recall
<1>1. ProbeTypeOK /\ ProberInv /\ c \in Prober /\ c \notin Refresher
    BY ProbeConstants DEF ProbeInv
<1>2. CASE Busy(c)
    <2>1. at' \in [Prober -> Place] /\ at'[c] = "answered"
        BY <1>1, <1>2 DEF ProbeTypeOK, Move, Place, Busy
    <2> QED BY <1>1, <1>2, <2>1, QuietIInv DEF Quiet, Busy, Move, ProbeTypeOK
<1>3. CASE TryLock(c)
    <2>1. PICK label \in {"answered", "spawn"} :
              Move(c, label) /\ (label = "spawn" => lock' = c)
        BY <1>3 DEF TryLock
    <2>2. at' \in [Prober -> Place] /\ at'[c] = label
        BY <1>1, <2>1 DEF ProbeTypeOK, Move, Place
    <2>3. \A q \in Prober \ {c} : at'[q] = at[q] /\ lock # q
        BY <1>1, <1>3, <2>1, ProbeConstants DEF TryLock, Move, ProbeTypeOK
    <2>4. lock' \in Prober \cup {Nobody}
        BY <1>1, <1>3 DEF TryLock, ProbeTypeOK
    <2> QED BY <1>1, <1>3, <2>1, <2>2, <2>3, <2>4, QuietIInv
               DEF Quiet, TryLock, ProbeTypeOK
<1>4. CASE SpawnRefresher(c)
    <2>1. lock' = c /\ at[c] = "spawn"
        BY <1>1, <1>4 DEF SpawnRefresher, ProberInv
    <2>2. CASE \E r \in Refresher : at[r] = "idle"
        <3>1. PICK r \in Refresher :
                  at[r] = "idle" /\ at' = [at EXCEPT ![c] = "drop", ![r] = "wait"]
            BY <1>4, <2>2 DEF SpawnRefresher
        <3>2. r \in Prober /\ r # c
            BY <1>1, ProbeConstants
        <3>3. at' \in [Prober -> Place] /\ at'[c] = "drop"
            BY <1>1, <3>1, <3>2 DEF ProbeTypeOK, Place
        <3>4. \A q \in Prober \ {c} :
                  at'[q] = at[q] \/ (at'[q] = "wait" /\ at[q] = "idle")
            BY <1>1, <3>1, <3>2 DEF ProbeTypeOK
        <3> QED BY <1>1, <1>4, <2>1, <3>3, <3>4, QuietIInv
                   DEF Quiet, SpawnRefresher, ProbeTypeOK
    <2>3. CASE ~\E r \in Refresher : at[r] = "idle"
        <3>1. at' \in [Prober -> Place] /\ at'[c] = "drop"
            BY <1>1, <1>4, <2>3 DEF ProbeTypeOK, Place, SpawnRefresher, Move
        <3>2. \A q \in Prober \ {c} : at'[q] = at[q]
            BY <1>1, <1>4, <2>3 DEF ProbeTypeOK, SpawnRefresher, Move
        <3> QED BY <1>1, <1>4, <2>1, <3>1, <3>2, QuietIInv
                   DEF Quiet, SpawnRefresher, ProbeTypeOK
    <2> QED BY <2>2, <2>3
<1>5. CASE RefresherFails(c)
    <2>1. lock' = c /\ at[c] = "spawn" /\ failures' \in 0..MaxFailures
        BY <1>1, <1>5, ProbeConstants
           DEF RefresherFails, ProberInv, Fault, ProbeTypeOK
    <2>2. at' \in [Prober -> Place] /\ at'[c] = "drop"
        BY <1>1, <1>5 DEF ProbeTypeOK, Move, Place, RefresherFails
    <2> QED BY <1>1, <1>5, <2>1, <2>2, QuietIInv
               DEF Quiet, RefresherFails, Move, ProbeTypeOK
<1>6. CASE Drop(c)
    <2>1. at' \in [Prober -> Place] /\ at'[c] = "answered"
        BY <1>1, <1>6 DEF ProbeTypeOK, Move, Place, Drop
    <2>2. lock' \in Prober \cup {Nobody}
        BY <1>1, <1>6 DEF ProbeTypeOK, Drop, Unlock
    <2> QED BY <1>1, <1>6, <2>1, <2>2, QuietIInv
               DEF Quiet, Drop, Unlock, Move, ProbeTypeOK
<1>7. CASE Return(c)
    <2>1. at' \in [Prober -> Place] /\ at'[c] = "idle"
        BY <1>1, <1>7 DEF ProbeTypeOK, Move, Place, Return
    <2>2. answer' \in [Command -> Outcome \cup {NoAnswer}]
        BY <1>1, <1>7 DEF ProbeTypeOK, Answer, Return
    <2> QED BY <1>1, <1>7, <2>1, <2>2, QuietIInv
               DEF Quiet, Return, Move, ProbeTypeOK
<1> QED BY <1>2, <1>3, <1>4, <1>5, <1>6, <1>7 DEF Trigger

-----------------------------------------------------------------------------
(* Probes                                                                  *)

LEMMA LockIInv == ASSUME ProbeInv, NEW p \in Prober, Lock(p) PROVE ProbeInv'
<1> USE DEF bounds
<1>1. ProbeTypeOK /\ lock = Nobody /\ LookAgain(p) /\ at[p] = "wait"
    BY DEF ProbeInv, Lock, LockWhenFree, LookAgain
<1>2. CASE Current
    <2>1. PICK label \in {"answered", "idle"} : Move(p, label)
        BY <1>1, <1>2 DEF LookAgain
    <2>2. at' \in [Prober -> Place] /\ at'[p] = label
        BY <1>1, <2>1 DEF ProbeTypeOK, Move, Place
    <2>3. answer' \in [Command -> Outcome \cup {NoAnswer}]
        <3>1. CASE p \in Command
            BY <1>1, <1>2, <3>1, EvidenceType DEF ProbeTypeOK, LookAgain, Answer
        <3>2. CASE p \notin Command
            BY <1>1, <1>2, <3>2 DEF ProbeTypeOK, LookAgain
        <3> QED BY <3>1, <3>2
    <2> QED BY <1>1, <1>2, <2>1, <2>2, <2>3, QuietIInv
            DEF Quiet, LookAgain, Move, ProbeTypeOK
<1>3. CASE ~Current
    <2>1. /\ Move(p, "probe") /\ lock' = p
          /\ seen' = IF p \in Command THEN [seen EXCEPT ![p] = cache] ELSE seen
          /\ UNCHANGED <<harness, cache, answer, lastOk, setBacks, failures>>
        BY <1>1, <1>3 DEF LookAgain
    <2>2. /\ at' \in [Prober -> Place] /\ at'[p] = "probe"
          /\ \A q \in Prober \ {p} : at'[q] = at[q]
        BY <1>1, <2>1 DEF ProbeTypeOK, Move, Place
    <2>3. ProbeTypeOK'
        BY <1>1, <2>1, <2>2 DEF ProbeTypeOK
    <2>4. ListingAgeInv' /\ HonestInv'
        BY <2>1 DEF ProbeInv, ListingAgeInv, HonestInv, DatesFailures, Listed
    <2>5. \A q \in Prober : at[q] \notin {"probe", "spawn", "drop"}
        BY <1>1, ProbeConstants DEF ProbeInv, ProberInv
    <2>6. ProberInv'
        BY <2>1, <2>2, <2>5 DEF ProberInv
    <2>7. SeenInv'
        BY <1>1, <2>1, <2>2, <2>5, ProbeConstants
           DEF ProbeInv, ProbeTypeOK, SeenInv
    <2>8. ExpiredInv'
        <3> SUFFICES ASSUME NEW r \in Refresher, at'[r] = "probe", Listed, setBacks = 0
                     PROVE  cache.age >= Expiry
            BY <2>1 DEF ExpiredInv, Listed
        <3> QED BY <1>1, <1>3, EntryType, ProbeConstants
                   DEF ProbeInv, ListingAgeInv, Current
    <2> QED BY <2>3, <2>4, <2>6, <2>7, <2>8 DEF ProbeInv
<1> QED BY <1>2, <1>3

LEMMA LockFailsIInv == ASSUME ProbeInv, NEW p \in Prober, LockFails(p) PROVE ProbeInv'
<1>1. ProbeTypeOK /\ at[p] = "wait"
    BY DEF ProbeInv, LockFails
<1>2. PICK label \in {"answered", "idle"} : Move(p, label)
    BY DEF LockFails
<1>3. at' \in [Prober -> Place] /\ at'[p] = label
    BY <1>1, <1>2 DEF ProbeTypeOK, Move, Place
<1>4. answer' \in [Command -> Outcome \cup {NoAnswer}]
    <2>1. CASE p \in Refresher
        BY <1>1, <2>1 DEF ProbeTypeOK, LockFails
    <2>2. CASE p \notin Refresher
        <3>1. PICK o \in {"stale_failed", "stale", "miss", "failed"} : Answer(p, o)
            BY <2>2 DEF LockFails
        <3> QED BY <1>1, <2>2, <3>1 DEF ProbeTypeOK, Answer, Outcome
    <2> QED BY <2>1, <2>2
<1>5. failures' \in 0..MaxFailures
    BY <1>1, ProbeConstants DEF ProbeTypeOK, LockFails, Fault
<1> QED BY <1>1, <1>2, <1>3, <1>4, <1>5, QuietIInv
           DEF Quiet, LockFails, Move, ProbeTypeOK

(* The end of a probe, or of a process: it lets the flock go, and what it  *)
(* has read.                                                               *)
ProbeOver(p) ==
    /\ UNCHANGED <<harness, setBacks>>
    /\ answer' \in [Command -> Outcome \cup {NoAnswer}]
    /\ at' \in [Prober -> Place]
    /\ at'[p] \in {"idle", "answered"}
    /\ lock' = IF lock = p THEN Nobody ELSE lock
    /\ failures' \in 0..MaxFailures
    /\ \A q \in Prober \ {p} : at'[q] = at[q]
    /\ seen' = IF p \in Command THEN [seen EXCEPT ![p] = NoListing] ELSE seen

LEMMA EndsIInv ==
    ASSUME ProbeInv, NEW p \in Prober, ProbeOver(p), cache' = cache, lastOk' = lastOk
    PROVE  ProbeInv'
<1>1. ProbeTypeOK'
    BY DEF ProbeInv, ProbeTypeOK, ProbeOver
<1>2. ListingAgeInv' /\ HonestInv'
    BY DEF ProbeInv, ListingAgeInv, HonestInv, DatesFailures, Listed, ProbeOver
<1>3. ProberInv'
    BY DEF ProbeInv, ProberInv, ProbeOver
<1>4. SeenInv'
    BY ProbeConstants DEF ProbeInv, ProbeTypeOK, SeenInv, ProbeOver
<1>5. ExpiredInv'
    BY ProbeConstants DEF ProbeInv, ExpiredInv, Listed, ProbeOver
<1> QED BY <1>1, <1>2, <1>3, <1>4, <1>5 DEF ProbeInv

LEMMA EndProbeIsOver ==
    ASSUME ProbeTypeOK, NEW p \in Prober, NEW ok \in BOOLEAN, EndProbe(p, ok),
           UNCHANGED <<harness, setBacks>>, failures' \in 0..MaxFailures
    PROVE  ProbeOver(p)
<1>1. CASE p \in Refresher
    <2>1. p \notin Command /\ at' = [at EXCEPT ![p] = "idle"]
        BY <1>1, ProbeConstants DEF EndProbe, Move
    <2> QED BY <1>1, <2>1
               DEF ProbeTypeOK, EndProbe, Unlock, ProbeOver, Place, recall
<1>2. CASE p \notin Refresher
    <2>1. p \in Command /\ at' = [at EXCEPT ![p] = "answered"]
        BY <1>2 DEF EndProbe, Move, Prober
    <2>2. PICK o \in {"miss", "stale_failed", "failed"} : Answer(p, o)
        BY <1>2 DEF EndProbe
    <2>3. answer' \in [Command -> Outcome \cup {NoAnswer}]
        BY <2>1, <2>2 DEF ProbeTypeOK, Answer, Outcome
    <2> QED BY <1>2, <2>1, <2>3
               DEF ProbeTypeOK, EndProbe, Unlock, ProbeOver, Place
<1> QED BY <1>1, <1>2

LEMMA KillEnds == ASSUME ProbeTypeOK, NEW p \in Prober, KillProber(p) PROVE ProbeOver(p)
<1>1. at' = [at EXCEPT ![p] = "idle"] /\ failures' \in 0..MaxFailures
    BY ProbeConstants DEF ProbeTypeOK, KillProber, Move, Fault
<1>2. CASE p \in Refresher
    BY <1>1, <1>2, ProbeConstants
       DEF ProbeTypeOK, KillProber, Unlock, ProbeOver, Place, recall
<1>3. CASE p \notin Refresher
    <2>1. p \in Command
        BY <1>3 DEF Prober
    <2>2. answer' \in [Command -> Outcome \cup {NoAnswer}]
        BY <1>3 DEF ProbeTypeOK, KillProber, Answer
    <2> QED BY <1>1, <1>3, <2>1, <2>2
               DEF ProbeTypeOK, KillProber, Unlock, ProbeOver, Place
<1> QED BY <1>2, <1>3

(* What a failed probe keeps is the entry that is there.                   *)
LEMMA KeptIsCache ==
    ASSUME ProbeInv, NEW p \in Prober, at[p] = "probe"
    PROVE  Kept(p) = cache
BY DEF ProbeInv, SeenInv, Kept

LEMMA ProbedIInv ==
    ASSUME ProbeInv, NEW p \in Prober, NEW ok \in BOOLEAN, Probed(p, ok)
    PROVE  ProbeInv'
<1> USE DEF bounds
<1>1. ProbeTypeOK /\ at[p] = "probe" /\ lock = p /\ Kept(p) = cache
    BY KeptIsCache DEF ProbeInv, Probed, ProberInv
<1>2. ProbeOver(p) /\ lastOk' = ok
    BY <1>1, EndProbeIsOver DEF Probed, ProbeTypeOK, Record
<1>3. \A q \in Prober : at'[q] \notin {"probe", "spawn", "drop"}
    BY <1>1, <1>2 DEF ProbeInv, ProberInv, ProbeOver
<1>4. ProberInv' /\ ExpiredInv'
    BY <1>3, ProbeConstants DEF ProberInv, ExpiredInv
<1>5. SeenInv'
    BY <1>1, <1>2, <1>3, ProbeConstants
       DEF ProbeInv, ProberInv, ProbeTypeOK, SeenInv, ProbeOver
<1>6. CASE ok
    <2>1. cache' = [age |-> 0, failedSince |-> FALSE]
        BY <1>6 DEF Probed, Record
    <2>2. cache' \in Entry
        BY <2>1, ProbeConstants DEF Entry, ListingAge
    <2>3. ProbeTypeOK'
        BY <1>1, <1>2, <2>2 DEF ProbeTypeOK, ProbeOver
    <2>4. ListingAgeInv' /\ HonestInv'
        BY <1>1, <1>2, <1>6, <2>1, ProbeConstants
           DEF ListingAgeInv, HonestInv, DatesFailures, Listed, ProbeTypeOK, ProbeOver
    <2> QED BY <1>4, <1>5, <2>3, <2>4 DEF ProbeInv
<1>7. CASE ~ok /\ ~Listed
    <2>1. cache' = NoListing
        BY <1>1, <1>7 DEF Probed, Record, Listed
    <2>2. ProbeTypeOK'
        BY <1>1, <1>2, <2>1 DEF ProbeTypeOK, ProbeOver
    <2> QED BY <1>4, <1>5, <2>1, <2>2
               DEF ProbeInv, ListingAgeInv, HonestInv, DatesFailures, Listed
<1>8. CASE ~ok /\ Listed
    <2>1. cache' = [cache EXCEPT !.failedSince = DatedAfter(p)]
        BY <1>1, <1>8 DEF Probed, Record, Listed
    <2>2. DatedAfter(p) \in BOOLEAN
        BY DEF DatedAfter, DatedNow
    <2>3. /\ cache' \in Entry /\ cache'.age = cache.age
          /\ cache'.failedSince = DatedAfter(p)
        BY <1>1, <1>8, <2>1, <2>2, EntryType DEF Entry
    <2>4. ProbeTypeOK' /\ ListingAgeInv'
        BY <1>1, <1>2, <1>8, <2>3
           DEF ProbeInv, ProbeTypeOK, ListingAgeInv, Listed, ProbeOver
    <2>5. DatesFailures => DatedAfter(p)
        <3> SUFFICES ASSUME p \in Refresher, setBacks = 0, Expiry > 0
                     PROVE  cache.age > 0
            BY DEF DatesFailures, DatedAfter, DatedNow, Prober
        <3> QED BY <1>1, <1>8, EntryType, ProbeConstants DEF ProbeInv, ExpiredInv
    <2>6. HonestInv'
        BY <1>2, <1>8, <2>3, <2>5 DEF HonestInv, DatesFailures, ProbeOver
    <2> QED BY <1>4, <1>5, <2>4, <2>6 DEF ProbeInv
<1> QED BY <1>6, <1>7, <1>8

LEMMA WriteFailsIInv ==
    ASSUME ProbeInv, NEW p \in Prober, NEW ok \in BOOLEAN, WriteFails(p, ok)
    PROVE  ProbeInv'
<1>1. ProbeTypeOK /\ failures' \in 0..MaxFailures
    BY ProbeConstants DEF ProbeInv, ProbeTypeOK, WriteFails, Fault
<1>2. ProbeOver(p)
    BY <1>1, EndProbeIsOver DEF WriteFails
<1> QED BY <1>2, EndsIInv DEF WriteFails

-----------------------------------------------------------------------------
(* The clock                                                               *)

(* The entry gets older or younger, and stays within the bounds.           *)
LEMMA ShiftType ==
    ASSUME ProbeInv, TimePasses \/ ClockSetBack
    PROVE  \E by \in {1, -1} :
               /\ ShiftListing(by) /\ cache \in Entry /\ cache.age \in Int
               /\ cache' = [cache EXCEPT !.age = @ + by]
               /\ cache' \in Entry /\ cache'.age = cache.age + by
               /\ cache'.failedSince = cache.failedSince
               /\ setBacks \in Nat /\ setBacks' \in 0..MaxSetBacks
               /\ setBacks' = IF by = 1 THEN setBacks ELSE setBacks + 1
               /\ cache'.age >= -setBacks' /\ cache'.age <= Late + MaxSetBacks - setBacks'
<1>1. PICK by \in {1, -1} :
          /\ ShiftListing(by) /\ Listed
          /\ setBacks' = IF by = 1 THEN setBacks ELSE setBacks + 1
          /\ IF by = 1 THEN cache.age < Late + MaxSetBacks - setBacks
              ELSE setBacks < MaxSetBacks
    BY DEF TimePasses, ClockSetBack
<1>2. /\ ProbeTypeOK /\ cache \in Entry /\ cache.age \in Int
      /\ setBacks \in Nat /\ setBacks <= MaxSetBacks
    BY <1>1, EntryType, ProbeConstants DEF ProbeInv, ProbeTypeOK
<1>3. cache' = [cache EXCEPT !.age = @ + by]
    BY <1>1 DEF ShiftListing, Listed
<1>4. /\ -setBacks <= cache.age /\ cache.age <= Late + MaxSetBacks - setBacks
      /\ -setBacks' <= cache.age + by /\ cache.age + by <= Late + MaxSetBacks - setBacks'
      /\ setBacks' \in 0..MaxSetBacks /\ cache.age + by \in ListingAge
    <2>1. -setBacks <= cache.age /\ cache.age <= Late + MaxSetBacks - setBacks
        BY <1>1 DEF ProbeInv, ListingAgeInv
    <2> QED BY <1>1, <1>2, <2>1, ProbeConstants DEF ListingAge
<1>5. /\ cache' \in Entry /\ cache'.age = cache.age + by
      /\ cache'.failedSince = cache.failedSince
    BY <1>2, <1>3, <1>4 DEF Entry
<1> QED BY <1>1, <1>2, <1>3, <1>4, <1>5

LEMMA ShiftIInv == ASSUME ProbeInv, TimePasses \/ ClockSetBack PROVE ProbeInv'
<1>1. PICK by \in {1, -1} :
          /\ ShiftListing(by) /\ cache \in Entry /\ cache.age \in Int
          /\ cache' = [cache EXCEPT !.age = @ + by]
          /\ cache' \in Entry /\ cache'.age = cache.age + by
          /\ cache'.failedSince = cache.failedSince
          /\ setBacks \in Nat /\ setBacks' \in 0..MaxSetBacks
          /\ setBacks' = IF by = 1 THEN setBacks ELSE setBacks + 1
          /\ cache'.age >= -setBacks' /\ cache'.age <= Late + MaxSetBacks - setBacks'
    BY ShiftType
<1>2. ProbeTypeOK /\ Listed
    BY DEF ProbeInv, TimePasses, ClockSetBack
<1> DEFINE ShiftedEntry(entry) == IF entry = NoListing THEN NoListing
                             ELSE [entry EXCEPT !.age = @ + by]
<1>3. /\ seen' = [c \in Command |-> ShiftedEntry(seen[c])]
      /\ UNCHANGED <<harness, lock, at, answer, lastOk, failures>>
    BY <1>1 DEF ShiftListing
<1>4. SeenInv'
    <2> SUFFICES ASSUME NEW c \in Command
                 PROVE  seen'[c] = IF at'[c] = "probe" THEN cache' ELSE NoListing
        BY DEF SeenInv
    <2>1. seen[c] = IF at[c] = "probe" THEN cache ELSE NoListing
        BY DEF ProbeInv, SeenInv
    <2> QED BY <1>1, <1>2, <1>3, <2>1 DEF Listed
<1>5. ProbeTypeOK'
    <2>1. seen' = [c \in Command |-> IF at'[c] = "probe" THEN cache' ELSE NoListing]
        BY <1>3, <1>4 DEF SeenInv
    <2> QED BY <1>1, <1>2, <1>3, <2>1 DEF ProbeTypeOK
<1>6. ListingAgeInv'
    BY <1>1 DEF ListingAgeInv
<1>7. ProberInv'
    BY <1>3 DEF ProbeInv, ProberInv
<1>8. ExpiredInv'
    <2> SUFFICES ASSUME NEW r \in Refresher, at'[r] = "probe", setBacks' = 0
                 PROVE  cache'.age >= Expiry
        BY DEF ExpiredInv
    <2>1. by = 1 /\ setBacks = 0
        BY <1>1
    <2>2. cache.age >= Expiry
        BY <1>2, <1>3, <2>1 DEF ProbeInv, ExpiredInv
    <2> QED BY <1>1, <2>1, <2>2, ProbeConstants
<1>9. HonestInv'
    <2>1. setBacks' = 0 => setBacks = 0
        BY <1>1
    <2> QED BY <1>1, <1>2, <1>3, <2>1 DEF ProbeInv, HonestInv, DatesFailures
<1> QED BY <1>4, <1>5, <1>6, <1>7, <1>8, <1>9 DEF ProbeInv

-----------------------------------------------------------------------------
(* Invariance                                                              *)

LEMMA InitIInv == ProbeInit => ProbeInv
<1> SUFFICES ASSUME ProbeInit PROVE ProbeInv
    OBVIOUS
<1> USE DEF ProbeInit
<1>1. [age |-> Late, failedSince |-> FALSE] \in Entry
    BY ProbeConstants DEF Entry, ListingAge
<1>2. /\ at \in [Prober -> Place] /\ answer \in [Command -> Outcome \cup {NoAnswer}]
      /\ seen \in [Command -> Entry \cup {NoListing}]
    BY DEF Place
<1>3. ProbeTypeOK
    <2>1. lastOk \in BOOLEAN
        <3>1. lastOk = (cache # NoListing)
            OBVIOUS
        <3> HIDE DEF ProbeInit
        <3>2. (cache # NoListing) \in BOOLEAN
            OBVIOUS
        <3> QED BY <3>1, <3>2 
    <2>2. cache \in Entry \cup {NoListing}
        BY <1>1, Zenon
    <2>3. setBacks \in 0..MaxSetBacks /\ failures \in 0..MaxFailures
        BY ProbeConstants
    <2> QED BY <1>2, <2>1, <2>2, <2>3 DEF ProbeTypeOK
<1>4. ListingAgeInv
    BY ProbeConstants DEF ListingAgeInv, Listed
<1>5. ProberInv /\ SeenInv /\ ExpiredInv
    BY ProbeConstants DEF ProberInv, SeenInv, ExpiredInv
<1>6. HonestInv
    <2>1. CASE cache = NoListing
        BY <2>1 DEF HonestInv, DatesFailures, Listed
    <2>2. CASE cache # NoListing
        <3>1. cache.failedSince = FALSE
            BY <2>2
        <3>2. lastOk = (cache # NoListing)
            OBVIOUS
        <3> HIDE DEF ProbeInit
        <3> QED BY <2>2, <3>1, <3>2 DEF HonestInv, DatesFailures
    <2> QED BY <2>1, <2>2
<1> QED BY <1>3, <1>4, <1>5, <1>6 DEF ProbeInv

LEMMA NextIInv == ASSUME ProbeInv, [ProbeNext]_probeVars PROVE ProbeInv'
<1>1. CASE \E c \in Command :
              (\E how \in Mode : Ask(c, how)) \/ Trigger(c) \/ RefresherFails(c)
    BY <1>1, AskIInv, TriggerIInv
<1>2. CASE \E p \in Prober : Lock(p) \/ LockFails(p)
    BY <1>2, LockIInv, LockFailsIInv
<1>3. CASE \E p \in Prober : EndsProbe(p)
    BY <1>3, ProbedIInv, WriteFailsIInv DEF EndsProbe
<1>4. ASSUME NEW p \in Prober, KillProber(p) PROVE ProbeInv'
    <2>1. ProbeOver(p)
        BY <1>4, KillEnds DEF ProbeInv
    <2> QED BY <1>4, <2>1, EndsIInv DEF KillProber
<1>5. CASE TimePasses \/ ClockSetBack
    BY <1>5, ShiftIInv
<1>6. CASE UNCHANGED probeVars
    BY <1>6 DEF probeVars, recall, bounds, ProbeInv, ProbeTypeOK, ListingAgeInv,
       ProberInv, SeenInv,
                ExpiredInv, HonestInv, DatesFailures, Listed
<1> QED BY <1>1, <1>2, <1>3, <1>4, <1>5, <1>6 DEF ProbeNext

LEMMA Invariance == ProbeSpec => []ProbeInv
<1>1. ProbeInit => ProbeInv
    BY InitIInv
<1>2. ProbeInv /\ [ProbeNext]_probeVars => ProbeInv'
    BY NextIInv
<1> QED BY <1>1, <1>2, PTL DEF ProbeSpec

(* The listing, the flock, what commands and refreshers are at and what    *)
(* they have read are always of the kinds that the code in src/models/     *)
(* handles.                                                                *)
THEOREM ProbeTypeCorrect == ProbeSpec => []ProbeTypeOK
<1>1. ProbeInv => ProbeTypeOK
    BY DEF ProbeInv
<1> QED BY Invariance, <1>1, PTL

(* A listing that succeeded is never lost to a probe that failed, whoever  *)
(* probes, in the cache files that src/models/ keeps for the harnesses.    *)
THEOREM LastGood == ProbeSpec => LastGoodKept
<1>1. ASSUME ProbeInv, [ProbeNext]_probeVars, cache # NoListing PROVE cache' # NoListing
    <2>1. CASE \E p \in Prober, ok \in BOOLEAN : Probed(p, ok)
        <3>1. PICK p \in Prober, ok \in BOOLEAN : Probed(p, ok)
            BY <2>1
        <3>2. Kept(p) = cache /\ cache \in Entry
            BY <1>1, <3>1, KeptIsCache DEF Probed, ProbeInv, ProbeTypeOK
        <3>3. [age |-> 0, failedSince |-> FALSE] \in Entry
            BY ProbeConstants DEF Entry, ListingAge
        <3>4. [cache EXCEPT !.failedSince = DatedAfter(p)] \in Entry
            BY <3>2 DEF Entry, DatedAfter, DatedNow
        <3> QED BY <1>1, <3>1, <3>2, <3>3, <3>4, ProbeConstants
                   DEF Probed, Record
    <2>2. CASE TimePasses \/ ClockSetBack
        BY <1>1, <2>2, ShiftType, ProbeConstants
    <2>3. CASE UNCHANGED cache
        BY <1>1, <2>3
    <2> QED BY <1>1, <2>1, <2>2, <2>3
            DEF ProbeNext, probeVars, Ask, Trigger, Busy, TryLock,
            SpawnRefresher, RefresherFails, Drop, Return,
                Lock, LockWhenFree, LookAgain, LockFails, EndsProbe, WriteFails,
                KillProber
<1>2. ProbeInv /\ [ProbeNext]_probeVars => [cache # NoListing => cache' # NoListing]_probeVars
    BY <1>1
<1> QED BY Invariance, <1>2, PTL DEF ProbeSpec, LastGoodKept

(* What commands conclude from the entry that all of the machine's projects*)
(* share is the truth about the harness: src/models/ takes it as a proof   *)
(* of a login exactly if the last recorded attempt succeeded, as far as a  *)
(* refresher dates a failure after the listing: those of OpenCode and      *)
(* Cursor may not once the clock was set back, or with a time limit of 0.  *)
THEOREM Evident == ProbeSpec => EvidenceTrue
<1> DEFINE Truthful(c) ==
        ReadsEntry(c) /\ answer'[c] # NoAnswer /\ DatesFailures =>
            (answer'[c] \in {"hit", "stale"} <=> lastOk)
<1>1. ASSUME ProbeInv, [ProbeNext]_probeVars, NEW c \in Command,
             ReadsEntry(c), answer'[c] # NoAnswer, DatesFailures
      PROVE  answer'[c] \in {"hit", "stale"} <=> lastOk
    <2>1. /\ ProbeTypeOK /\ Listed /\ c \in Prober /\ at[c] \in {"idle", "wait"}
          /\ answer'[c] # answer[c] /\ (cache.failedSince <=> ~lastOk)
        BY <1>1, ProbeConstants DEF ProbeInv, HonestInv, DatesFailures, ReadsEntry
    <2>2. SUFFICES answer'[c] \in {"hit", "stale"} <=> ~cache.failedSince
        BY <2>1
    <2>3. Evidence \in {"hit", "stale"} <=> ~cache.failedSince
        BY DEF Evidence
    <2>4. ASSUME NEW d \in Command, NEW how \in Mode, Ask(d, how)
          PROVE  answer'[c] = Evidence
        BY <2>1, <2>4 DEF Ask, Answer, ProbeTypeOK
    <2>5. CASE \E d \in Command : Trigger(d) \/ RefresherFails(d)
        <3>1. PICK d \in Command : Trigger(d) \/ RefresherFails(d)
            BY <2>5
        <3>2. at[d] \notin {"idle", "wait"} /\ (answer' = answer \/ Answer(d, NoAnswer))
            BY <3>1 DEF Trigger, Busy, TryLock, SpawnRefresher, RefresherFails,
               Drop, Return, recall
        <3> QED BY <2>1, <3>2 DEF ProbeTypeOK, Answer
    <2>6. ASSUME NEW p \in Prober, Lock(p) PROVE answer'[c] = Evidence
        BY <2>1, <2>6, ProbeConstants
           DEF Lock, LockWhenFree, LookAgain, Answer, ProbeTypeOK
    <2>7. ASSUME NEW p \in Prober, LockFails(p)
          PROVE  answer'[c] = IF cache.failedSince THEN "stale_failed" ELSE "stale"
        BY <2>1, <2>7 DEF LockFails, Answer, ProbeTypeOK
    <2>8. CASE \E p \in Prober : EndsProbe(p) \/ KillProber(p)
        <3>1. PICK p \in Prober : EndsProbe(p) \/ KillProber(p)
            BY <2>8
        <3>2. CASE EndsProbe(p)
            <4>1. at[p] = "probe" /\ \E ok \in BOOLEAN : EndProbe(p, ok)
                BY <3>2 DEF EndsProbe, Probed, WriteFails
            <4> QED BY <2>1, <4>1 DEF EndProbe, Answer, recall, ProbeTypeOK
        <3>3. CASE KillProber(p)
            BY <1>1, <2>1, <3>3 DEF KillProber, Answer, recall, ProbeTypeOK
        <3> QED BY <3>1, <3>2, <3>3
    <2>9. CASE TimePasses \/ ClockSetBack \/ UNCHANGED probeVars
        BY <2>1, <2>9
           DEF TimePasses, ClockSetBack, ShiftListing, probeVars, recall
    <2> QED BY <1>1, <2>3, <2>4, <2>5, <2>6, <2>7, <2>8, <2>9 DEF ProbeNext
<1>2. ProbeInv /\ [ProbeNext]_probeVars => [\A c \in Command : Truthful(c)]_probeVars
    BY <1>1
<1> QED BY Invariance, <1>2, PTL DEF ProbeSpec, EvidenceTrue

================================================================================
