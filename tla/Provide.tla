------------------------------- MODULE Provide -------------------------------
(***************************************************************************)
(* `mars provide`: hosts install the skills they ship into .mars/skills/,  *)
(* several at a time and during a sync. A run answers from an unlocked     *)
(* fast path when it can; otherwise it takes the sync flock without        *)
(* waiting, records every name it may write with the digest "pending",     *)
(* writes, and records the final digest. It may be killed anywhere.        *)
(*                                                                         *)
(* A source stands for one spec together with the digest of what it ships, *)
(* so a record that names a source matches its version and its digest.     *)
(***************************************************************************)
EXTENDS Naturals, FiniteSets

CONSTANTS
    Proc,        \* processes running `mars provide`
    Provider,
    Name,        \* skill directory names, `<skill>__<provider>`
    Owner,       \* the provider each name belongs to
    Source,      \* what the hosts ship: [provider, skills]
    Hosts,       \* the sources each process may be launched with
    Final,       \* the source each process may settle on
    Bytes,       \* contents of a skill directory
    Package,     \* the bytes a package ships under these names
    Torn,        \* what an interrupted removal leaves
    UserBytes,   \* what the user may put there
    Packaged,    \* the sets of names a sync may want to claim
    Damage,      \* what may happen to provided.lock: {Corrupt, Newer}
    MaxEdits, MaxFaults, MaxSyncs,
    Absent, NoSkill, Pending, Never, Corrupt, Newer, Free, Sync, NoSource, NoName

Entry == [of : Source \cup {Pending, Never}, skills : SUBSET Name]
NoEntry == [of |-> Never, skills |-> {}]
NoRecord == [q \in Provider |-> NoEntry]
Writers == {"user", "edited", "provide", "sync"}
MaybeDir == [bytes : Bytes, by : Writers] \cup {Absent}

ASSUME NameAssumption ==
    /\ Owner \in [Name -> Provider]
    /\ Source \subseteq [provider : Provider, skills : [Name -> Bytes \cup {NoSkill}]]
    /\ \A s \in Source, n \in Name : s.skills[n] # NoSkill => Owner[n] = s.provider
    /\ Hosts \in [Proc -> SUBSET Source]
    /\ Final \in [Proc -> Source]
    /\ UserBytes \cup {Package, Torn} \subseteq Bytes
    /\ Packaged \subseteq SUBSET Name
    /\ Damage \subseteq {Corrupt, Newer}
ASSUME SentinelAssumption ==
    /\ Absent \notin [bytes : Bytes, by : Writers]
    /\ NoSkill \notin Bytes
    /\ {Pending, Never, NoSource} \cap Source = {} /\ Pending # Never
    /\ {Corrupt, Newer} \cap [Provider -> Entry] = {} /\ Corrupt # Newer
    /\ NoName \notin Name
    /\ {Free, Sync} \cap Proc = {} /\ Free # Sync
ASSUME BoundAssumption == {MaxEdits, MaxFaults, MaxSyncs} \subseteq Nat

VARIABLES
    \* on disk
    dir,      \* .mars/skills/<name>, with who wrote it (history)
    record,   \* .mars/provided.lock
    claims,   \* names that mars.lock claims
    journal,  \* names in .mars/pending-canonical.json; {}: no such file
    flock,    \* holder of .mars/sync.lock
    \* memory of each process
    pc, src, seen, seenClaims,
    \* memory of the one that holds the flock: what it still has to install
    \* and to remove, what it will record, the directory it is replacing
    todo, drop, keep, cur, stash,
    \* the sync, as far as provide can see it: the names it claims, and its step
    goal, stage,
    \* history and bounds
    touched,  \* names the user changed since flock was last taken
    edits, faults, syncs

disk == <<dir, record, claims, journal>>
answer == <<src, seen, seenClaims>>
work == <<todo, drop, keep, cur, stash>>
sync == <<goal, stage>>
bounds == <<edits, faults, syncs>>
vars == <<disk, flock, pc, answer, work, sync, touched, bounds>>

PC == {"idle", "start", "record", "claims", "scan", "lock", "locked",
       "apply"}

(* The record, the plan and what the plan writes stay within the names and *)
(* sources the hosts ship.                                                 *)
TypeOK ==
    /\ dir \in [Name -> MaybeDir]
    /\ record \in [Provider -> Entry] \cup {Corrupt, Newer}
    /\ claims \subseteq Name
    /\ journal \subseteq Name
    /\ flock \in Proc \cup {Free, Sync}
    /\ pc \in [Proc -> PC]
    /\ src \in [Proc -> Source \cup {NoSource}]
    /\ seen \in [Proc -> Entry]
    /\ seenClaims \in [Proc -> SUBSET Name]
    /\ {todo, drop, keep} \subseteq SUBSET Name
    /\ cur \in Name \cup {NoName}
    /\ stash \in MaybeDir
    /\ goal \subseteq Name
    /\ stage \in {"apply", "published"}
    /\ touched \subseteq Name
    /\ {edits, faults, syncs} \subseteq Nat

Init ==
    /\ dir = [n \in Name |-> Absent]
    /\ record = NoRecord
    /\ claims = {} /\ journal = {}
    /\ flock = Free
    /\ pc = [p \in Proc |-> "idle"]
    /\ src = [p \in Proc |-> NoSource]
    /\ seen = [p \in Proc |-> NoEntry]
    /\ seenClaims = [p \in Proc |-> {}]
    /\ todo = {} /\ drop = {} /\ keep = {} /\ cur = NoName /\ stash = Absent
    /\ goal = {} /\ stage = "apply"
    /\ touched = {}
    /\ edits = 0 /\ faults = 0 /\ syncs = 0

(* The process is gone, and its flock with it.                             *)
Exit(p) ==
    /\ pc' = [pc EXCEPT ![p] = "idle"]
    /\ src' = [src EXCEPT ![p] = NoSource]
    /\ seen' = [seen EXCEPT ![p] = NoEntry]
    /\ seenClaims' = [seenClaims EXCEPT ![p] = {}]
    /\ IF flock = p
       THEN /\ flock' = Free /\ touched' = {}
            /\ todo' = {} /\ drop' = {} /\ keep' = {} /\ cur' = NoName /\ stash' = Absent
       ELSE UNCHANGED <<flock, touched, work>>

Goto(p, label) ==
    /\ pc' = [pc EXCEPT ![p] = label]
    /\ UNCHANGED <<answer, flock, touched, work>>

-----------------------------------------------------------------------------
(* The plan: what each shipped skill's destination calls for.              *)

Shipped(s) == {n \in Name : s.skills[n] # NoSkill}
Holds(n, b) == dir[n] # Absent /\ dir[n].bytes = b
(* [mutant] A directory under the name will do.                            *)
Exists(s, n) == dir[n] # Absent
Same(s, n) == Holds(n, s.skills[n])

Installs(s, e, c) == {n \in Shipped(s) \ c : dir[n] = Absent}
(* [mutant] The record is not consulted.                                   *)
ReplacesUnrecorded(s, e, c) == {n \in Shipped(s) \ c : dir[n] # Absent /\ ~Same(s, n)}
Replaces(s, e, c) == {n \in (Shipped(s) \cap e.skills) \ c : dir[n] # Absent /\ ~Same(s, n)}
Keeps(s, e, c) == {n \in (Shipped(s) \cap e.skills) \ c : Same(s, n)}
Adopts(s, e, c) == {n \in Shipped(s) \ (c \cup e.skills) : Same(s, n)}
Owned(s, e, c) ==
    Installs(s, e, c) \cup Replaces(s, e, c) \cup Keeps(s, e, c) \cup Adopts(s, e, c)
Removals(s, e, c) == e.skills \ (Owned(s, e, c) \cup c)

(* What goes on record before anything is written: the old names, and what *)
(* the plan leaves. [mutant] The latter only.                              *)
RecordedNew(s, e, c) == Owned(s, e, c)
RecordedFirst(s, e, c) == e.skills \cup Owned(s, e, c)

(* [mutant] The record is checked against itself.                          *)
RecordIsCurrent(s, e, c) == e.of = s
(* "Up to date": a re-plan would do nothing.                               *)
WritesNothing(s, e, c) ==
    /\ e.of = s
    /\ Installs(s, e, c) \cup Replaces(s, e, c) \cup Adopts(s, e, c) = {}
    /\ Removals(s, e, c) = {}
    /\ Owned(s, e, c) = e.skills

(* A corrupt record reads as empty; a newer one is an error.               *)
Loaded == IF record = Corrupt THEN NoRecord ELSE record

-----------------------------------------------------------------------------
(* The unlocked fast path: four reads, anything may happen between them.   *)

Launch(p) == \E s \in Hosts[p] :
    /\ pc[p] = "idle"
    /\ pc' = [pc EXCEPT ![p] = "start"]
    /\ src' = [src EXCEPT ![p] = s]
    /\ UNCHANGED <<disk, flock, seen, seenClaims, work, sync, touched, bounds>>

FastPending(p) ==
    /\ pc[p] = "start"
    /\ IF journal # {} THEN Exit(p) ELSE Goto(p, "record")
    /\ UNCHANGED <<disk, sync, bounds>>

FastRecord(p) ==
    /\ pc[p] = "record"
    /\ \/ record = Newer /\ Exit(p)
       \/ /\ record # Newer
          /\ LET e == Loaded[src[p].provider] IN
             /\ seen' = [seen EXCEPT ![p] = e]
             /\ pc' = [pc EXCEPT ![p] = IF e.of = src[p] THEN "claims" ELSE "lock"]
          /\ UNCHANGED <<src, seenClaims, work, flock, touched>>
    /\ UNCHANGED <<disk, sync, bounds>>

FastClaims(p) ==
    /\ pc[p] = "claims"
    /\ seenClaims' = [seenClaims EXCEPT ![p] = claims]
    /\ pc' = [pc EXCEPT ![p] = "scan"]
    /\ UNCHANGED <<disk, flock, src, seen, work, sync, touched, bounds>>

FastScan(p) ==
    /\ pc[p] = "scan"
    /\ IF WritesNothing(src[p], seen[p], seenClaims[p]) THEN Exit(p) ELSE Goto(p, "lock")
    /\ UNCHANGED <<disk, sync, bounds>>

(* Busy: someone else is writing .mars/; never wait.                       *)
TryLock(p) ==
    /\ pc[p] = "lock"
    /\ \/ flock # Free /\ Exit(p)
       \/ /\ flock = Free
          /\ flock' = p
          /\ touched' = {}
          /\ pc' = [pc EXCEPT ![p] = "locked"]
          /\ UNCHANGED <<answer, work>>
    /\ UNCHANGED <<disk, sync, bounds>>

-----------------------------------------------------------------------------
(* Under the flock                                                         *)

(* Assess again: nothing to write, a record this build must not touch, or  *)
(* an interrupted sync ends the run.                                       *)
NothingToDo(p) ==
    /\ pc[p] = "locked"
    /\ \/ journal # {}
       \/ record = Newer
       \/ record # Newer /\ WritesNothing(src[p], Loaded[src[p].provider], claims)
    /\ Exit(p)
    /\ UNCHANGED <<disk, sync, bounds>>

(* Plan, and record every directory this run may write, and all that the   *)
(* record already listed, before writing any.                              *)
Plan(p) ==
    LET s == src[p]
        e == Loaded[s.provider]
    IN  /\ pc[p] = "locked"
        /\ record # Newer
        /\ ~WritesNothing(s, e, claims)
        /\ record' = [Loaded EXCEPT ![s.provider] =
               [of |-> Pending, skills |-> RecordedFirst(s, e, claims)]]
        /\ seen' = [seen EXCEPT ![p] = e]
        /\ todo' = Installs(s, e, claims) \cup Replaces(s, e, claims)
        /\ drop' = Removals(s, e, claims)
        /\ keep' = Owned(s, e, claims)
        /\ pc' = [pc EXCEPT ![p] = "apply"]
        /\ UNCHANGED <<dir, claims, journal, flock, src, seenClaims, cur, stash, sync,
                       touched, bounds>>

(* [mutant] The interrupted sync is not looked for again under the flock.  *)
PlanAnyway(p) == Plan(p)

PreRecord(p) == journal = {} /\ Plan(p)

(* A directory install: rename away what is there ...                      *)
Vacate(p, n) ==
    /\ pc[p] = "apply"
    /\ cur = NoName
    /\ n \in todo
    /\ dir[n] # Absent
    /\ cur' = n
    /\ stash' = dir[n]
    /\ dir' = [dir EXCEPT ![n] = Absent]
    /\ UNCHANGED <<record, claims, journal, flock, pc, answer, todo, drop, keep, sync,
                   touched, bounds>>

(* ... and rename the staged copy into the free name.                      *)
Place(p, n) ==
    /\ pc[p] = "apply"
    /\ cur \in {n, NoName}
    /\ n \in todo
    /\ dir[n] = Absent
    /\ dir' = [dir EXCEPT ![n] = [bytes |-> src[p].skills[n], by |-> "provide"]]
    /\ todo' = todo \ {n}
    /\ cur' = NoName
    /\ stash' = Absent
    /\ UNCHANGED <<record, claims, journal, flock, pc, answer, drop, keep, sync,
                   touched, bounds>>

(* The second rename fails: restore what was there, and fail.              *)
PlaceFails(p) ==
    /\ pc[p] = "apply"
    /\ cur # NoName
    /\ dir[cur] = Absent
    /\ faults < MaxFaults
    /\ faults' = faults + 1
    /\ dir' = [dir EXCEPT ![cur] = stash]
    /\ Exit(p)
    /\ UNCHANGED <<record, claims, journal, sync, edits, syncs>>

(* It fails because the user has taken the name: nothing can be restored.  *)
NameTaken(p) ==
    /\ pc[p] = "apply"
    /\ cur # NoName
    /\ dir[cur] # Absent
    /\ Exit(p)
    /\ UNCHANGED <<disk, sync, bounds>>

(* Removals come last; a kill in the middle of one leaves part of the tree.*)
Remove(p, n) ==
    /\ pc[p] = "apply"
    /\ todo = {}
    /\ n \in drop
    /\ \/ /\ dir' = [dir EXCEPT ![n] = Absent]
          /\ drop' = drop \ {n}
          /\ UNCHANGED <<flock, pc, answer, todo, keep, cur, stash, touched, faults>>
       \/ /\ dir[n] # Absent
          /\ faults < MaxFaults
          /\ faults' = faults + 1
          /\ dir' = [dir EXCEPT ![n].bytes = Torn]
          /\ Exit(p)
    /\ UNCHANGED <<record, claims, journal, sync, edits, syncs>>

(* The final record carries the digest of what was applied.                *)
Record(p) ==
    /\ pc[p] = "apply"
    /\ record' = [Loaded EXCEPT ![src[p].provider] = [of |-> src[p], skills |-> keep]]
    /\ Exit(p)
    /\ UNCHANGED <<dir, claims, journal, sync, bounds>>

FinalRecord(p) == todo = {} /\ drop = {} /\ Record(p)

(* A kill, or an error between two writes.                                 *)
Kill(p) ==
    /\ pc[p] # "idle"
    /\ faults < MaxFaults
    /\ faults' = faults + 1
    /\ Exit(p)
    /\ UNCHANGED <<disk, sync, edits, syncs>>

-----------------------------------------------------------------------------
(* A sync, as far as provide can see it: it holds the flock, owns what the *)
(* claims, the journal and the provider's record name, journals the names  *)
(* it creates, and publishes its claims last.                              *)

Recorded(n) == record \in [Provider -> Entry] /\ n \in record[Owner[n]].skills

SyncRefused == \E n \in journal \ claims : dir[n] # Absent /\ ~Holds(n, Package)

SyncBegin(t) ==
    /\ flock = Free
    /\ syncs < MaxSyncs \/ journal # {}
    /\ ~SyncRefused
    /\ flock' = Sync
    /\ goal' = {n \in t : \/ n \in claims \cup journal \/ Recorded(n)
                          \/ dir[n] = Absent \/ Holds(n, Package)}
    /\ journal' = {n \in goal' \ claims : dir[n] = Absent}
                      \cup {n \in journal \ claims : dir[n] # Absent}
    /\ stage' = "apply"
    /\ syncs' = IF journal = {} THEN syncs + 1 ELSE syncs
    /\ UNCHANGED <<dir, record, claims, pc, answer, work, touched, edits, faults>>

SyncWrite(n) ==
    /\ flock = Sync /\ stage = "apply"
    /\ n \in goal
    /\ ~Holds(n, Package)
    /\ dir' = [dir EXCEPT ![n] = [bytes |-> Package, by |-> "sync"]]
    /\ UNCHANGED <<record, claims, journal, flock, pc, answer, work, sync, touched, bounds>>

SyncRemove(n) ==
    /\ flock = Sync /\ stage = "apply"
    /\ n \in (claims \cup journal) \ goal
    /\ dir[n] # Absent
    /\ dir' = [dir EXCEPT ![n] = Absent]
    /\ UNCHANGED <<record, claims, journal, flock, pc, answer, work, sync, touched, bounds>>

SyncPublish ==
    /\ flock = Sync /\ stage = "apply"
    /\ \A n \in goal : Holds(n, Package)
    /\ \A n \in (claims \cup journal) \ goal : dir[n] = Absent
    /\ claims' = goal
    /\ stage' = "published"
    /\ UNCHANGED <<dir, record, journal, flock, pc, answer, work, goal, touched, bounds>>

SyncEnd ==
    /\ flock' = Free
    /\ goal' = {} /\ stage' = "apply"
    /\ UNCHANGED <<dir, record, claims, pc, answer, work, touched, edits, syncs>>

SyncDone ==
    /\ flock = Sync /\ stage = "published"
    /\ journal' = {}
    /\ SyncEnd
    /\ UNCHANGED faults

SyncKill ==
    /\ flock = Sync
    /\ faults < MaxFaults
    /\ faults' = faults + 1
    /\ SyncEnd
    /\ UNCHANGED journal

-----------------------------------------------------------------------------
(* The user                                                                *)

By(f, w) == [bytes |-> f.bytes, by |-> w]

UserWrite(n, b) ==
    /\ edits < MaxEdits
    /\ ~Holds(n, b)
    /\ dir' = [dir EXCEPT ![n] = [bytes |-> b, by |->
           IF dir[n] # Absent /\ dir[n].by \in {"provide", "edited"} THEN "edited" ELSE "user"]]
    /\ touched' = IF flock \in Proc THEN touched \cup {n} ELSE {}
    /\ edits' = edits + 1
    /\ UNCHANGED <<record, claims, journal, flock, pc, answer, work, sync, faults, syncs>>

UserDelete(n) ==
    /\ edits < MaxEdits
    /\ dir[n] # Absent
    /\ dir' = [dir EXCEPT ![n] = Absent]
    /\ touched' = IF flock \in Proc THEN touched \cup {n} ELSE {}
    /\ edits' = edits + 1
    /\ UNCHANGED <<record, claims, journal, flock, pc, answer, work, sync, faults, syncs>>

(* The record is damaged, or a newer Mars has written it; or a checkout    *)
(* changes the claims. What is on disk can be attributed to nobody.        *)
DamageRecord(r) ==
    /\ flock = Free
    /\ edits < MaxEdits
    /\ record' = r
    /\ dir' = [n \in Name |-> IF dir[n] = Absent THEN Absent ELSE By(dir[n], "user")]
    /\ edits' = edits + 1
    /\ UNCHANGED <<claims, journal, flock, pc, answer, work, sync, touched, faults, syncs>>

Checkout(c) ==
    /\ flock = Free
    /\ edits < MaxEdits
    /\ c # claims
    /\ claims' = c
    /\ dir' = [n \in Name |-> IF dir[n] = Absent \/ (n \in c <=> n \in claims)
                              THEN dir[n] ELSE By(dir[n], "user")]
    /\ edits' = edits + 1
    /\ UNCHANGED <<record, journal, flock, pc, answer, work, sync, touched, faults, syncs>>

Proceed(p) ==
    \/ FastPending(p) \/ FastRecord(p) \/ FastClaims(p) \/ FastScan(p) \/ TryLock(p)
    \/ NothingToDo(p) \/ PreRecord(p)
    \/ \E n \in Name : Vacate(p, n) \/ Place(p, n) \/ Remove(p, n)
    \/ NameTaken(p) \/ FinalRecord(p)

SyncProceed == (\E n \in Name : SyncWrite(n) \/ SyncRemove(n)) \/ SyncPublish \/ SyncDone

Mars ==
    \/ \E p \in Proc : Launch(p) \/ Proceed(p) \/ PlaceFails(p) \/ Kill(p)
    \/ \E t \in Packaged : SyncBegin(t)
    \/ SyncProceed \/ SyncKill

User ==
    \/ \E n \in Name : UserDelete(n) \/ \E b \in UserBytes : UserWrite(n, b)
    \/ \E r \in Damage : DamageRecord(r)
    \/ \E c \in Packaged : Checkout(c)

Next == Mars \/ User

Spec == Init /\ [][Next]_vars

-----------------------------------------------------------------------------
(* Properties                                                              *)

(* No directory mars provide has made is ever without an owner: it is on   *)
(* record, or a package claims its name, also after a kill, so that the    *)
(* run that follows can still replace or remove it.                        *)
ProvidedCovered == \A n \in Name :
    dir[n] # Absent /\ dir[n].by \in {"provide", "edited"} =>
        Recorded(n) \/ n \in claims

(* A record with a digest is never read as current by mistake: what a run  *)
(* installed under a name on record is what the record's source ships.     *)
DigestTrue == \A n \in Name :
    dir[n] # Absent /\ dir[n].by = "provide" /\ Recorded(n) =>
        LET s == record[Owner[n]].of IN s \in Source => dir[n].bytes = s.skills[n]

(* A step of a provide run takes away bytes the user put at n.             *)
Loses(n, writers) ==
    /\ flock \in Proc /\ edits' = edits
    /\ dir[n] # Absent /\ dir[n].by \in writers
    /\ dir'[n] = Absent \/ dir'[n].bytes # dir[n].bytes

(* A run touches what the user put at a name only if the name was on the   *)
(* record before the run, not because the run itself recorded it (a change *)
(* made while the run writes can still get lost).                          *)
OnlyRecordedReplaced == [][\A n \in Name :
    Loses(n, {"user", "edited"}) => n \in touched \cup seen[flock].skills]_vars

(* While an interrupted sync is unresolved, provide writes nothing.        *)
PendingSyncUntouched == [][
    journal # {} /\ flock # Sync /\ edits' = edits => UNCHANGED <<dir, record>>]_vars

(* What a run reports as applied is there: each name it keeps on record    *)
(* holds what the source ships, each name it takes off the record is gone  *)
(* or a package's.                                                         *)
Applies(p) == pc[p] = "apply" /\ pc'[p] = "idle" /\ record' # record
AppliedIsInstalled == [][\A p \in Proc, n \in Name \ touched :
    Applies(p) =>
        /\ n \in record'[src[p].provider].skills => Same(src[p], n)
        /\ n \in seen[p].skills \ record'[src[p].provider].skills =>
               dir[n] = Absent \/ n \in claims]_vars

(* Hosts keep launching, their runs and a sync that holds the flock go on, *)
(* and an interrupted sync is run again.                                   *)
FairSpec ==
    /\ Spec
    /\ \A p \in Proc : WF_vars(Launch(p)) /\ WF_vars(Proceed(p))
    /\ WF_vars(SyncProceed)
    /\ WF_vars(journal # {} /\ \E t \in Packaged : SyncBegin(t))

(* Every shipped skill is in place, or its name is a package's or holds    *)
(* something Mars may not touch.                                           *)
Served(s) ==
    /\ record \in [Provider -> Entry]
    /\ record[s.provider].of = s
    /\ \A n \in Shipped(s) \ claims :
           /\ dir[n] # Absent
           /\ n \in record[s.provider].skills => Same(s, n)

(* Once killings, edits and new syncs stop and each host settles on one    *)
(* source, every host is served for good, though nobody ever waits for the *)
(* flock; unless a sync was interrupted and the user's bytes at an output  *)
(* it journaled make it refuse to go on, or a newer Mars wrote the record. *)
HostsSettle == <>[](\A p \in Proc : src[p] \in {NoSource, Final[p]})
Refused == SyncRefused \/ record = Newer
HostsServed == HostsSettle =>
    \A p \in Proc : <>[]Served(Final[p]) \/ <>[]Refused

=============================================================================
