------------------------------ MODULE ProbeCache ------------------------------
(***************************************************************************)
(* The cached model listing of one harness (Pi, OpenCode or Cursor), that  *)
(* every project on the machine shares. A listing that succeeded is kept   *)
(* until another succeeds; a failure since then is noted beside it, and    *)
(* says that the listing still supports its models but no longer proves    *)
(* that the harness is logged in. Commands with a stale listing answer at  *)
(* once and spawn a detached refresh; the others probe by themselves.      *)
(*                                                                         *)
(* An entry's times are kept as the age of its listing, below 0 once the   *)
(* clock was set back behind it, and whether the last attempt is later.    *)
(***************************************************************************)
EXTENDS Integers

CONSTANTS
    Command,      \* commands that ask for the listing
    Refresher,    \* detached `models __refresh-probe` processes
    Harness,      \* the harnesses to choose from; "pi" writes in its own way
    Expiry,       \* MARS_PROBE_CACHE_TTL_SECS
    MaxSetBacks,  \* bound on how far the clock is set back
    MaxFailures,  \* bound on killed processes and failed calls
    NoListing,    \* no entry, or one whose listing never succeeded
    Nobody

Prober == Command \cup Refresher
(* A listing of this age has expired and is from before now.              *)
Late == IF Expiry = 0 THEN 1 ELSE Expiry
ListingAge == (-MaxSetBacks)..(Late + MaxSetBacks)
Entry == [age : ListingAge, failedSince : BOOLEAN]

ASSUME ExpiryAssumption == Expiry \in Nat
ASSUME ProbeBoundAssumption == {MaxSetBacks, MaxFailures} \subseteq Nat
ASSUME ProberAssumption ==
    Command \cap Refresher = {} /\ Nobody \notin Prober /\ NoListing \notin Entry

VARIABLES
    harness,      \* whose listing this is
    cache,        \* availability/<harness>-probe.json
    lock,         \* flock on the lock file beside it
    at,
    answer,       \* the outcome a command has got so far
    seen,         \* the entry a command that probes has read under the flock
    \* history and bounds
    lastOk,       \* whether the last attempt that was recorded succeeded
    setBacks, failures

bounds == <<setBacks, failures>>
recall == <<answer, seen>>
probeVars == <<harness, cache, lock, at, recall, lastOk, bounds>>

NoAnswer == "none"
Outcome == {"hit", "stale", "stale_failed", "miss", "failed", "unavailable"}
Place == {"idle", "trigger", "spawn", "drop", "wait", "probe", "answered"}

ProbeInit ==
    /\ harness \in Harness
    /\ cache \in {NoListing, [age |-> Late, failedSince |-> FALSE]}
    /\ lock = Nobody
    /\ at = [p \in Prober |-> "idle"]
    /\ answer = [c \in Command |-> NoAnswer]
    /\ seen = [c \in Command |-> NoListing]
    /\ lastOk = (cache # NoListing)
    /\ setBacks = 0 /\ failures = 0

-----------------------------------------------------------------------------
(* What the entry says                                                     *)

Listed == cache # NoListing
Current == Listed /\ cache.age >= 0 /\ cache.age < Expiry
Evidence ==
    IF cache.failedSince THEN "stale_failed" ELSE IF Current THEN "hit" ELSE "stale"

Move(p, label) == at' = [at EXCEPT ![p] = label]
Answer(c, outcome) == answer' = [answer EXCEPT ![c] = outcome]
Unlock(p) == lock' = IF lock = p THEN Nobody ELSE lock
Fault == failures < MaxFailures /\ failures' = failures + 1

-----------------------------------------------------------------------------
(* A command asks                                                          *)

(* One read of the file. A stale listing is an answer, and worth a detached*)
(* refresh; a command told to refresh by itself, or with no listing, waits *)
(* for the flock; one told not to probe takes what there is.               *)
Ask(c, mode) ==
    /\ at[c] = "idle"
    /\ \/ /\ Listed /\ (Current \/ mode # "synchronous")
          /\ Answer(c, Evidence)
          /\ Move(c, IF ~Current /\ mode = "background" THEN "trigger" ELSE "answered")
       \/ /\ ~Listed /\ mode = "skip"
          /\ Answer(c, "unavailable")
          /\ Move(c, "answered")
       \/ /\ ~Current /\ mode # "skip" /\ (~Listed \/ mode = "synchronous")
          /\ Move(c, "wait")
          /\ UNCHANGED answer
    /\ UNCHANGED <<harness, cache, lock, seen, lastOk, bounds>>

(* The flock is held by somebody: let him refresh.                         *)
Busy(c) ==
    /\ at[c] = "trigger"
    /\ lock # Nobody
    /\ Move(c, "answered")
    /\ UNCHANGED <<harness, cache, lock, recall, lastOk, bounds>>

(* Under the flock, look again: a refresh may have ended meanwhile.        *)
TryLock(c) ==
    /\ at[c] = "trigger"
    /\ lock = Nobody
    /\ IF Current THEN Move(c, "answered") /\ UNCHANGED lock
                ELSE Move(c, "spawn") /\ lock' = c
    /\ UNCHANGED <<harness, cache, recall, lastOk, bounds>>

(* The refresher starts while its parent still holds the flock. (When all  *)
(* of the model's refreshers are at work the new one is one that waits.)   *)
SpawnRefresher(c) ==
    /\ at[c] = "spawn"
    /\ IF \E r \in Refresher : at[r] = "idle"
       THEN \E r \in Refresher :
                at[r] = "idle" /\ at' = [at EXCEPT ![c] = "drop", ![r] = "wait"]
       ELSE Move(c, "drop")
    /\ UNCHANGED <<harness, cache, lock, recall, lastOk, bounds>>

RefresherFails(c) ==
    /\ at[c] = "spawn"
    /\ Fault
    /\ Move(c, "drop")
    /\ UNCHANGED <<harness, cache, lock, recall, lastOk, setBacks>>

Drop(c) ==
    /\ at[c] = "drop"
    /\ Unlock(c)
    /\ Move(c, "answered")
    /\ UNCHANGED <<harness, cache, recall, lastOk, bounds>>

Return(c) ==
    /\ at[c] = "answered"
    /\ Answer(c, NoAnswer)
    /\ Move(c, "idle")
    /\ UNCHANGED <<harness, cache, lock, seen, lastOk, bounds>>

-----------------------------------------------------------------------------
(* A probe, by a command or by a refresher                                 *)

(* Under the flock, look again: a fresh listing ends the matter.           *)
LookAgain(p) ==
    /\ at[p] = "wait"
    /\ IF ~Current
       THEN /\ Move(p, "probe")
            /\ lock' = p
            /\ seen' = IF p \in Command THEN [seen EXCEPT ![p] = cache] ELSE seen
            /\ UNCHANGED answer
       ELSE /\ IF p \in Command THEN Answer(p, Evidence) /\ Move(p, "answered")
                                ELSE Move(p, "idle") /\ UNCHANGED answer
            /\ UNCHANGED <<lock, seen>>
    /\ UNCHANGED <<harness, cache, lastOk, bounds>>

(* [mutant] Those that probe do not exclude each other.                    *)
LockIgnored(p) == LookAgain(p)

LockWhenFree(p) == lock = Nobody /\ LookAgain(p)

(* [mutant] A refresher that does not get the flock at once gives up.      *)
LockOrGiveUp(p) ==
    IF lock = Nobody \/ p \in Command THEN LockWhenFree(p)
    ELSE /\ at[p] = "wait"
         /\ Move(p, "idle")
         /\ UNCHANGED <<harness, cache, lock, recall, lastOk, bounds>>

(* Wait for the flock, however long a probe takes.                         *)
Lock(p) == LockWhenFree(p)

(* No flock at all: a command takes the listing there is, or probes and    *)
(* writes nothing; a refresher does nothing.                               *)
LockFails(p) ==
    /\ at[p] = "wait"
    /\ Fault
    /\ IF p \in Refresher THEN Move(p, "idle") /\ UNCHANGED answer
       ELSE /\ Move(p, "answered")
            /\ IF Listed
               THEN Answer(p, IF cache.failedSince THEN "stale_failed" ELSE "stale")
               ELSE \E o \in {"miss", "failed"} : Answer(p, o)
    /\ UNCHANGED <<harness, cache, lock, seen, lastOk, setBacks>>

(* A failure keeps the listing: the one that the command read under the    *)
(* flock, or that the refresher reads now.                                 *)
Kept(p) == IF p \in Command THEN seen[p] ELSE cache

(* [mutant] It is dated with the present time, which is not after that of  *)
(* a listing from the future.                                              *)
DatedNow(p) == cache.age > 0
(* It is dated after that listing, except by the detached refreshers of    *)
(* OpenCode and Cursor.                                                    *)
DatedAfter(p) == p \in Command \/ harness = "pi" \/ DatedNow(p)

(* What is written after a probe.                                          *)
Record(p, ok) ==
    /\ cache' = IF ok THEN [age |-> 0, failedSince |-> FALSE]
                ELSE IF Kept(p) = NoListing THEN NoListing
                ELSE [Kept(p) EXCEPT !.failedSince = DatedAfter(p)]
    /\ lastOk' = ok

(* The flock goes with the process' handle. A command has its own probe to *)
(* report, or the listing that survived it.                                *)
EndProbe(p, ok) ==
    /\ Unlock(p)
    /\ IF p \in Refresher THEN Move(p, "idle") /\ UNCHANGED recall
       ELSE /\ Answer(p, CASE ok -> "miss"
                           [] ~ok /\ Kept(p) # NoListing -> "stale_failed"
                           [] OTHER -> "failed")
            /\ seen' = [seen EXCEPT ![p] = NoListing]
            /\ Move(p, "answered")

Probed(p, ok) ==
    /\ at[p] = "probe"
    /\ Record(p, ok)
    /\ EndProbe(p, ok)
    /\ UNCHANGED <<harness, bounds>>

WriteFails(p, ok) ==
    /\ at[p] = "probe"
    /\ Fault
    /\ EndProbe(p, ok)
    /\ UNCHANGED <<harness, cache, lastOk, setBacks>>

-----------------------------------------------------------------------------
(* The rest of the world                                                   *)

KillProber(p) ==
    /\ at[p] # "idle"
    /\ Fault
    /\ Move(p, "idle")
    /\ Unlock(p)
    /\ IF p \in Refresher THEN UNCHANGED recall
       ELSE Answer(p, NoAnswer) /\ seen' = [seen EXCEPT ![p] = NoListing]
    /\ UNCHANGED <<harness, cache, lastOk, setBacks>>

ShiftListing(by) ==
    LET Shifted(entry) == IF entry = NoListing THEN NoListing
                          ELSE [entry EXCEPT !.age = @ + by]
    IN /\ cache' = Shifted(cache)
       /\ seen' = [c \in Command |-> Shifted(seen[c])]
       /\ UNCHANGED <<harness, lock, at, answer, lastOk, failures>>

(* No age above Late matters but for what the clock can still be set back. *)
TimePasses ==
    /\ Listed /\ cache.age < Late + MaxSetBacks - setBacks
    /\ ShiftListing(1)
    /\ UNCHANGED setBacks

ClockSetBack ==
    /\ Listed
    /\ setBacks < MaxSetBacks
    /\ setBacks' = setBacks + 1
    /\ ShiftListing(-1)

Mode == {"background", "synchronous", "skip"}
Trigger(c) == Busy(c) \/ TryLock(c) \/ SpawnRefresher(c) \/ Drop(c) \/ Return(c)
EndsProbe(p) == \E ok \in BOOLEAN : Probed(p, ok) \/ WriteFails(p, ok)

ProbeNext ==
    \/ \E c \in Command :
        \/ \E mode \in Mode : Ask(c, mode)
        \/ Trigger(c) \/ RefresherFails(c)
    \/ \E p \in Prober : Lock(p) \/ LockFails(p) \/ EndsProbe(p) \/ KillProber(p)
    \/ TimePasses \/ ClockSetBack

ProbeSpec == ProbeInit /\ [][ProbeNext]_probeVars

-----------------------------------------------------------------------------
(* Properties                                                              *)

(* What a command concludes from the file is the truth about the harness:  *)
(* it takes the listing as proof of a login exactly if the last attempt on *)
(* record succeeded, whoever made it. The detached refreshers of OpenCode  *)
(* and Cursor date a failure with the present time: with them this holds   *)
(* only as long as the clock is not set back and listings take time to     *)
(* expire, which they do not with MARS_PROBE_CACHE_TTL_SECS=0.             *)
DatesFailures == harness = "pi" \/ (setBacks = 0 /\ Expiry > 0)
ReadsEntry(c) == at[c] \in {"idle", "wait"} /\ Listed /\ answer'[c] # answer[c]
EvidenceTrue == [][\A c \in Command :
    ReadsEntry(c) /\ answer'[c] # NoAnswer /\ DatesFailures =>
        (answer'[c] \in {"hit", "stale"} <=> lastOk)]_probeVars

(* A listing that succeeded is there until another one has, however the    *)
(* failed probes of commands and refreshers meet.                          *)
LastGoodKept == [][cache # NoListing => cache' # NoListing]_probeVars

(* Processes go on and get the flock, that none keeps beyond the time-outs *)
(* of its probe; no command has to come back, and no probe to succeed.     *)
FairProbeSpec ==
    /\ ProbeSpec
    /\ \A c \in Command : WF_probeVars(Trigger(c))
    /\ \A p \in Prober : SF_probeVars(Lock(p)) /\ WF_probeVars(EndsProbe(p))

(* As long as stale listings are asked for in the background, somebody     *)
(* tries to refresh them.                                                  *)
Attempt == \E p \in Prober : EndsProbe(p)
Refreshes == []<>(\E c \in Command : at[c] = "trigger") => []<><<Attempt>>_probeVars

=============================================================================
