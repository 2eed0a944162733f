----------------------------- MODULE CatalogCache -----------------------------
(***************************************************************************)
(* The models.dev snapshot in .mars/ and its refresh. Commands that find a *)
(* stale snapshot return it at once and one of them spawns a detached      *)
(* worker: a claim file, kept under its own flock, says which. Refreshers  *)
(* serialise on another flock, fetch, and replace the snapshot. A fetch    *)
(* that fails leaves a marker that holds off the next ones.                *)
(*                                                                         *)
(* The files hold wall-clock times. Here they hold ages, that the passing  *)
(* of time increases and a clock set back decreases, below 0 if need be. An*)
(* age is capped where no comparison of the code can tell it from larger.  *)
(***************************************************************************)
EXTENDS Integers

CONSTANTS
    Lookup,       \* commands that consult or force the catalog
    Worker,       \* detached workers; a worker's name is its claim token
    Ttl,          \* refresh_after_hours
    Lease,        \* REFRESH_CLAIM_LEASE_SECS
    Cooldown,     \* FETCH_FAIL_COOLDOWN_SECS
    MaxRevision,  \* the largest revision
    MaxBacks,     \* bound on how far the clock is set back
    MaxFaults,    \* bound on killed processes and lost snapshots
    Empty, NoMarker, NoClaim, Free, AnyRevision

Process == Lookup \cup Worker
Revision == 0..MaxRevision
Age(limit) == (-MaxBacks)..(limit + MaxBacks)
Snapshot == [revision : Revision, age : Age(Ttl)]
Claim == [token : Worker, age : Age(Lease)]

ASSUME TimeAssumption ==
    Ttl \in Nat /\ {Lease, Cooldown, MaxRevision} \subseteq Nat \ {0}
ASSUME BoundAssumption == {MaxBacks, MaxFaults} \subseteq Nat
ASSUME ProcessAssumption ==
    /\ Lookup \cap Worker = {}
    /\ Free \notin Process
    /\ Empty \notin Snapshot /\ NoMarker \notin Int /\ NoClaim \notin Claim
    /\ AnyRevision \notin Revision

VARIABLES
    \* on disk
    snapshot,   \* models-cache.json; Empty: none, or not readable
    marker,     \* .models-cache.last-fail
    claim,      \* .models-cache.refresh-claim
    cacheLock,  \* flock on .models-cache.lock
    claimLock,  \* flock on .models-cache.refresh-claim.lock
    \* memory of each process
    pc, mode,
    expected,   \* revision the process saw, or was spawned for
    token,      \* the worker a lookup has claimed the refresh for
    \* memory of the holder of claimLock, of the holder of cacheLock
    looked, base,
    \* history and bounds: true ages, that no clock change affects
    claimed,    \* of each worker's claim
    failed,     \* of the last failed fetch whose failure stands
    backs, faults

disk == <<snapshot, marker, claim>>
locks == <<cacheLock, claimLock, looked, base>>
memory == <<pc, mode, expected, token>>
history == <<claimed, failed, backs, faults>>
vars == <<disk, locks, memory, history>>

PC == {"idle", "claim", "decide", "spawn", "check", "refresh", "fetch", "clear",
       "release"}
View == [revision : Revision, usable : BOOLEAN, fresh : BOOLEAN, cooling : BOOLEAN]
Blank == [revision |-> 0, usable |-> FALSE, fresh |-> FALSE, cooling |-> FALSE]

(* Revisions do not overflow, ages stay within what the code compares, and *)
(* the flocks are held by processes.                                       *)
TypeOK ==
    /\ snapshot \in Snapshot \cup {Empty}
    /\ marker \in Age(Cooldown) \cup {NoMarker}
    /\ claim \in Claim \cup {NoClaim}
    /\ cacheLock \in Process \cup {Free}
    /\ claimLock \in Lookup \cup {Free}
    /\ pc \in [Process -> PC]
    /\ mode \in [Process -> {"background", "force", "worker"}]
    /\ expected \in [Process -> Revision \cup {AnyRevision}]
    /\ token \in [Lookup -> Worker \cup {Free}]
    /\ looked \in View /\ base \in View
    /\ claimed \in [Worker -> 0..Lease]
    /\ failed \in 0..Cooldown
    /\ backs \in 0..MaxBacks /\ faults \in 0..MaxFaults

Init ==
    /\ snapshot \in {Empty, [revision |-> 0, age |-> Ttl]}
    /\ marker = NoMarker
    /\ claim = NoClaim
    /\ cacheLock = Free /\ claimLock = Free
    /\ looked = Blank /\ base = Blank
    /\ pc = [p \in Process |-> "idle"]
    /\ mode = [p \in Process |-> IF p \in Worker THEN "worker" ELSE "background"]
    /\ expected = [p \in Process |-> AnyRevision]
    /\ token = [l \in Lookup |-> Free]
    /\ claimed = [w \in Worker |-> Lease]
    /\ failed = Cooldown
    /\ backs = 0 /\ faults = 0

-----------------------------------------------------------------------------
(* What the files say                                                      *)

Usable == snapshot # Empty
CurrentRevision == IF Usable THEN snapshot.revision ELSE 0
Fresh == Usable /\ snapshot.age >= 0 /\ snapshot.age < Ttl
(* [mutant] A failure in the future does not count, as with a claim.       *)
CoolingSince == marker # NoMarker /\ marker >= 0 /\ marker < Cooldown
Cooling == marker # NoMarker /\ marker < Cooldown
(* [mutant] A claim is held until it is released.                          *)
HeldForEver == claim # NoClaim
Leased == claim # NoClaim /\ claim.age >= 0 /\ claim.age < Lease
Owner == IF claim = NoClaim THEN Free ELSE claim.token
Now == [revision |-> CurrentRevision, usable |-> Usable, fresh |-> Fresh,
        cooling |-> Cooling]

Goto(p, label) == pc' = [pc EXCEPT ![p] = label]

(* The command is answered, or the process is gone: its memory and its     *)
(* flocks with it.                                                         *)
Leave(p) ==
    /\ Goto(p, "idle")
    /\ expected' = [expected EXCEPT ![p] = AnyRevision]
    /\ token' = IF p \in Lookup THEN [token EXCEPT ![p] = Free] ELSE token
    /\ mode' = IF p \in Lookup THEN [mode EXCEPT ![p] = "background"] ELSE mode
    /\ IF claimLock = p THEN claimLock' = Free /\ looked' = Blank
                        ELSE UNCHANGED <<claimLock, looked>>
    /\ IF cacheLock = p THEN cacheLock' = Free /\ base' = Blank
                        ELSE UNCHANGED <<cacheLock, base>>

(* The end of a refresh: a worker has its claim to release on every path.  *)
Finish(p) ==
    IF p \in Worker
    THEN /\ Goto(p, "release")
         /\ IF cacheLock = p THEN cacheLock' = Free /\ base' = Blank
                             ELSE UNCHANGED <<cacheLock, base>>
         /\ UNCHANGED <<mode, expected, token, claimLock, looked>>
    ELSE Leave(p)

-----------------------------------------------------------------------------
(* A command looks the catalog up                                          *)

(* A usable stale snapshot is worth a background refresh; with none at all *)
(* the command has to fetch by itself. (A fresh one is no step.)           *)
Ensure(l) ==
    /\ pc[l] = "idle"
    /\ ~Fresh
    /\ IF Usable THEN Goto(l, "claim") ELSE Goto(l, "refresh")
    /\ expected' = [expected EXCEPT ![l] = IF Usable THEN CurrentRevision ELSE AnyRevision]
    /\ UNCHANGED <<disk, locks, mode, token, history>>

ForceRefresh(l) ==
    /\ pc[l] = "idle"
    /\ Goto(l, "refresh")
    /\ mode' = [mode EXCEPT ![l] = "force"]
    /\ UNCHANGED <<disk, locks, expected, token, history>>

(* Under the claim flock: read snapshot and marker. The holder of the cache*)
(* flock may change them before the claim is read.                         *)
Look(l) ==
    /\ pc[l] = "claim"
    /\ claimLock' = l
    /\ looked' = Now
    /\ Goto(l, "decide")
    /\ UNCHANGED <<disk, cacheLock, base, mode, expected, token, history>>

(* [mutant] The cache flock is taken to read the snapshot.                 *)
LookBetweenFetches(l) == claimLock = Free /\ cacheLock = Free /\ Look(l)

ClaimRead(l) == claimLock = Free /\ Look(l)

Suppressed(l) ==
    \/ Leased
    \/ looked.cooling
    \/ looked.revision # expected[l] /\ looked.usable
    \/ looked.fresh

Suppress(l) ==
    /\ pc[l] = "decide"
    /\ Suppressed(l)
    /\ Leave(l)
    /\ UNCHANGED <<disk, history>>

Unused(w) ==
    /\ pc[w] = "idle"
    /\ \A k \in Lookup : token[k] # w
    /\ Owner # w

ClaimRefresh(l, w) ==
    /\ pc[l] = "decide"
    /\ ~Suppressed(l)
    /\ Unused(w)
    /\ claim' = [token |-> w, age |-> 0]
    /\ claimed' = [claimed EXCEPT ![w] = 0]
    /\ token' = [token EXCEPT ![l] = w]
    /\ claimLock' = Free /\ looked' = Blank
    /\ Goto(l, "spawn")
    /\ UNCHANGED <<snapshot, marker, cacheLock, base, mode, expected, failed, backs, faults>>

(* The claim cannot be written: no refresh this time. (The model also ends *)
(* here when all its workers are busy.)                                    *)
ClaimFails(l) ==
    /\ pc[l] = "decide"
    /\ ~Suppressed(l)
    /\ faults < MaxFaults
    /\ faults' = faults + 1
    /\ Leave(l)
    /\ UNCHANGED <<disk, claimed, failed, backs>>

NoWorker(l) ==
    /\ pc[l] = "decide"
    /\ ~Suppressed(l)
    /\ \A w \in Worker : ~Unused(w)
    /\ Leave(l)
    /\ UNCHANGED <<disk, history>>

Spawn(l) ==
    /\ pc[l] = "spawn"
    /\ pc' = [pc EXCEPT ![l] = "idle", ![token[l]] = "check"]
    /\ expected' = [expected EXCEPT ![l] = AnyRevision, ![token[l]] = expected[l]]
    /\ token' = [token EXCEPT ![l] = Free]
    /\ UNCHANGED <<disk, locks, mode, history>>

(* [mutant] Whatever claim there is goes.                                  *)
ReleaseAny(w) == claimLock = Free /\ claim' = NoClaim

(* Release, under the claim flock, removes the claim with one's own token. *)
ReleaseClaim(w) ==
    /\ claimLock = Free
    /\ claim' = IF Owner = w THEN NoClaim ELSE claim

SpawnFails(l) ==
    /\ pc[l] = "spawn"
    /\ faults < MaxFaults
    /\ faults' = faults + 1
    /\ ReleaseClaim(token[l])
    /\ Leave(l)
    /\ UNCHANGED <<snapshot, marker, claimed, failed, backs>>

-----------------------------------------------------------------------------
(* The worker around a refresh                                             *)

CheckOwned(w) ==
    /\ pc[w] = "check"
    /\ claimLock = Free
    /\ Goto(w, IF Owner = w THEN "refresh" ELSE "release")
    /\ UNCHANGED <<disk, locks, mode, expected, token, history>>

Release(w) ==
    /\ pc[w] = "release"
    /\ ReleaseClaim(w)
    /\ Leave(w)
    /\ UNCHANGED <<snapshot, marker, history>>

-----------------------------------------------------------------------------
(* The refresh                                                             *)

(* Before the flock: somebody else may have refreshed meanwhile.           *)
AlreadyFresh(p) ==
    /\ pc[p] = "refresh"
    /\ mode[p] # "force" /\ Fresh
    /\ Finish(p)
    /\ UNCHANGED <<disk, history>>

(* And again under it; and no fetch while the last failure is recent.      *)
NotNeeded(p) ==
    \/ expected[p] # AnyRevision /\ CurrentRevision # expected[p]
    \/ mode[p] # "force" /\ Fresh
    \/ mode[p] # "force" /\ Usable /\ Cooling

Enter(p) ==
    /\ pc[p] = "refresh"
    /\ IF NotNeeded(p) THEN Finish(p)
       ELSE /\ cacheLock' = p
            /\ base' = [Now EXCEPT !.fresh = FALSE, !.cooling = FALSE]
            /\ Goto(p, "fetch")
            /\ UNCHANGED <<claimLock, looked, mode, expected, token>>
    /\ UNCHANGED <<disk, history>>

(* [mutant] Refreshers do not exclude each other.                          *)
EnterUnlocked(p) == Enter(p)

StartFetch(p) == cacheLock = Free /\ Enter(p)

(* Models arrive: replace the snapshot. No revision is left: an error.     *)
Replace(p) ==
    /\ pc[p] = "fetch"
    /\ snapshot' = [revision |-> base.revision + 1, age |-> 0]
    /\ failed' = Cooldown
    /\ Goto(p, "clear")
    /\ UNCHANGED <<marker, claim, locks, mode, expected, token, claimed, backs, faults>>

FetchOk(p) == base.revision < MaxRevision /\ Replace(p)

RevisionExhausted(p) ==
    /\ pc[p] = "fetch"
    /\ base.revision = MaxRevision
    /\ Finish(p)
    /\ UNCHANGED <<disk, history>>

ClearMarker(p) ==
    /\ pc[p] = "clear"
    /\ marker' = NoMarker
    /\ Finish(p)
    /\ UNCHANGED <<snapshot, claim, history>>

(* The request fails, or brings no model: mark it if there is a snapshot   *)
(* to fall back to.                                                        *)
FetchFails(p) ==
    /\ pc[p] = "fetch"
    /\ IF base.usable THEN marker' = 0 /\ failed' = 0 ELSE UNCHANGED <<marker, failed>>
    /\ Finish(p)
    /\ UNCHANGED <<snapshot, claim, claimed, backs, faults>>

-----------------------------------------------------------------------------
(* The rest of the world                                                   *)

Kill(p) ==
    /\ pc[p] # "idle"
    /\ faults < MaxFaults
    /\ faults' = faults + 1
    /\ Leave(p)
    /\ UNCHANGED <<disk, claimed, failed, backs>>

LoseSnapshot ==
    /\ Usable
    /\ faults < MaxFaults
    /\ faults' = faults + 1
    /\ snapshot' = Empty
    /\ UNCHANGED <<marker, claim, locks, memory, claimed, failed, backs>>

Older(age, limit) == IF age < limit THEN age + 1 ELSE age
Shifted(age, limit, by) ==
    IF age + by > limit + MaxBacks - backs THEN age ELSE age + by

Shift(by) ==
    /\ snapshot' = IF Usable THEN [snapshot EXCEPT !.age = Shifted(@, Ttl, by)] ELSE Empty
    /\ marker' = IF marker = NoMarker THEN NoMarker ELSE Shifted(marker, Cooldown, by)
    /\ claim' = IF claim = NoClaim THEN NoClaim
                ELSE [claim EXCEPT !.age = Shifted(@, Lease, by)]

Tick ==
    /\ Shift(1)
    /\ claimed' = [w \in Worker |-> Older(claimed[w], Lease)]
    /\ failed' = Older(failed, Cooldown)
    /\ UNCHANGED <<locks, memory, backs, faults>>

SetClockBack ==
    /\ backs < MaxBacks
    /\ backs' = backs + 1
    /\ Shift(-1)
    /\ UNCHANGED <<locks, memory, claimed, failed, faults>>

(* The steps that need no network, and no flock that is held over one; the *)
(* other steps around a fetch; and what a fetch brings.                    *)
Local(p) ==
    \/ /\ p \in Lookup
       /\ \/ ClaimRead(p) \/ Suppress(p) \/ (\E w \in Worker : ClaimRefresh(p, w))
          \/ NoWorker(p) \/ Spawn(p)
    \/ p \in Worker /\ (CheckOwned(p) \/ Release(p))
Settle(p) == AlreadyFresh(p) \/ StartFetch(p) \/ ClearMarker(p)
Fetched(p) == FetchOk(p) \/ RevisionExhausted(p) \/ FetchFails(p)

Next ==
    \/ \E l \in Lookup : Ensure(l) \/ ForceRefresh(l) \/ ClaimFails(l) \/ SpawnFails(l)
    \/ \E p \in Process : Local(p) \/ Settle(p) \/ Fetched(p) \/ Kill(p)
    \/ LoseSnapshot
    \/ Tick \/ SetClockBack

Spec == Init /\ [][Next]_vars

-----------------------------------------------------------------------------
(* Properties                                                              *)

(* No refresh is ever undone: a snapshot that is written is newer than the *)
(* one that is there, however forced, background and first refreshes meet. *)
NoLostRefresh == [][\A p \in Process :
    pc[p] = "fetch" /\ snapshot' # snapshot /\ pc'[p] = "clear" =>
        CurrentRevision' > CurrentRevision]_vars

AtWork(w) == pc[w] \in {"refresh", "fetch", "clear"}

(* A stale snapshot is not fetched by a herd: one background worker is at  *)
(* it at a time, until its lease runs out or the clock is set back.        *)
OneWorker == \A v, w \in Worker :
    v # w /\ AtWork(v) /\ AtWork(w) /\ backs = 0 =>
        claimed[v] >= Lease \/ claimed[w] >= Lease

(* After a fetch has failed nobody but a forced refresh fetches again      *)
(* within the cooldown, as long as there is a snapshot to serve; setting   *)
(* the clock back does not cut the cooldown short.                         *)
CooldownKept == [][\A p \in Process :
    pc[p] # "fetch" /\ pc'[p] = "fetch" /\ mode[p] # "force" /\ Usable =>
        failed >= Cooldown]_vars

(* Commands keep coming, processes go on and get the claim flock that none *)
(* of them keeps, and time passes. Nothing is said of the network.         *)
FairSpec ==
    /\ Spec
    /\ WF_vars(Tick)
    /\ WF_vars(\E l \in Lookup : Ensure(l))
    /\ \A p \in Process : SF_vars(Local(p)) /\ WF_vars(Settle(p))

(* A command that finds a stale snapshot is answered even if every fetch   *)
(* hangs for ever.                                                         *)
StaleServed == \A l \in Lookup :
    pc[l] \in {"claim", "decide", "spawn"} ~> pc[l] = "idle"

(* If a network that is tried again and again answers at last, and workers *)
(* come to look at their claim within its lease, a stale or lost snapshot  *)
(* is replaced, also after kills that leave a claim or a marker behind and *)
(* after the clock was set back.                                           *)
Unchecked(w) == pc[w] = "check" \/ \E l \in Lookup : token[l] = w
Lapses == \E w \in Worker : Unchecked(w) /\ claimed'[w] = Lease /\ claimed[w] < Lease
WorkersPrompt == <>[][~Lapses]_vars
NetworkAnswers ==
    /\ SF_vars(\E p \in Process : FetchOk(p))
    /\ \A p \in Process : WF_vars(Fetched(p))
Refreshed == WorkersPrompt /\ NetworkAnswers =>
    (~Fresh /\ CurrentRevision < MaxRevision ~> Fresh)

=============================================================================
