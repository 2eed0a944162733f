# Verification of mars-agents in TLA+

`mars` is a package manager for agent packages. It resolves git and path
dependencies, installs agents, skills, hooks and MCP entries into the canonical
store `.mars/` of a project, copies and lowers them for the harnesses (Claude
Code, Codex, OpenCode, ...), and keeps on record in `mars.lock` what it owns. It
is a command, not a server: its hard behaviours come from several commands
running at once, from the user who edits the same files, and from commands that
die half-way.

This directory holds TLA+ modules for the parts where that matters, TLC
configurations that check them on small instances, and theorems that TLAPS
proves for all instances.

    tlc -config sync.cfg MC_CanonicalSync.tla     # or any row of "Runs"
    tlapm CanonicalSync_proofs.tla

`PROJECT.json` is the index: the runs, the source lines behind each definition
("map"), a plausible bug for each property that makes TLC refute it ("mutants",
each written as an operator marked `[mutant]` in the module), the hazards, the
findings and the theorems.

## The system

### Inventory

**Canonical sync transaction** (`sync/`, `compiler/mod.rs`). State: `mars.toml`,
the store `.mars/`, `mars.lock`, the write-ahead intent
`.mars/pending-canonical.json`, the flock `.mars/sync.lock`. One pipeline,
`execute`, serves every command that writes: load config, load lock, *recover*
an interrupted session into memory, resolve, build the target (collision and
self guards, renames), three-way diff of target, lock and disk, plan, frozen
gate, persist the config change, *prepare* the intent, apply one action at a
time, sync the targets, publish `mars.lock`, *complete* (drop the intent). Hard:
any of these steps may be the last; the user edits meanwhile; the retry of a
retry; registries that change with a checkout; `--force`, `--frozen` and
`repair` on top. Correct when Mars neither loses track of what it wrote nor takes
what it did not write, when a retry works, and when the lock tells the truth.

**Ownership registry** (`lock/`). `mars.lock`: per item its provider, source
hash and outputs with their hashes; migrations; merge of old and new records;
tombstones for outputs that could not be removed. Correct when a record is
dropped only after its output is gone.

**Provided skills** (`provided/`). Hosts call `mars provide` at each launch to
put the skills they ship into `.mars/skills/`. State: `.mars/provided.lock`, one
entry per provider. A lock-free fast path, a flock that is tried and never
waited for, names put on record before directories are written, a digest put on
record after. Hard: hosts in parallel with one another and with sync, kills
anywhere, a mixed view on the fast path. Correct when each directory it made has
an owner, nothing else gets replaced, and skills are in place in the end.

**Models catalog cache** (`models/catalog_cache.rs`). State: a snapshot with a
revision, a failure marker with a time, a refresh claim with a lease, two
flocks. Stale-while-revalidate with a detached worker. Hard: herds, leases that
run out, killed workers, clocks set back, decisions on what was read before a
lock. Correct when there is one worker per lease, no refresh is undone, failures
are followed by a pause, and a stale catalog is refreshed without anyone
waiting.

**Probe caches** (`models/probes/`). State: per harness (Pi, OpenCode, Cursor)
one file for the whole machine, with the last model listing that succeeded and
the time of the last attempt, and a flock. A listing supports its models; only if
the last attempt succeeded does it also prove a login. Commands answer from a
stale listing and spawn a detached refresher, or probe by themselves, or take
what there is. Hard: refreshers that start while their parent has the flock,
failed probes next to successful ones, clocks set back. Correct when a good
listing is never lost, and when what is concluded from it is what happened last.

**Filesystem primitives** (`fs/`, `platform/fs.rs`). Atomic file writes,
directory installs by two renames with rollback, flocks, tree snapshots,
publication of cache directories. Modelled inside the components that use them.

**Target sync, surface ownership** (`target_sync/`, `surface_ownership/`,
`cli/link.rs`, `cli/unlink.rs`). Copies from `.mars/` into harness directories;
whether a path is Mars's to overwrite or delete is decided from lock and bytes.
No journal covers these outputs. Three commands write there, each with another
order of config save and lock write. Correct when user files there survive, no
output is forgotten while it exists, and Mars's orphans go.

**Native agents** (`compiler/native_agents.rs`, its manifest). Emitted agent
files reconciled with lock and manifest; the manifest is written after the lock.

**Config entries** (`compiler/config_entries/`, `surface_ownership/retention.rs`,
`sync/kept_hooks.rs`, `target/`). Hooks and MCP servers edited into config files
that the user edits too: removals before writes, no write to a target whose
removal failed, its records retained. Hook entries have no key and are
recognised by equality alone.

**Staging, package preparation** (`staging/`, `package_prepare/`). State: the
pending generation `.mars/.staging.pending` and the published one. A package is
prepared when it is resolved; its payload is copied into the pending generation
when all are; the generation is published after apply. Correct when what is
published is complete and of the sync that goes on with it, and when what a
killed sync left is never in the way.

**Version resolution** (`resolve/`). Constraints, lock pins and tags to one
ref per package. Sequential, but not simple: a depth-first walk that selects at
the first request and starts over when a later request would have selected
something else, carrying an override along. Correct when it stops, when every
request holds at what it ends with, and when the lock it writes gives the same
graph again.

**Plugin builds and releases** (`build/plugin/`, `cli/version.rs`). State: the
generated plugin tree with a sentinel that names its version and the hashes of
the root files that go with it, a staging and a rollback directory beside it,
the lock of the output; git. `mars build plugin` stages, swaps the tree, then
rewrites root files, then drops what the sentinel remembers of the old ones;
`mars version` puts a bump, a commit and a tag around it and rolls back. Hard:
a kill between any two of these, a user who edits root files, a second command.

**Source fetch, global cache** (`source/`). State, shared by all projects of a
user: extracted archives, one per commit, published by whichever process is
first, without a lock; and one clone per repository, moved to the commit that is
wanted under a flock that ends with the fetch. Hard: what was fetched is read
later, kills of mars and of the git it runs. Correct when the files of a package
are those of the commit that mars.lock records.

**Configuration** (`config/`, `sync/mutation.rs`, `sync/upgrades.rs`). TOML
edits behind `add`, `remove`, `upgrade`, `rename`.

**Target state** (`sync/target.rs`, `sync/rewrite.rs`). Items, filters, renames
on name collision, rewriting of references.

**Lowering, routing, launch bundles, schema, CLI** (`compiler/agents`,
`compiler/skills`, `routing/`, `build/bundle.rs`, `crates/mars-schema`, `cli/`). Pure
translations and reports, table driven and fixture tested.

### How the parts interact

    host ──provide──┐ try-lock              user: edits, checkouts, deletions
                    ▼                         │
    mars sync ── .mars/sync.lock ── .mars/skills, agents ◄─┘
       │            ▲                    ▲
       │ waits      │ provided.lock ─────┤ who owns a name
       ▼            │ mars.lock ─────────┤
    intent: written before apply, read by the next sync and by provide,
            dropped after mars.lock is published
    any command ── ensure ── models-cache.json ◄── detached worker (claim, lease)
    routing ── probe_cached ── <harness>-probe.json ◄── detached refresher (flock)

    sync, link, unlink ── .claude/, .codex/, ... (copies, agents, hook files,
            entries in shared config files) ── claimed by mars.lock
    sync ── global cache (archives; clones, a flock each) ── .staging.pending
            ── rename ── .mars/staging ── the copies above
    build plugin, version ── plugin tree, root files ── lock of the output, git

Sync and provide share the store, each other's records (read only) and the
flock; provide also reads sync's journal and stands back while there is one. Sync,
link and unlink take the same flock one after the other and speak to one another
through `mars.lock`. The resolver is called by sync before anything is written
and reads the lock of the session before. The catalog cache shares nothing with
them but the directory, the probe caches not even that; plugin builds have a lock
of their own. The global cache is what syncs of different projects have in common.

## Modules

| module | what it is |
| --- | --- |
| `CanonicalSync` | the sync transaction over the canonical store |
| `CanonicalSync_proofs` | theorems about it |
| `TargetSync` | sync, link and unlink over the target directories |
| `OutputOwnership` | what they promise about one output, without phases; `TargetSync` implements it |
| `TargetSync_proofs` | theorems about `TargetSync`, the refinement included |
| `ConfigEntries` | hooks and MCP servers in files shared with the user |
| `ConfigEntries_proofs` | theorems about it |
| `Resolution` | version resolution and the replay of the lock it writes |
| `Resolution_proofs` | theorems about it |
| `SourceTrees` | fetched sources in the shared cache, and staging generations |
| `SourceTrees_proofs` | theorems about it |
| `PluginRelease` | plugin builds and releases |
| `PluginRelease_proofs` | theorems about it |
| `Provide` | provide runs, with a sync as far as they can see it |
| `Provide_proofs` | theorems about it |
| `CatalogCache` | the catalog cache and its refreshers |
| `ProbeCache` | the cached model listing of a harness and its refreshers |
| `Caches_proofs` | theorems about both caches |
| `MC_*` | values for the constants, for TLC |

### CanonicalSync

A *destination* is one output path under `.mars/`, a file (agent) or a directory
(skill). Bytes stand for their hash. A `Record` (provider, source hash,
installed hash) is what the code carries in a `TargetItem`, in a lock claim and
in a `PendingWrite`; the lock is a map from destinations to records, or missing,
or corrupt. Source and installed hash differ when a rename rewrites the item.

| code | model |
| --- | --- |
| `mars.toml` and sources / `.mars/<dest>` / `.<name>.old` | `config` / `disk` / `old` |
| `mars.lock` / `pending-canonical.json` | `lockFile` / `intent` |
| `load_config`, `recovery::recover` | `LoadConfig` (`RecoveryAccepts`, `Recovered`) |
| a halt that saves the config change only | `RecoveryHalt` |
| `build_target`, guards of `target.rs`, `local_items.rs` | `BuildTarget`, `RejectTarget` |
| `diff::compute`, `plan::create`, frozen gate | `CreatePlan`, `RejectPlan` |
| `persist_pending_config_mutation` | `PersistMutation` |
| `recovery::prepare` | `Prepare` (`Retained`, `ToJournal`, `NextVersions`) |
| `apply::execute_action` | `WriteFile`; `StashDir`, `PlaceDir`, `RewriteSkill`, `RollbackDir`; `TearOrphan`, `RemoveOrphan` |
| `finalize`, `lock::build` / `recovery::complete` | `WriteLock` / `Complete` |
| a kill, or an error passed up by `?` | `Interrupt` |

The flock is `pc # "idle"`: there is one session, and it dies with its process.
`disk[d].by` is history, not on disk: who wrote those bytes. A checkout resets
it to "user", for after it nobody can tell; "adopted" marks a forced write over
bytes Mars did not own, which `prepare` keeps out of the journal on purpose, and
"half" a skill between its two writes. A directory is removed entry by entry
(`remove_dir_all`): until the last one is gone its bytes are `Torn`, which no
version has (that the rest may happen to equal another version is left out).

Abstracted: the lock's per-item grouping (recovery merges per path, so the map
per path is what decides), hashes and TOML, temporary trees that no reader looks
at, the network before the plan. Omitted: dry runs (no step), targets, staging
publication, kept-hook directories. The user does not write between the
placement of a renamed skill and its rewrite, and a checkout happens between
sessions.

### TargetSync and OutputOwnership

A `Path` is one output: a target, an item and a *lane*, the part of the code that
writes it ("copy", "native" agent, "hookfile"). `mars.lock` has the canonical
hash per item (`canon`) and, per path, the installed hash, the authority to retry
a deletion (`Pending`), or nothing (`out`). The canonical phase is one step (an
outcome per item), since `CanonicalSync` has its detail; what happens to targets
depends on it only through those outcomes, the lock and an interrupted session.

| code | model |
| --- | --- |
| `compile_inner`, canonical part, with `recover`, `prepare` | `Sync` (`Recovered`, `Outcome`, `Journal`) |
| `link_target`, `unlink::run` up to their first output | `Link`, `Unlink` |
| order of phases of each command | `Work`, `After*`, `Advance`, `LinkRefused` |
| `sync_one_target`, `copy_item_to_target`, the hash read back | `CopyItem`, `HashCopied`, `PreserveLocal`, `CopyFails`, `DropItem` |
| `copy_decision`, `should_copy_to_target` | `MayCopy`, `Copies`, `WantsCopy` |
| `cleanup_orphans`, tombstones, `remove_owned_target_content` | `RemoveOutput`, `RemovalFails`, `Tombstones` |
| native agents, file hooks | `EmitOutput`, `EmitPreserves`, `EmitFails` (`Desired`, `StaleAgents`, `EmitsHook`, `StaleHooks`) |
| `apply_target_sync_outputs` ... `remove_target_output` | `NewClaim`, `NewLock` |
| `finalize`, config save of link and unlink | `WriteLock`, `SaveConfig` |
| a kill or an error of a later phase | `Crash` |

`tgt[p].by` (who wrote a file), `stray` (what a crash or a refused link left
unrecorded) and `raced` (written by the user between a copy and the hash read
back) are history. `OutputOwnership` states the contract of `surface_ownership`
over file and claim alone: replace what is claimed as installed or forced,
delete what is claimed, forget a claim when the output is gone. `TargetSync`
instantiates it with the files, the claims of the loaded lock and the session's
memory of what it wrote and removed. Left out: native skill projections, file
modes, targets that are links, the native agent manifest (a second record of
what the lock holds).

### ConfigEntries

One harness; its hook file is the array of one event, `Entry` and `UserEntry`
what packages and the user put there; its MCP file maps servers to definitions.
Each file is loaded, edited and saved in one step, as each function does; between
the steps the user edits and the process may die. `RemoveHooks` /
`RemovalFails`, `ReconcileMcp` / `ReconcileFails`, `WriteHooks` / `WriteFails`
(under `WritePermit`), `WriteLock`; unlink saves the configuration in between.
`HoldsRecorded` is the comparison that spares an unchanged file. `Wants` and
`UserHooks` are folds, as is `RemoveEntries`, for the proofs treat all folds alike.
A malformed file
is a failure. A definition of the user's equal to the wanted one is adopted, as
`docs/config/mcp-and-hooks.md` says; `UserEntriesKept` speaks of what mars.lock
does not record. Hooks that are files of their own are paths of `TargetSync`.

### Resolution

A *world* is what mars.toml asks, what the lock has, what the repositories hold
and which commits are refused (requirements), unreachable or not yet published;
it does not change while it is resolved. The recursion of
`resolve_package_bottom_up` is an explicit `stack`; `asked` are the recorded
constraints, in order; `trying` a candidate on its way through engine checks.

| code | model |
| --- | --- |
| first request: override or `resolve_git_source`, registration | `VisitUnseen`, `Candidate`, `NoCandidate`, `Register` |
| engine requirements, exclusion and another try | `RejectCandidate`, `RefuseEngine` |
| request to a resolved package | `RevisitHolds`, `RevisitFails`, `Restart` |
| request to a package being resolved (a cycle) | `VisitResolving` |
| another source for the same name | `RefuseIdentity` |
| restart history | `Remembered`, `RefuseOscillation` |
| `version.rs` of the schema crate | `Wants`, `Allows`, `Settles`, `KeepsLock`, `SelectTag` |
| lock written, next sync | `Written`, `Replay` |

`Replays` says that the next sync repeats the graph from the lock, with whatever was
tagged in between. It excepts a sync that started over, and two kinds of package.
`Floats`: a repository that had no version, and gets its first ones, is no longer at its
branch, and a package that is asked for at `latest` may follow new versions.
`Unpinned`: the lock knows a package by the label of its first request, so that a
pin that a later one names is lost from the record. Each exception
is needed: without it TLC finds a counterexample among the worlds `Moving`, in which
a branch has moved and tags come late.

Left out: path sources, marketplace plugins, local overrides, failing downloads,
selection of items.

### SourceTrees

Several syncs of several projects over one cache. A `Request` names a tag, an
exact commit, or both, as `git::fetch` and `fetch_commit` pass them on; files are
reduced to the commit they are of, or `Mixed`.

| code | model |
| --- | --- |
| `archives/<key>`, `<key>.tmp.<pid>` | `archive`, `tmp` |
| a clone: its directory, HEAD, files, git's lock file | `present`, `head`, `dirty`, `broken` |
| the flock beside a clone / `.mars/sync.lock` | `gitLock` / `syncLock` |
| `.staging.pending` / `staging` / `.staging.old` | `pending` / `staging` / `backup` |
| `load_config`, `PendingStagingGeneration::create` | `LockProject`, `CreatePending` (`CreateRefused`) |
| `fetch_archive`, `publish_cache_dir_if_absent` | `UseArchive`, `Download`, `Extract`, `Publish` |
| `fetch_git_clone` | `LockRepo`, `Clone` or `Fetch`, then `Checkouts`, `HandOver` |
| git's checkout | `StayThere`, `BeginCheckout`, `EndCheckout`, `CheckoutOverChanges` |
| `prepare_rooted` / `materialize_prepared_tree` | `Prepare` / `Stage` |
| target building / `replace_generated_dir` | `Build` / `SetAside`, `PutInPlace`, `PutBack` |
| errors, and what is dropped in which order | `FailToResolve`, `Fail`, `Release`, `DropPending` |

git is external: a checkout changes files and then HEAD, and a kill in between
leaves the files (`dirty`) and perhaps a lock file; at HEAD's own commit git
keeps changed files and succeeds; elsewhere it refuses or keeps them. `asked` is
history. A fetch looks its commit up before it takes the flock (`resolve_version`);
a tag stays where it is while the model runs, as does a process's id: a process
that starts again may have the id of one that was killed, which is why its
temporary directory may exist already. `Incomplete` says that target building
fails on a staged tree that is gone. Left out: path sources, content of
marketplaces, a restart of the resolver that reads a package again, dry runs,
skill overlays.

### PluginRelease

A tree is known by its sentinel: version, the hash of each root file (`root`) and
of those it replaced (`prev`). The steps of `publish` are `MoveAside`, `Place`,
`RemoveOld`, `ApplyWrite`, `ApplyDelete`, `Clear`; of `mars version` `Capture`,
`Bump`, publication, `CommitRelease`, `Tag`, and `ResetHead`, `RestorePath`,
`EndRollback` on failure; `Recover` is `recover_interrupted_swap`. Two commands
run side by side: they read the package before they take the lock of the output,
and a release holds that lock from staging to publication only. Assumed: one
release at a time, and nobody removes the output while the lock is held. `sound`
(only Mars disturbed the output) and `disturbed` (others touched the package
while a release ran) are history, in terms of which the guarantees are stated.
A tree interrupted while it is removed is `Torn`. A root file is checked and written in
one step, so that an edit between the two (`root_files.rs:217`) is not covered. Abstracted: what a tree holds,
catalog directories, gitignore, `--out`, CHANGELOG.md, push, the input
fingerprint.

### Provide

Several processes and several providers; `src[p]` is what the host of `p` ships,
spec and digest in one. The fast path is four actions, one per read
(`FastPending`, `FastRecord`, `FastClaims`, `FastScan`), so that anything can
happen in between; then `TryLock`, `NothingToDo` or `PreRecord`, a directory
install in two renames (`Vacate`, `Place`, and `PlaceFails` / `NameTaken`),
`Remove` (which may be torn), `FinalRecord`. `Installs`, `Replaces`, `Keeps`,
`Adopts`, `Removals` are the fields of the code's `Plan`. The order of installs
is left free. A sync appears as provide sees it: it journals the names it
creates, writes, publishes its claims, drops the journal, and may be killed in
between; it refuses as recovery does when a journaled name holds foreign bytes.
Who may be treated as owned by a sync follows `provided/names.rs`.

### CatalogCache

The files hold wall-clock times; the model holds their ages, which `Tick`
increases and `SetClockBack` decreases, below zero if need be, capped where no
comparison can tell. `Ensure`, `ClaimRead` (snapshot and marker, under the claim
flock), `Suppress` / `ClaimRefresh`, `Spawn`; the worker's `CheckOwned` and
`Release`; and `refresh_with_fetcher` as `AlreadyFresh`, `StartFetch`, `FetchOk`
and `ClearMarker` or `FetchFails`. The holder of the claim flock does not hold
the cache flock, hence the claim decision is split in two. `MaxRevision` plays
`u64::MAX` with its `checked_add`. `NoWorker` is an artifact of the bound on
workers. Offline mode changes no state and is omitted.

### ProbeCache

One of the three caches, whose code runs in parallel; `harness` says which, for
Pi writes in one way where OpenCode and Cursor write in two. An entry is the age
of its listing and whether the last attempt is later (`last_attempt_at >
fetched_at`), which is all that is read of its times.

| code | model |
| --- | --- |
| `probe_cached_impl_observed`, `resolve_probe_cache_branch` | `Ask`, `Evidence` |
| `trigger_background_refresh_with`, `spawn_detached` | `Busy`, `TryLock`, `SpawnRefresher`, `RefresherFails`, `Drop` |
| `synchronous_probe_with_observation`, `run_refresh_probe_command` | `LockWhenFree` (`LookAgain`), `LockFails`, `EndProbe` |
| `persist_probe_attempt`, `write_probe_attempt`, `write_failed_attempt` | `Record` (`Kept`, `DatedAfter`), `WriteFails` |

A command that probes writes back the entry it read under the flock, a refresher
the one it reads after its probe. The probe is a step with an outcome, and ends,
since the code puts a time-out on each command it runs. Offline mode touches no
listing. When all refreshers of an instance are at work, a new one is one that
waits with them.

## Runs

With two workers the longest run takes three minutes, most about one.

| run | question | size |
| --- | --- | --- |
| `sync` | Do ownership, the user's bytes, `--frozen`, `--force` and the truth of the lock survive everything, with renamed items and changes of provider? | 6.9 M states |
| `sync_retry` | Does a plain rerun discharge the journal, if it gets to its end? | 71 k |
| `targets` | Do files in targets and their claims tell the same story after any sync, link and unlink, and do targets get filled and cleaned? | 0.4 M |
| `config_entries` | Are entries in shared files recorded, the user's left alone, and does a sync settle? | 3.5 M |
| `resolution` | Over 15,140 worlds: does the resolver stop, settle its requests, and replay? | 226 k |
| `plugin` | Two commands, a fault, an edit: recovery, rollback, root files, tags | 2.4 M (symmetry) |
| `sources` | Two projects, one of them synced twice at a time, a clone, an archive, a kill: does each fetch end where it should and is what it fetched read; is an archive ever half there; whose staging generation gets published; does every sync end? | 43 k |
| `provide` | Two hosts, one of them updated, a sync, a kill, a damaged record: who owns a directory, what may be replaced, and are skills in place in the end? | 0.6 M |
| `catalog` | A command, two workers, a kill, the clock set back: one worker per lease, no lost refresh, a pause after failures, stale catalogs served at once and refreshed in the end | 0.2 M |
| `probes` | Two commands, two refreshers, a kill or failed call, the clock set back: is a good listing kept, is what it is taken for true, and is it refreshed? | 52 k |

Two more runs, `half_renamed_skill` and `stale_override`, show disagreements (see
Findings).

**Properties worth knowing.** `WritesAccounted`: bytes Mars wrote are at each
instant covered by the published lock, the providers' record or a journal entry
that recovery will accept; so a crash never turns them into the user's. What is left
of a directory that Mars was removing has an entry at which recovery stops.
`RetryNotBlocked`: what is whole and Mars's own is recovered. Recovery refuses
only after the user's own doing, the first half of a renamed skill (the first
finding) and a removal of a directory that was cut short. `JournalDischarged` has two
exceptions: such a directory, and bytes that a sync put where the user, under it,
had deleted what an earlier one left (`Unrecoverable`; see Findings for both).
`UserBytesSurvive`: without `--force` the user's bytes go only where a published
claim or the providers' record allows it, never on the word of a journal.
`FrozenWritesNothing` and `ClaimsTrue` say what `--frozen` and a published lock,
with `--force` or without, promise. `ProvidedCovered`, `DigestTrue`,
`OnlyRecordedReplaced`, `PendingSyncUntouched`: the same questions for provide.
`OwnedRecorded`, `ClaimsAreOurs` relate the files in targets to the claims;
`HookFileRunsCopy` relates two lanes (no hook file whose script was not installed);
`EditedCopyKept` is what a sync may never do; `RemovedCleaned`, `TargetFilled` say
what it does in the end. `SettledGraph` compares the graph with the selection rule applied to all
requests at once, that is, it makes the order of requests irrelevant (version and
commit, not the label, see Findings).
`OwnOutputAccepted` is crash recovery of a build, except from a rollback tree half
removed and from a release that was killed or failed in its rollback (see Findings),
`ReleaseUndone` the rollback,
`TaggedIsBuilt` what a tag stands for. `OneWorker`, `NoLostRefresh`, `CooldownKept`: one worker
per lease, revisions only grow, a failure holds off fetches that nobody forced.
`EvidenceTrue` relates what a command concludes to the outcome of the last attempt
of anybody, for OpenCode and Cursor as long as the clock is right and listings take
time to expire (see Findings); `LastGoodKept` is about failed probes that meet successful ones.
`HandedOverRight` is what the flock of a clone achieves, `PinnedContent` what is
left of it once the flock is gone; `OwnGeneration` holds although the pending
generation of a running sync may be removed (see Findings), since the next step
that needs it fails.

**Bounds.** `sync`: two destinations, one file and one directory: the transaction
couples destinations only through the flock, the lock's identity and the order
writes-before-removals, and two suffice for each. Two edits and two faults: the shortest executions that defeat the mutants need a kill, a retry
killed as well, and an edit or checkout between. Three contents: old, new, the
user's. `Provided` is empty in the sync runs (it only weakens what is demanded),
while the theorems hold for any; `Provide` covers the interplay. In `Provide`
one edit, one fault and one sync with two processes: the fast path's reads are
interleaved with all of another run. In `CatalogCache` and `ProbeCache` durations
of one tick reach each side of each comparison; one command is enough for
`catalog` since it comes back while the workers it spawned are at work, and the
theorems hold for any number.

`targets`: a native harness with an agent, a hook directory and its hook file,
and a plain target with a copy, so that each lane, and the one pair of lanes that
depend on one another, is there; one fault, one edit, two changes in all: a
tombstone takes a failing removal and a later sync, a stale claim an edit and a
change of the package. `config_entries`: two hooks that may render the same entry
and change their order, one server. `resolution`: three packages, a fork and an
untagged repository, every combination of a few manifests, eight locks and modes:
conflicts need two requesters, a restart that undoes another one a third package.
`plugin`: two versions, two sets of harnesses, of which one retires a root file;
three commands, so that a release follows a build that was interrupted.
`sources`: two processes of one project exclude each other and hand generations
over, a third meets them at the clone and the archive; three commits, for the
branch, the tag and the commit recorded before the tag moved; two syncs in all,
of which one may be killed: either they run side by side, or the second finds
what the first left. The safety properties are proved for any number; TLC also
went through three syncs once (1.6 M states), which liveness makes too many.

**Deadlock.** The sync and provide runs switch the check off: once the bounded
edits and faults are used up, recovery may legitimately refuse until the user
moves an output away. Time never stops in `CatalogCache`, so that check is moot.

A resolution ends, and so does its replay. The others are checked for deadlock
(`PluginRelease` and `SourceTrees` may rest when their commands are used up).

**Symmetry** is used in `plugin`, over its two commands; that run checks no
liveness property.

**Fairness.** `sources`: a sync goes on (weak fairness of `Proceeds`: git and HTTP
end, with a result or an error), and a flock is granted in the end to whoever
keeps waiting for it (strong fairness), as the kernel's queue does; errors and
kills are never demanded. `targets`: a running session goes on (it waits for nobody once it
has the flock), and the user keeps returning to an unforced `mars sync` (strong
fairness: other commands and edits come between; both are bounded); removals and
copies may fail, a bounded number of times. `resolution`: the resolver goes on.
`sync_retry`: a running sync proceeds (weak fairness of `Proceed`:
it waits for nobody), and the user keeps returning to a plain `mars sync` (strong
fairness, for other commands come between); the instance has no foreign bytes
and no checkouts, with which recovery is meant to refuse. `provide`: hosts
launch again and again, runs and syncs proceed, an interrupted sync is run again.
`HostsServed` has `HostsSettle` as its hypothesis, that each host comes to ship
one source (two versions of one provider side by side replace one another at
every launch by design), and excepts a sync that refuses to go on and a record
that a newer Mars wrote. `catalog`: time passes, commands keep coming, and each
process that needs no network goes on, with strong fairness where it wants the
claim flock, which is held briefly. `Refreshed` takes as hypotheses a network
that answers at last and `WorkersPrompt`, that in the end no worker's lease (of
minutes, in the code) runs out before it looks at its claim: otherwise workers
may for ever start too late. `StaleServed` takes neither. `probes`: processes go
on and get the flock in the end (strong fairness: others take it in between), and
probes end, by their time-outs; no command has to come back, and no probe to
succeed.

## Theorems

Every safety property of the passing runs is a theorem.

`CanonicalSync_proofs` proves, for any sets of destinations, contents,
configurations, requests and checkouts and any number of edits and faults:

- `TypeCorrect`: `Spec => []TypeOK`;
- `Accounts`: `Spec => []WritesAccounted`;
- `RetryAccepted`: `Spec => []RetryNotBlocked`;
- `FrozenIsReadOnly`: `Spec => FrozenWritesNothing`;
- `UserBytesAreSafe`: `Spec => UserBytesSurvive`;
- `PublishesTruth`: `Spec => ClaimsTrue`.

`TargetSync_proofs` proves, for any items, targets, lanes, configurations,
commands and bounds:

- `TypeCorrect`: `Spec => []TypeOK`;
- `InstalledOwned`: `Spec => []InstalledHasOwner`;
- `NothingUnrecorded`: `Spec => []OwnedRecorded`;
- `ClaimsOurs`: `Spec => []ClaimsAreOurs`;
- `HookFilesRun`: `Spec => []HookFileRunsCopy`;
- `EditsKept`: `Spec => EditedCopyKept`;
- `OwnershipImplemented`: `Spec => ImplementsOwnership`, the refinement.

`Provide_proofs` proves, for any hosts, providers, names, sources and claims of
packages, and any number of edits, faults and syncs:

- `TypeCorrect`: `Spec => []TypeOK`;
- `InstalledIsOwned`: `Spec => []ProvidedCovered`;
- `DigestsAreTrue`: `Spec => []DigestTrue`;
- `RecordedOnly`: `Spec => OnlyRecordedReplaced`;
- `InterruptedSyncUntouched`: `Spec => PendingSyncUntouched`;
- `ReportsAreTrue`: `Spec => AppliedIsInstalled`.

`Resolution_proofs` proves, for any packages, repositories, tags, manifests, locks
and worlds:

- `TypeCorrect`: `Spec => []TypeOK`;
- `GraphSettled`: `Spec => []SettledGraph`;
- `SyncReplays`: `Spec => []Replays`.

`SourceTrees_proofs` proves, for any processes, projects, repositories, commits,
requests and any number of kills:

- `TypeCorrect`: `Spec => []TypeOK`;
- `ArchivesAreWhole`: `Spec => []ArchivesWhole`;
- `HandsOverRight`: `Spec => []HandedOverRight`;
- `ContentPinned`: `Spec => []PinnedContent`;
- `GenerationIsOwn`: `Spec => []OwnGeneration`.

`PluginRelease_proofs` proves, for any number of commands, root files, inputs and
versions, and any number of edits and faults:

- `TypeCorrect`: `Spec => []TypeOK`;
- `OwnOutput`: `Spec => []OwnOutputAccepted`;
- `Undone`: `Spec => []ReleaseUndone`;
- `UserFiles`: `Spec => UserFilesKept`;
- `Tagged`: `Spec => TaggedIsBuilt`.

`ConfigEntries_proofs` proves, for any hooks, servers, entries and sources, hook
files of any length, and any number of edits, failures and killed sessions:

- `TypeCorrect`: `Spec => []TypeOK`;
- `NothingForgotten`: `Spec => []EntriesRecorded`;
- `UserUntouched`: `Spec => UserEntriesKept`;
- `CleanSyncsSettle`: `Spec => SyncSettles`.

`Caches_proofs` proves of `CatalogCache`, for any number of commands and workers,
any time limits, revisions, faults and clock changes:

- `TypeCorrect`: `Spec => []TypeOK`;
- `OneWorkerAtATime`: `Spec => []OneWorker`;
- `RefreshesSurvive`: `Spec => NoLostRefresh`;
- `FailuresBackOff`: `Spec => CooldownKept`.

and of `ProbeCache`, for any number of commands and refreshers, any time limit,
clock changes and failures (its names differ from those of `CatalogCache`, since
one module extends both):

- `ProbeTypeCorrect`: `ProbeSpec => []ProbeTypeOK`;
- `LastGood`: `ProbeSpec => LastGoodKept`;
- `Evident`: `ProbeSpec => EvidenceTrue`.

`ArchivesWhole`, `InstalledHasOwner` and `AppliedIsInstalled` are proved and not
repeated in a run. Type correctness of these nine modules is proved and therefore
not among the properties of their runs.

The assumptions are those the modules state of their constants: sentinels differ
from data (`None` is no ref, record or trial, `NoneAssumption`); configurations are
targets; provided names are directories; the lane of a path fits its item and
target, and a hook file is not the copy of an agent (`PathAssumption`); a name has
one provider; no hook of a package's is an entry of the user's, mars.toml names no
hook twice and there are finitely many (`EntryAssumption`, `ConfigAssumption`); the
lease and the pause of the catalog are positive, as their constants are, other time
limits and bounds natural (0 switches a cache off); requests name a commit,
a tag a version of the set; mars.toml and the output directory are not root files
of a plugin, and the states of its output differ from one another (`NamesDiffer`).
TLC evaluates them on every run.

**CanonicalSync.** `WritesAccounted` is not inductive: that a write finds its
journal entry depends on what the session knew when it wrote the journal. `WInv`
adds, for each destination, what holds at each stage: after loading, bytes of
Mars that the lock does not cover are in the recovered lock with the very record
the journal has (`LoadedInv`); a published claim is in the recovered lock
(`ClaimInv`); the plan removes or rewrites what it must (`PlanInv`); once
applying, each write still to come and each done is in the journal (`ApplyInv`);
after publication nothing is uncovered (`LockedInv`). Everything but `Prepare`
and the apply actions preserves it nearly for free; `Prepare` is where the
retained version and the planned version both have to be there, because the disk
holds the one before and the other after the write. `FInv` says that a frozen
session past its gate has nothing to write and nothing recovered. `UInv` carries
along why each write of the plan is allowed on a destination the user left alone.
The remains of a directory under removal count as attributed as long as the journal
has any version for it, and no version has their hash (`TornIsRefused`), so that a
session that loaded does not meet them unpublished.
`RetryNotBlocked` follows from the same `WInv`, once it accounts not only for
destinations outside the providers' record but for provided ones of which a journal
speaks too (`Exposed`), since recovery goes by the journal then. `TruthInv`, for `ClaimsTrue`,
follows a destination the user leaves alone from the plan to publication: what is
skipped is as the plan saw it, what is written as the target says.

**TargetSync.** `IInv` is `TypeOK` and: `PhaseInv`, what the phase says of the
command and of the lock it was loaded from; `OutcomeInv`, which outcomes an item
can have given that lock; `WorkInv`, that only paths of the current phase are
under way; `OwnerInv`, that claims of installed bytes, old and new, have
canonical owners; `MineInv`, that each file Mars wrote is claimed, noted by the
session, or stray. The refinement then takes one lemma per kind of step: a copy
is an `Install` since `WantsCopy` implies `MayInstall`, a removal needs a claim,
and `NewClaim` only moves claims as `MayBecome` allows. `JInv` is for the other
three: `LeftInv` says which paths each phase may still treat; `RaceInv`, that bytes of
the user are hashed or recorded only where the user wrote between a copy and its
hash; `HookInv`, that a session that writes a hook file has written the directory
it runs, that one that keeps an item removes no copy of it, and that unlinking
removes all that is claimed in the target or publishes nothing.

**Provide.** `ProvidedCovered` alone is not inductive: while a run writes, it
holds because the record lists, as pending, all that the run may touch.
`PlanInv` says so of the run that holds the flock; `DiskInv` says that what is
left to install was free or on record when the run planned, that what is done is
in place, and that what was dropped is gone, except where the user was at work
meanwhile; `RecordInv`, that a name is on record under its provider only. From
these, all five safety properties follow. A step without the flock, and every end of a
run, changes none of it (`Away`), which takes care of nine actions at once.

**SourceTrees.** `IInv` is `TypeOK` and: `WorkInv`, which package a sync is at and
what its program counter says of it; `LockInv`, that whoever works in a clone or
between loading and publication holds its flock, and that a project's lock keeps
its generations (`BuildInv`); `ArchiveInv`, that a name under `archives/` is
whole and that a directory about to be published is too; `HeadInv`, where HEAD is
while the checkouts of a fetch are still to come; `DirtyInv`, that without a kill
only a running checkout leaves files changed; and for `PinnedContent`, `AskedInv`
(a request under way has been noted), `CloneInv` and `PinInv`: as long as one
commit alone was asked of a repository, no checkout can leave files of another,
so that a clone handed over once stays right for ever. That argument is why
`PinnedContent` needs no flock, and why it fails with two commits.

**ConfigEntries.** `EntriesRecorded` speaks of the time between sessions; `HookInv`
says what the records count at each stage of one: what mars.lock records until the
removal and when that fails, nothing once it is done (`RemoveEntriesCount`), the
session's own hooks once they are written. `OutcomeInv` ties how far the hook
entries came to where the session is; `ServerInv` says the same of servers, for
which the records that the reconcile returned stand in until they are published;
`CleanInv` carries along, for `SyncSettles`, what a sync has done that met no
failure and no edit. The steps are easy; what is hard is what the operators compute.
All of them (`RemoveEntries`, `Wants`, `UserHooks`, `HoldsRecorded`, `FlattenSeq`) are
folds, which the community modules define by a function chosen on sets of
positions. `FoldExists` shows that there is such a function, `FoldSteps` that the
fold goes from the base to its result in one step for each member, and each
operator has a lemma that says which steps (`RemoveSteps` and its like). What
holds after every step, such as that removing the recorded entries takes away
each one as often as it is recorded and none of the user's, is then proved by
induction over the number of steps, where the property is a set of numbers
(`Inductive`): the library's induction theorems take an operator and cannot be used.
`EmittedCount` counts the entries of a concatenation by their places in its
members (`FlattenCount`), for the records are concatenated in another order
than the hooks were emitted in.

**CatalogCache.** `OneWorker` depends on the claim file, which is not what the
workers know: `LeaseInv` says that, while the clock is right, the file's age is the
true age of the claim, and that a worker whose lease still runs is the one that the
file names. `BaseInv` says that nobody replaced the snapshot since the holder of
the flock read it (it may be lost, which makes the revision smaller), `MarkerInv`
that a recent failure has a marker not younger than the clock allows, `HolderInv`
who holds which flock and whom a command has claimed for, `AgeInv` how far below
zero ages go.

**Resolution.** `SettledGraph` compares one selection under all requests with
many that were made under a few, or skipped. `SettledInv` says it of each pass at
any time, not of its end only. `StackInv` says that the stack is a path of
requests: whoever asks for a package that is still on it is below that package,
so that the request closes a cycle and is exempt (`VisitsResolving`). A request to a resolved
package either selects the same version and commit under one request more, or is
skipped by `CannotChange`; `RangeKeeps` shows that this is right: a version that was
selected and lies in one more range is selected again, be it the locked one, a
frozen one or the newest that all ranges allow. It rests on lemmas about `Max` of
finite sets, which need the least-element principle (`LeastOf`), the one form of
induction that the provers can cite. `SelectionHolds` is the other half: a selection
meets each request it was made under. A restart forgets the graph; `TryingInv`
says that what engines exclude concerns a package not yet in it.

`Replays` relates two walks, of which the second starts when the first is over, so
that no state shows both half-way. The first leaves enough to go by: the graph,
all requests in order, the lock. A *moment* is a state of the
walk without what the lock says; a *trail* is a set of moments, the start among
them, in which each but the last is followed by another and passed the checks on
the way. While a sync has not started over, the moments it went through form a
trail to where it is (`TrailSteps`, `TrailInvariant`). `Reselects`
is the heart: what a package ended at comes out again, under each number
of its requests, from the record in the lock: a version is kept by it; a pin is
found there, or the branch has not moved since it was looked up; HEAD stays HEAD.
`Floats` and `Unpinned` are what that argument cannot do without. So whatever
followed a moment follows it in the next sync (`FollowsReplayed`), nothing else can
(`FollowsOnce`), and the next sync stays on the trail (`FollowsNow`) up to its only
end, the graph of the first.

**PluginRelease.** `DiskInv` speaks of the disk alone, since any command may be
killed anywhere: what is aside was put there by Mars, HEAD is a commit one can go back
to (`GoodCommit`), and while nobody but builds touched the output, what recovery
would find accounts for every rendered root file (`Recoverable`). `ProcInv` says what a
command knows at each program counter: what is in the three trees while it holds
the lock (`LockInv`, `TreeInv`); what its snapshot covers and which version is free
to be tagged (`ReleaseInv`); that a release finds root files and trees as it left
them, as long as nobody else touched the package (`CalmInv`, for the rollback and the
tag); that each root file is as the plan, or the build before it, has it (`SoundInv`).
`Frame` lists what a step leaves to all other commands, so that each action is
looked at for its own command and for the rest at once.

**ProbeCache.** `EvidenceTrue` needs that nobody writes between a probe's first look
and its result (`ProberInv`, `SeenInv`), that ages are off by no more than the clock
was set back (`ListingAgeInv`, `ExpiredInv`), and then that the entry tells how the last
attempt of anybody ended (`HonestInv`), for Pi always, for the others as long as
the clock was right and the time limit is not 0: then an expired listing is from
before now, and a failure dated now is after it.

The invariants of all nine modules were model-checked on small instances before
they were proved. Three were found wrong that way or by a proof that would not go
through: an earlier form of `SettledGraph` compared labels, `TargetSync` allowed
a hook file whose script is an agent, and an earlier form of `Replays`, true in the
worlds of its run then, excepted neither first tags nor lost pins.

Only model-checked: liveness and `ENABLED` (out of the prover's reach):
`JournalDischarged`, `HostsServed`, `StaleServed`, `Refreshed`, `Refreshes`,
`RemovedCleaned`, `TargetFilled`, `SyncsEnd`, `Terminates`.

## Findings

Each is a run in which TLC finds the quoted sentence violated by what the code
does.

1. `half_renamed_skill`: a renamed skill is placed, then its SKILL.md rewritten.
   Killed in between, the tree matches no journaled version and recovery refuses
   all later syncs, `--force` and `repair` included. `docs/internals/lock-file.md`
   promises that a failure on either side of the write is recoverable.
2. `stale_override`: a version chosen by a restart is taken for a package's first
   request of a later pass without asking whether it fits. With p locked at 1, a@2
   asking p, b asking p =2 and then a =1, and a@1 asking p =1, the third pass
   succeeds with p at 2. `crates/mars-schema/src/version.rs` says that each
   request must hold on the ref a package ends at.

Seen while modelling, without a run:

- Canonical sync: `--force` skips a renamed item that the user turned into its
  source (`diff.rs:64`); an unowned file equal to the unrenamed source is
  overwritten without `--force` (`target.rs:736`, against
  `docs/internals/conflicts.md:71`); `--force` does bypass the self guard
  (`local_items.rs:190`, against `conflicts.md:82`); a write over a published
  claim is not journaled, so that after a kill its hash is stale; orphans go even
  if edited. A sync is killed after it installed a skill, the item is dropped, and the
  next sync is killed, or fails, within the removal of the directory
  (`platform/fs.rs:99`): what is left matches no journaled version, and recovery
  refuses all later syncs (`recovery.rs:305`) though only Mars wrote there, until the
  rest is removed by hand. (With a published claim they go on; if the item is wanted
  again, the rest is kept as an edit of the user's.) A recovered output that
  the user deletes under the sync is installed again without a journal entry
  (`recovery.rs`, `prepare`), so that a kill leaves it to nobody. TLC finds both
  when `JournalDischarged` does not except them.
- Provide: a directory made under a name put on record by a killed run is
  replaced or removed (`reconcile.rs:304`); what the user writes into a provided
  directory while a run holds the flock may be lost.
- Targets: link and unlink, run between an interrupted sync and its retry, change
  `mars.lock` and so make recovery refuse (`recovery.rs:293`); the hash read back
  after a copy records a racing edit as Mars's; a refused link leaves unrecorded
  copies, a killed sync copies that only `--force` takes back; link drops hook
  files from its phases (`cli/link.rs`); a kill of unlink between config save and
  lock write leaves claims on an unlinked target; unlink leaves the native
  manifest stale; a pending deletion of an item that is wanted again is neither
  retried nor overwritten (`finalize.rs:188`).
- Config entries: a kill between the hook file and mars.lock leaves entries that
  the next sync duplicates or never removes; an MCP value written before a kill
  counts as edited by the user afterwards.
- Sources: two packages of one repository at two tags share a clone. The second
  fetch moves it before the first package's payload is copied, so that its
  definitions come from one commit and its payload from another, and mars.lock
  records the former (`git_cli.rs:108`, `staging/mod.rs:142`), although
  `docs/internals/sync-pipeline.md:128` calls a sync deterministic after the first
  install; a sync of another project does the same. After a checkout that was
  killed half-way HEAD names the old commit over files of the new one; a later
  fetch of the old commit keeps them, since git is run without `--force`
  (`git_cli.rs:174`). The fields of `ResolvedState` drop in an order that releases
  the sync lock before the pending generation is removed (`sync/mod.rs:158`): a
  sync that waited for the lock may have made its own by then, and loses it. A git
  that is killed leaves its lock file, or half a clone, and every sync that needs
  the repository fails until it is removed by hand. Names of sources become
  staging directories without the hash that keeps cache entries apart
  (`staging/mod.rs:309`). TLC finds the first three as counterexamples to stronger
  forms of `PinnedContent` and `OwnGeneration`.
- Probes: a detached refresh of Cursor or OpenCode that fails keeps the listing and
  notes the attempt at the present time (`cursor_cache.rs:440`), without the care
  that foreground probes take (and Pi everywhere) to date it after the listing. If
  the clock was set back in between, the failure passes for a success, and
  commands go on to take the listing as proof of a login, against
  `models/probes/.context/CONTEXT.md:6`. With `MARS_PROBE_CACHE_TTL_SECS=0`, which
  `cursor_cache.rs:76` accepts, no clock need be set back: a refresh that fails
  within the second of the success it follows has the same date.
- Resolution: after a rejection the code expects that the rejected version meets
  all requests, else it panics (`package.rs:290`). A stale override need not meet
  them; but one in effect has passed the engines before, and TLC finds no "panic" in
  the worlds of the run, nor in others with ranges that nothing meets. An override on a package nobody asks for any more makes a second
  sync differ from the first; a request from within a cycle is never checked
  (`package.rs:210`); a semver request to an untagged repository gets HEAD; a
  package is known by the label of its first request, since a later one that selects
  the same version and commit changes nothing (`package.rs:172`), so that mars.lock
  names a branch or none depending on the order of the requests. If mars.lock pins
  an untagged repository at a branch that has moved, and the first request
  names no ref and a later one the branch, the first sync stays at the locked commit
  but writes the lock without the pin, and a second one goes to the head of the
  branch (`lock/mod.rs:1422`, `resolve/version.rs:211`), although
  `docs/internals/sync-pipeline.md:128` says that lock replay makes syncs deterministic.
- Plugin: a kill while `.<out>.mars-old` is being removed leaves a tree without a
  sentinel and recovery refuses it for ever; the rollback of a release does not
  hold the lock of the output, and a build that comes in between mixes with it; a
  kill during a rollback leaves a state that only git repairs; an edit of a
  touched path during a release is undone by its rollback; a kill between commit
  and tag leaves an untagged release commit; a build reads the package before it
  has the lock, so that the fingerprint may be newer than what was built.

## Plan

Done: the transaction, targets with their abstract ownership and its refinement,
config entries, version resolution, fetched sources and staging, plugin builds
and releases, provide, the catalog, the harness listings; theorems about each.

Next, in this order:

1. The native agent manifest and native skill projections in `TargetSync`.
2. Path sources and item selection in `Resolution`; names that collide and
   references that are rewritten (`sync/target.rs`, `sync/rewrite.rs`).
3. `DirInstall`: a directory install as one atomic step, implemented by the two
   renames with rollback, to replace what `CanonicalSync` and `Provide` inline.

## Not modelled

Lowering, launch bundles, schema parsing and emission, the CLI: pure translations
of documents, table driven and covered by fixtures; a model of them would be the
table again. Routing: a pure decision over aliases, catalog and the harness
listings, whose caches are in `ProbeCache`. git and HTTP themselves: they
appear as steps with an outcome. The merge of configuration layers and TOML
edits: their effect is an input of the models.
